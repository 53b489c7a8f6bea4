----------------------------- MODULE FlatMemory -----------------------------
(***************************************************************************)
(* What os_ex4/VirtualMemory.h promises: an array of words, 0 at first,    *)
(* that VMread and VMwrite access; a call with a bad address fails.        *)
(***************************************************************************)
EXTENDS Integers

CONSTANTS Addresses, Words, Invalid

VARIABLES
    store,   \* the word at each address
    answer   \* what the last call returned: <<0>>, <<1>> or <<1, word read>>

vars == <<store, answer>>

Init == store = [a \in Addresses |-> 0] /\ answer = <<>>

Read(before, after) ==
    /\ \E a \in Addresses : answer' = <<1, before[a]>>
    /\ after = before

Write(before, after) ==
    /\ answer' = <<1>>
    /\ \E a \in Addresses :
         after[a] \in Words /\ after = [before EXCEPT ![a] = after[a]]

Fail == answer' = <<0>> /\ Invalid # {} /\ UNCHANGED store

\* The two memories are named so that a mapping to them is computed once.
Next ==
    \/ \E before \in {store}, after \in {store'} : Read(before, after) \/ Write(before, after)
    \/ Fail

Spec == Init /\ [][Next]_vars
=============================================================================
