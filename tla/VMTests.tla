------------------------------ MODULE VMTests ------------------------------
(***************************************************************************)
(* The programs of os_ex4 that use the virtual memory: the test            *)
(* yaara_test/YaaraTest.cpp, which looks into the RAM between its calls,   *)
(* SimpleTest.cpp, and a program "any" that reads and writes as it likes.  *)
(* The constants have the values of yaara_test/YaaraConstants.h.           *)
(***************************************************************************)
EXTENDS VirtualMemory

CONSTANTS
    AnyCalled, AnyData,   \* the addresses and the words of the program "any"
    Stride                \* SimpleTest touches every Stride-th page (5)

ASSUME TestsAssumption ==
    AnyCalled \subseteq Called /\ AnyData \subseteq Data /\ Stride \in Nat \ {0}

VARIABLES program, step  \* the program that runs, and how many calls it has made

testVars == <<vars, program, step>>

write(a, word) == [a |-> a, word |-> <<word>>]
read(a) == [a |-> a, word |-> <<>>]

yaara == <<write(13, 3), read(13), read(6), read(31), write(29, 5), read(29)>>

simple ==
    LET Address(i) == Stride * (i - 1) * PageSize
        Word(i) == (i - 1) * 100
    IN  [i \in 1 .. 2 * NumFrames |-> write(Address(i), Word(i))]
        \o [i \in 1 .. 2 * NumFrames |-> read(Address(i))]

Script == CASE program = "yaara" -> yaara [] program = "simple" -> simple [] OTHER -> <<>>

(* The configuration that YaaraTest is written for.                        *)
YaaraConstants == PageSize = 2 /\ NumFrames = 8 /\ NumPages = 16 /\ Depth = 4

(* The programs keep to the addresses and words that they are said to use. *)
InScope(script) ==
    \A i \in DOMAIN script :
        /\ script[i].a \in Called
        /\ script[i].word # <<>> => script[i].word[1] \in Data

ASSUME ScriptsAssumption == InScope(simple) /\ (YaaraConstants => InScope(yaara))

TestInit ==
    /\ Init
    /\ program \in {"any", "yaara", "simple"} /\ step = 0
    /\ program = "yaara" => YaaraConstants

(* As in Calls, paths is what the call may find in its array.              *)
MakeCall(call, paths) ==
    \E frame_path \in paths :
        IF call.word = <<>> THEN VMread(call.a, frame_path)
        ELSE VMwrite(call.a, call.word[1], frame_path)

AnyCalls(paths) ==
    /\ program = "any"
    /\ Calls(AnyCalled, AnyData, paths)
    /\ UNCHANGED <<program, step>>

Scripted(paths) ==
    /\ mem.ok /\ step < Len(Script)
    /\ step' = step + 1
    /\ MakeCall(Script[step + 1], paths)
    /\ UNCHANGED program

Done == program # "any" /\ step = Len(Script) /\ UNCHANGED testVars

TestCalls(paths) == AnyCalls(paths) \/ Scripted(paths) \/ Done

TestSpec == TestInit /\ [][TestCalls(Uninitialised)]_testVars

-----------------------------------------------------------------------------
(* What the RAM should be; -1 stands for garbage, which is not compared.   *)
ram_init == <<0, 0, -1, -1, -1, -1, -1, -1, -1, -1, -1, -1, -1, -1, -1, -1>>
ram_page_14 == <<1, 0, 0, 2, 0, 3, 4, 0, -1, 3, -1, -1, -1, -1, -1, -1>>
ram_page_16 == <<1, 0, 5, 2, 0, 3, 4, 0, -1, 3, 0, 6, 0, 7, -1, -1>>
ram_page_27 == <<1, 4, 5, 0, 0, 7, 0, 2, 0, 3, 0, 6, 0, 0, -1, -1>>
ram_a == <<1, 4, 5, 0, 6, 7, 0, 2, 0, 3, 0, 0, 0, 5, -1, -1>>

check_ram(ram) == \A i \in DOMAIN ram : ram[i] = -1 \/ PMread(mem, i - 1) = ram[i]

(* The page's word that was read is the one in the frame of the example.   *)
Check(ram, physical) == check_ram(ram) /\ answer = <<1, PMread(mem, physical)>>

(* The assertions of the tests hold.  YaaraTest.cpp finds the tables, the  *)
(* pages and the evictions in the frames where the worked example has      *)
(* them, which takes the order of the search, the choice of the victim and *)
(* the order of preference of the three ways to a frame (lines 63, 74-76,  *)
(* 86-87, 96-97, 106-108; VirtualMemory.cpp:174-232, 258-285).             *)
(* SimpleTest.cpp:13-18 reads back what it wrote to twice as many pages as *)
(* there are frames.                                                       *)
TestsPass ==
    CASE program = "yaara" /\ step = 0 -> check_ram(ram_init)
      [] program = "yaara" /\ step = 2 -> Check(ram_page_14, 9) /\ answer[2] = 3
      [] program = "yaara" /\ step = 3 -> Check(ram_page_16, 14)
      [] program = "yaara" /\ step = 4 -> Check(ram_page_27, 15)
      [] program = "yaara" /\ step = 6 -> Check(ram_a, 13) /\ answer[2] = 5
      [] program = "simple" /\ step > 2 * NumFrames ->
             answer = <<1, (step - 2 * NumFrames - 1) * 100>>
      [] OTHER -> TRUE
=============================================================================
