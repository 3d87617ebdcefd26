----------------------------- MODULE Restartable -----------------------------
(***************************************************************************)
(* The wrapper that goes on with a test run after the program has crashed  *)
(* (lib/tut_restartable.h).  Before every test it writes to the log which  *)
(* one it is, after it the result to the journal; both are files.  That    *)
(* texts come back from the files as they were is shown in EscapedText.    *)
(***************************************************************************)
EXTENDS Integers, Sequences

CONSTANTS
  GroupOrder,        \* the names of all groups, in the order of the map
  MaxTestsInGroup,
  Outcome,           \* what tests may do: "dummy", "crash", or a result
  MaxJournal,        \* a bound: lines of the journal; those behind it are not kept
  Kills              \* a bound: crashes outside of a test

VARIABLES
  tests,             \* [name -> [number -> Outcome]]
  log_,              \* the log file: <<>>, or the name and the number of a test
  jrn_,              \* the journal file: a sequence of lines
  pc,
  gni, test,         \* the group and the test, as in run_tests
  result,            \* of the last test
  shown,             \* what the callback got
  kills

vars == <<tests, log_, jrn_, pc, gni, test, result, shown, kills>>

Names == {GroupOrder[k] : k \in 1 .. Len(GroupOrder)}
Number == 1 .. MaxTestsInGroup

Init ==
  /\ tests \in [Names -> [Number -> Outcome]]
  /\ log_ = <<>>
  /\ jrn_ = <<>>
  /\ pc = "start"
  /\ gni = 1
  /\ test = 1
  /\ result = "none"
  /\ shown = <<>>
  /\ kills = 0

Added(line) == IF Len(jrn_) < MaxJournal THEN Append(jrn_, line) ELSE jrn_

Code == [ok |-> 0, fail |-> 1, ex |-> 2, warn |-> 3, term |-> 4]

(* Mutant: that the test before was terminated is not written down. *)
read_log_Silent ==
  /\ pc = "start"
  /\ gni' = IF log_ = <<>> THEN 1 ELSE CHOOSE k \in 1 .. Len(GroupOrder) : GroupOrder[k] = log_[1]
  /\ test' = IF log_ = <<>> THEN 1 ELSE log_[2] + 1
  /\ jrn_' = IF log_ = <<>> THEN <<>> ELSE jrn_
  /\ pc' = "log"
  /\ UNCHANGED <<tests, log_, result, shown, kills>>

(* Mutant: the run goes on with the next group. *)
read_log_NextGroup ==
  /\ pc = "start"
  /\ gni' = IF log_ = <<>> THEN 1 ELSE 2
  /\ jrn_' = IF log_ = <<>> THEN <<>> ELSE jrn_
  /\ test' = 1
  /\ pc' = "log"
  /\ UNCHANGED <<tests, log_, result, shown, kills>>

(* read_log_, and the way to the group where the run before ended, which     *)
(* goes on after the test that was terminated.  A log that cannot be read is *)
(* the beginning of a new run.                                               *)
read_log_ ==
  /\ pc = "start"
  /\ IF log_ = <<>>
     THEN /\ jrn_' = <<>>
          /\ gni' = 1
          /\ test' = 1
          /\ pc' = "log"
          /\ UNCHANGED result
     ELSE /\ gni' = CHOOSE k \in 1 .. Len(GroupOrder) : GroupOrder[k] = log_[1]
          /\ test' = log_[2]
          /\ result' = "term"
          /\ pc' = "register"
          /\ UNCHANGED jrn_
  /\ UNCHANGED <<tests, log_, shown, kills>>

(* register_execution_: the file is opened, which empties it, and written. *)
open_log ==
  /\ pc = "log"
  /\ log_' = <<>>
  /\ pc' = "write"
  /\ UNCHANGED <<tests, jrn_, gni, test, result, shown, kills>>

(* All numbers beyond the last test are the same here. *)
register_execution_ ==
  /\ pc = "write"
  /\ log_' = <<GroupOrder[gni], IF test \in Number THEN test ELSE MaxTestsInGroup + 1>>
  /\ pc' = "run"
  /\ UNCHANGED <<tests, jrn_, gni, test, result, shown, kills>>

Crash ==
  /\ pc' = "crashed"
  /\ UNCHANGED <<gni, test, result>>

NextGroup ==
  /\ gni' = gni + 1
  /\ test' = 1
  /\ pc' = IF gni = Len(GroupOrder) THEN "show" ELSE "log"
  /\ UNCHANGED result

(* run_test of the runner: a number beyond the last ends the group. *)
run_test ==
  /\ pc = "run"
  /\ IF test > MaxTestsInGroup THEN NextGroup
     ELSE LET outcome == tests[GroupOrder[gni]][test] IN
          CASE outcome = "crash" -> Crash
            [] outcome = "dummy" -> test' = test + 1 /\ pc' = "log" /\ UNCHANGED <<gni, result>>
            [] OTHER -> result' = outcome /\ pc' = "register" /\ UNCHANGED <<gni, test>>
  /\ UNCHANGED <<tests, log_, jrn_, shown, kills>>

(* register_test_, with serialize: a line for the group and one for the      *)
(* test, and both go to the file when they are ended.                        *)
register_group ==
  /\ pc = "register"
  /\ jrn_' = Added(<<"group", GroupOrder[gni]>>)
  /\ pc' = "result"
  /\ UNCHANGED <<tests, log_, gni, test, result, shown, kills>>

register_test_ ==
  /\ pc = "result"
  /\ jrn_' = Added(<<"test", test, Code[result]>>)
  /\ test' = test + 1
  /\ pc' = "log"
  /\ UNCHANGED <<tests, log_, gni, result, shown, kills>>

(* A line in the wrong place is an exception that nobody catches. *)
WellFormed ==
  /\ Len(jrn_) % 2 = 0
  /\ \A k \in 1 .. Len(jrn_) : jrn_[k][1] = IF k % 2 = 1 THEN "group" ELSE "test"

deserialize ==
  [k \in 1 .. Len(jrn_) \div 2 |->
     <<jrn_[2 * k - 1][2], jrn_[2 * k][2], CHOOSE r \in DOMAIN Code : Code[r] = jrn_[2 * k][3]>>]

invoke_callback_ ==
  /\ pc = "show"
  /\ IF WellFormed THEN shown' = deserialize /\ pc' = "truncate"
     ELSE shown' = shown /\ pc' = "crashed"
  /\ UNCHANGED <<tests, log_, jrn_, gni, test, result, kills>>

truncate_ ==
  /\ pc = "truncate"
  /\ log_' = <<>>
  /\ jrn_' = <<>>
  /\ pc' = "done"
  /\ UNCHANGED <<tests, gni, test, result, shown, kills>>

(* The program is stopped between two steps of the wrapper. *)
Kill ==
  /\ kills < Kills
  /\ pc \notin {"crashed", "done"}
  /\ kills' = kills + 1
  /\ pc' = "crashed"
  /\ UNCHANGED <<tests, log_, jrn_, gni, test, result, shown>>

(* The user starts the program again; nothing but the files is left. *)
Restart ==
  /\ pc = "crashed"
  /\ pc' = "start"
  /\ gni' = 1
  /\ test' = 1
  /\ result' = "none"
  /\ UNCHANGED <<tests, log_, jrn_, shown, kills>>

Step == \/ read_log_ \/ open_log \/ register_execution_ \/ run_test \/ register_group \/ register_test_
        \/ invoke_callback_ \/ truncate_ \/ Restart
Next == Step \/ Kill

Spec == Init /\ [][Next]_vars

-----------------------------------------------------------------------------
(* Properties.                                                              *)

(* The results of all written tests in order; a test that crashes is         *)
(* reported as terminated.                                                   *)
Expected ==
  LET Of(name) == SelectSeq([n \in Number |-> <<name, n, IF tests[name][n] = "crash" THEN "term" ELSE tests[name][n]>>],
                            LAMBDA r : r[3] # "dummy")
      From[k \in 0 .. Len(GroupOrder)] == IF k = 0 THEN <<>> ELSE From[k - 1] \o Of(GroupOrder[k])
  IN  From[Len(GroupOrder)]

(* Two lines for a group follow each other: the program was stopped after it *)
(* had written the first, and reported the test as terminated when it was    *)
(* started again.                                                            *)
Torn == \E k \in 1 .. Len(jrn_) - 1 : jrn_[k][1] = "group" /\ jrn_[k + 1][1] = "group"

(* However many tests crash, the run comes to its end and what the user sees *)
(* has every test once: tut_restartable.h says that runs which were finished *)
(* abnormally can be restarted.  If the wrapper itself is stopped, the run   *)
(* still comes to its end, unless that was between the two lines of a        *)
(* result: then every start of the program ends in the same exception.       *)
ShowsAll == <>((pc = "done" /\ (kills = 0 => shown = Expected)) \/ Torn)

(* Even if the program is stopped anywhere, no test is left out in the end,  *)
(* and each is shown with its result, or as terminated.                      *)
NoneMissing ==
  pc \in {"truncate", "done"} =>
    \A k \in 1 .. Len(Expected) : \E l \in 1 .. Len(shown) :
      shown[l] = Expected[k] \/ (kills > 0 /\ shown[l] = <<Expected[k][1], Expected[k][2], "term">>)
=============================================================================
