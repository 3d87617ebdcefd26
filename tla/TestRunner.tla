----------------------------- MODULE TestRunner -----------------------------
(***************************************************************************)
(* The test framework (lib/tut.h) with its reporter (lib/tut_reporter.h),  *)
(* without the structured exceptions of Windows.  A test is known by what  *)
(* its body and the destructor of its object do; the numbers that no test  *)
(* was written for have the body "dummy".                                  *)
(***************************************************************************)
EXTENDS Integers, Sequences, FiniteSets

CONSTANTS
  GroupOrder,       \* the names of all groups, in the order of the map
  MaxTestsInGroup,
  Group,            \* the possible groups: constructor, and tests by number
  MaxRuns           \* a bound: calls of the runner

VARIABLES
  written,          \* [name -> Group]: what was written
  groups_,          \* the names that are registered
  pc,               \* "static", "idle", "group", "test", "completed" or "terminated"
  todo,             \* the names of the groups of the run still to do
  current_test_,
  only,             \* whether the run is of one test
  obj,              \* what the holder points to: the number of an object, or 0
  live,             \* the objects that exist
  used,             \* [object -> number of written tests that ran on it] (not in the code)
  report,           \* the reporter
  asked,            \* the tests that the run is about (not in the code)
  runs

vars == <<written, groups_, pc, todo, current_test_, only, obj, live, used, report, asked, runs>>
objectVars == <<obj, live, used>>

Names == {GroupOrder[k] : k \in 1 .. Len(GroupOrder)}
(* tests_registerer: every number up to the last is registered. *)
Number == 1 .. MaxTestsInGroup
Results == {"ok", "fail", "ex", "warn", "term"}

(* reporter::init *)
NewReport == [count |-> [r \in Results |-> 0], not_passed |-> <<>>, seen |-> <<>>]

Init ==
  /\ written \in [Names -> Group]
  /\ groups_ = {}
  /\ pc = "static"
  /\ todo = <<>>
  /\ current_test_ = 1
  /\ only = FALSE
  /\ obj = 0
  /\ live = {}
  /\ used = <<>>
  /\ report = NewReport
  /\ asked = <<>>
  /\ runs = 0

(* A name that is taken ends the program. *)
register_group(name) ==
  IF name \in groups_ THEN pc' = "terminated" /\ groups_' = groups_
  ELSE pc' = pc /\ groups_' = groups_ \cup {name}

(* The constructor of a test_group *)
test_group(name) ==
  /\ pc = "static"
  /\ register_group(name)
  /\ UNCHANGED <<written, todo, current_test_, only, objectVars, report, asked, runs>>

Main ==
  /\ pc = "static"
  /\ pc' = "idle"
  /\ UNCHANGED <<written, groups_, todo, current_test_, only, objectVars, report, asked, runs>>

(* The written tests of some groups, in order (not in the code). *)
WrittenTests(names, numbers) ==
  LET Of(name) == SelectSeq([n \in Number |-> <<name, n>>],
                            LAMBDA t : t[2] \in numbers /\ written[t[1]].tests[t[2]].body # "dummy")
      From[k \in 0 .. Len(names)] == IF k = 0 THEN <<>> ELSE From[k - 1] \o Of(names[k])
  IN  From[Len(names)]

list_groups == SelectSeq(GroupOrder, LAMBDA name : name \in groups_)

(* run_started *)
Start(names, numbers, where) ==
  /\ pc = "idle"
  /\ runs < MaxRuns
  /\ runs' = runs + 1
  /\ report' = NewReport
  /\ asked' = WrittenTests(names, numbers)
  /\ todo' = names
  /\ pc' = where
  /\ UNCHANGED <<written, groups_, objectVars>>

run_tests ==
  /\ Start(list_groups, Number, "group")
  /\ only' = FALSE
  /\ UNCHANGED current_test_

(* A group that does not exist is an exception, after run_started. *)
run_tests_of(name) ==
  /\ Start(IF name \in groups_ THEN <<name>> ELSE <<>>, Number, IF name \in groups_ THEN "group" ELSE "idle")
  /\ only' = FALSE
  /\ UNCHANGED current_test_

(* A number beyond the last is an exception, after run_completed. *)
run_test(name, n) ==
  /\ Start(IF name \in groups_ THEN <<name>> ELSE <<>>, {n},
           IF name \notin groups_ THEN "idle" ELSE IF n > MaxTestsInGroup THEN "completed" ELSE "test")
  /\ only' = TRUE
  /\ current_test_' = n

rewind ==
  /\ pc = "group"
  /\ IF todo = <<>> THEN pc' = "completed" /\ UNCHANGED current_test_
     ELSE pc' = "test" /\ current_test_' = 1
  /\ UNCHANGED <<written, groups_, todo, only, objectVars, report, asked, runs>>

(* Mutant: a failure of the destructor hides that of the test. *)
ResultOfDestructor(test) ==
  IF test.dtor = "throws" THEN "warn"
  ELSE CASE test.body = "ok" -> "ok" [] test.body = "fail" -> "fail" [] OTHER -> "ex"

(* run_test_ and safe_holder::release: the exceptions of the destructor      *)
(* count only if the test itself passed.                                     *)
Result(test) ==
  CASE test.body = "fail" -> "fail"
    [] test.body = "throws" -> "ex"
    [] test.body = "ok" /\ test.dtor = "throws" -> "warn"
    [] OTHER -> "ok"

(* reporter::test_completed *)
Completed(r, name, n, result) ==
  [count |-> [r.count EXCEPT ![result] = @ + 1],
   not_passed |-> IF result = "ok" THEN r.not_passed ELSE Append(r.not_passed, <<name, n, result>>),
   seen |-> Append(r.seen, <<name, n, result>>)]

(* safe_holder::reset makes an object if there is none, and release deletes  *)
(* it, whatever its destructor throws.                                       *)
reset == IF obj = 0 THEN Len(used) + 1 ELSE obj
release(object) == live' = live \ {object} /\ obj' = 0

(* A run of one test is over then, and so is its holder. *)
AfterTest == IF only THEN "completed" ELSE "test"

(* One number: the object is made if the holder has none, and the method is  *)
(* called.  After a dummy the object is kept for the next number; after a    *)
(* test it is deleted, when it is over or when the holder is.                *)
run_test_ ==
  LET name == Head(todo)
      test == written[name].tests[current_test_]
      object == reset
      before == IF obj = 0 THEN Append(used, 0) ELSE used
  IN  /\ pc = "test"
      /\ current_test_ <= MaxTestsInGroup
      /\ current_test_' = current_test_ + 1
      /\ IF obj = 0 /\ written[name].ctor = "throws"
         THEN /\ report' = Completed(report, name, current_test_, "ex")
              /\ UNCHANGED objectVars
         ELSE IF test.body = "dummy"
         THEN /\ used' = before
              /\ IF only THEN release(object) ELSE live' = live \cup {object} /\ obj' = object
              /\ report' = report
         ELSE /\ used' = [before EXCEPT ![object] = @ + 1]
              /\ release(object)
              /\ report' = Completed(report, name, current_test_, Result(test))
      /\ pc' = AfterTest
      /\ UNCHANGED <<written, groups_, todo, only, asked, runs>>

(* The holder goes out of scope. *)
no_more_tests ==
  /\ pc = "test"
  /\ current_test_ > MaxTestsInGroup
  /\ release(obj)
  /\ todo' = Tail(todo)
  /\ pc' = "group"
  /\ UNCHANGED <<written, groups_, current_test_, only, used, report, asked, runs>>

(* The results are shown, and the caller goes on. *)
run_completed ==
  /\ pc = "completed"
  /\ pc' = "idle"
  /\ todo' = <<>>
  /\ UNCHANGED <<written, groups_, current_test_, only, objectVars, report, asked, runs>>

Next ==
  \/ \E name \in Names : test_group(name) \/ run_tests_of(name) \/ \E n \in 1 .. MaxTestsInGroup + 1 : run_test(name, n)
  \/ Main \/ run_tests \/ rewind \/ run_test_ \/ no_more_tests \/ run_completed

Spec == Init /\ [][Next]_vars

-----------------------------------------------------------------------------
(* Properties.                                                              *)

(* The tests in the report. *)
Reported == [k \in 1 .. Len(report.seen) |-> <<report.seen[k][1], report.seen[k][2]>>]

(* A run reports every test it is about once, in order, and the result is    *)
(* that of the test's body unless only the destructor failed.  In a group    *)
(* whose constructor throws, every number is an exception.                   *)
ReportIsComplete ==
  LET Constructed(t) == written[t[1]].ctor = "fine" IN
  pc = "completed" =>
    /\ SelectSeq(Reported, Constructed) = SelectSeq(asked, Constructed)
    /\ \A k \in 1 .. Len(Reported) :
         (report.seen[k][3] \in {"fail", "ex"}) =
           (Constructed(Reported[k]) => written[Reported[k][1]].tests[Reported[k][2]].body # "ok")

(* The summary is about this run: its counts add up to the tests, and what   *)
(* did not pass is listed.                                                   *)
SummaryAgrees ==
  pc = "completed" =>
    \A r \in Results :
      /\ report.count[r] = Cardinality({k \in 1 .. Len(report.seen) : report.seen[k][3] = r})
      /\ r # "ok" => report.count[r] = Len(SelectSeq(report.not_passed, LAMBDA x : x[3] = r))

(* Every written test runs on an object on which no other test ran. *)
ObjectsAreFresh == \A o \in 1 .. Len(used) : used[o] <= 1

(* No object outlives its run. *)
ObjectsAreDeleted == pc \in {"idle", "completed"} => live = {}
=============================================================================
