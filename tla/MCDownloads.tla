---------------------------- MODULE MCDownloads -----------------------------
(* The answers to two searches, and what the user does beside them.        *)
EXTENDS Downloads

CONSTANTS s1, s2

Plain == [spaces |-> {}, digits |-> {}, size |-> 1]
Longer == [Plain EXCEPT !.size = 2]
Digits == [Plain EXCEPT !.digits = {3, 4, 5}]
Spaced == [Plain EXCEPT !.spaces = {3}]
Numbered == [Plain EXCEPT !.spaces = {3, 4}, !.digits = {4}]
Ranked == [Plain EXCEPT !.spaces = {3}, !.digits = {4, 5}]
Large == [Plain EXCEPT !.size = 2 * Half - 1]
Wrapped == [Plain EXCEPT !.size = 2 * Half + 2]
SomeSizes == {-1, 0, 3}
One(a) == [s \in {s1} |-> a]
Two(a, b) == [s \in {s1, s2} |-> IF s = s1 THEN a ELSE b]
Plan(answers, l, d, b, c) ==
  [answers |-> answers, lists |-> l, downloads |-> d, bytes |-> b, cuts |-> c]

(* Two searches under a RESULTS; more records than slots; a download under *)
(* two searches, and a longer one after one search; records that fail,     *)
(* that are cut, whose names are numbers or hold one, whose sizes wrap.    *)
SomePlans == {
  Plan(Two(<<Plain>>, <<Plain>>), 1, 0, 0, FALSE),
  Plan(One(<<Plain, Plain, Plain>>), 2, 0, 0, FALSE),
  Plan(Two(<<Plain>>, <<Plain>>), 0, 1, 0, FALSE),
  Plan(One(<<Longer>>), 0, 1, 3, TRUE),
  Plan(One(<<Plain, Spaced>>), 0, 0, 0, TRUE),
  Plan(One(<<Digits, Plain>>), 0, 0, 0, TRUE),
  Plan(One(<<Numbered, Plain>>), 1, 0, 0, FALSE),
  Plan(One(<<Plain, Ranked>>), 0, 0, 0, FALSE),
  Plan(One(<<Wrapped, Large>>), 1, 0, 0, FALSE),
  Plan(One(<<Plain, Plain>>), 1, 0, 0, TRUE) }
=============================================================================
