-------------------------- MODULE EngineViewsProofs --------------------------
(***************************************************************************)
(* What the engine's derived state holds: for any views, appenders, keys   *)
(* and scenarios within the stated hypotheses.  A maintenance operation is *)
(* a list of steps, and the order of its steps is what the invariants rest *)
(* on: what is wrong at a moment is put right by a step still to come.     *)
(***************************************************************************)
EXTENDS EngineViews, NatLemmas

-----------------------------------------------------------------------------
(* The steps that remain.                                                   *)

Dos == {"mark", "destroy_key", "lock", "rebuild", "catch_up", "reset_watermarks", "save",
        "persist_watermarks", "unlock", "open_attr", "scan_attr", "replay_attr", "swap_attr",
        "receipt", "save_attr", "unmark", "exit"}
Step1(d) == [do |-> d, view |-> NoKey]
Save(v) == [do |-> "save", view |-> v]
Saving == {Save(v) : v \in Views}
Item == {Step1(d) : d \in Dos \ {"save"}} \cup Saving

Items(s) == {s[i] : i \in DOMAIN s}

\* The order in which every operation takes its steps.  The saves and the
\* persisting of the watermarks share a rank; no other step is taken twice.
Rank(d) ==
  CASE d = "mark" -> 1
    [] d = "destroy_key" -> 2
    [] d = "lock" -> 3
    [] d \in {"rebuild", "catch_up", "reset_watermarks"} -> 4
    [] d \in {"save", "persist_watermarks"} -> 5
    [] d = "unlock" -> 6
    [] d \in {"open_attr", "scan_attr"} -> 7
    [] d \in {"replay_attr", "swap_attr"} -> 8
    [] d = "receipt" -> 9
    [] d = "save_attr" -> 10
    [] d \in {"unmark", "exit"} -> 11
    [] OTHER -> 0
Precedes(d, e) == Rank(d) < Rank(e) \/ (Rank(d) = 5 /\ Rank(e) = 5)

\* A list of steps in that order, with ranks between lo and hi.
Listed(s, lo, hi) ==
  /\ s \in Seq(Item)
  /\ \A x \in Items(s) : lo <= Rank(x.do) /\ Rank(x.do) <= hi
  /\ \A i, j \in 1..Len(s) : i < j => Precedes(s[i].do, s[j].do)

\* No snapshot is saved once the watermarks have been persisted.
SavesFirst(s) ==
  \A i, j \in 1..Len(s) : i < j /\ s[i].do = "persist_watermarks" => s[j].do # "save"

\* The steps an operation is made of, and those it is sure to take.
StepsOf(o) ==
  CASE o = "checkpoint" -> {"lock", "save", "persist_watermarks", "unlock", "save_attr"}
    [] o = "shutdown" -> {"lock", "save", "persist_watermarks", "unlock", "save_attr", "exit"}
    [] o = "rebuild" -> {"lock", "rebuild", "persist_watermarks", "unlock"}
    [] o = "shred" -> {"mark", "destroy_key", "lock", "rebuild", "persist_watermarks", "save",
                       "unlock", "scan_attr", "swap_attr", "receipt", "unmark"}
    [] o = "open" -> {"catch_up", "persist_watermarks", "save", "open_attr", "replay_attr",
                      "reset_watermarks"}
    [] o = "privacy_open" -> {"rebuild", "persist_watermarks", "save", "replay_attr", "save_attr",
                              "unmark"}
    [] OTHER -> {}
Sure(o) ==
  CASE o = "checkpoint" -> Saving \cup {Step1("unlock")}
    [] o = "shutdown" -> Saving \cup {Step1("unlock"), Step1("save_attr")}
    [] o = "rebuild" -> {Step1("unlock")}
    [] o = "shred" -> Saving \cup {Step1(d) : d \in {"mark", "destroy_key", "rebuild", "unlock",
                                                     "scan_attr", "swap_attr", "unmark"}}
    [] o = "privacy_open" -> Saving \cup {Step1(d) : d \in {"rebuild", "save_attr", "unmark"}}
    [] OTHER -> {}

\* What is left of an operation: an end of it.
Remaining(o, s) ==
  /\ Listed(s, 1, 11)
  /\ \A x \in Items(s) : x.do \in StepsOf(o)
  /\ \A x \in Items(s) : \A y \in Sure(o) :
       Rank(x.do) < Rank(y.do) => y \in Items(s)
  /\ o \in {"checkpoint", "shutdown"} => SavesFirst(s)
TodoInv == Remaining(op, todo)

LEMMA ItemSeq ==
  ASSUME NEW s \in Seq(Item)
  PROVE  /\ Len(s) \in Nat /\ DOMAIN s = 1..Len(s)
         /\ \A x : x \in Items(s) <=> \E i \in 1..Len(s) : x = s[i]
         /\ Items(s) \subseteq Item
<1>1. Len(s) \in Nat /\ DOMAIN s = 1..Len(s)
  BY LenProperties
<1>2. \A i \in 1..Len(s) : s[i] \in Item
  BY ElementOfSeq
<1> QED BY <1>1, <1>2 DEF Items

LEMMA RankType == \A d : Rank(d) \in 0..11
BY DEF Rank

LEMMA OneStep ==
  ASSUME NEW d \in Dos, d # "save", NEW lo \in Nat, NEW hi \in Nat,
         lo <= Rank(d), Rank(d) <= hi
  PROVE  Listed(Do(d), lo, hi) /\ Items(Do(d)) = {Step1(d)}
<1>1. Do(d) = <<Step1(d)>> /\ Step1(d) \in Item /\ Step1(d).do = d
  BY DEF Do, Step1, Item
<1>2. Do(d) \in Seq(Item) /\ Len(Do(d)) = 1 /\ Do(d)[1] = Step1(d) /\ DOMAIN Do(d) = 1..1
  BY <1>1
<1>3. Items(Do(d)) = {Step1(d)}
  BY <1>2 DEF Items
<1> QED BY <1>1, <1>2, <1>3 DEF Listed

LEMMA JoinedSteps ==
  ASSUME NEW s, NEW t, NEW lo \in Nat, NEW m \in Nat, NEW n \in Nat, NEW hi \in Nat,
         lo <= m, m < n \/ (m = 5 /\ n = 5), n <= hi, Listed(s, lo, m), Listed(t, n, hi)
  PROVE  Listed(s \o t, lo, hi) /\ Items(s \o t) = Items(s) \cup Items(t)
<1> DEFINE u == s \o t
           a == Len(s)
           b == Len(t)
<1>1. /\ s \in Seq(Item) /\ t \in Seq(Item) /\ a \in Nat /\ b \in Nat
      /\ \A x : x \in Items(s) <=> \E i \in 1..a : x = s[i]
      /\ \A x : x \in Items(t) <=> \E i \in 1..b : x = t[i]
  BY ItemSeq DEF Listed
<1>2. /\ u \in Seq(Item) /\ Len(u) = a + b
      /\ \A i \in 1..(a + b) : u[i] = IF i <= a THEN s[i] ELSE t[i - a]
  BY <1>1, ConcatProperties
<1> HIDE DEF u, a, b
<1>3. \A x : x \in Items(u) <=> \E i \in 1..(a + b) : x = u[i]
  <2>1. \A x : x \in Items(u) <=> \E i \in 1..Len(u) : x = u[i]
    BY <1>2, ItemSeq
  <2> QED BY <2>1, <1>2
<1>4. \A i \in 1..(a + b) : \/ i \in 1..a /\ u[i] = s[i]
                            \/ i > a /\ i - a \in 1..b /\ u[i] = t[i - a]
  BY <1>1, <1>2
<1>5. /\ \A i \in 1..a : i \in 1..(a + b) /\ u[i] = s[i]
      /\ \A i \in 1..b : i + a \in 1..(a + b) /\ u[i + a] = t[i]
  <2>1. \A i \in 1..a : i \in 1..(a + b) /\ i <= a
    BY <1>1
  <2>2. \A i \in 1..b : i + a \in 1..(a + b) /\ ~(i + a <= a) /\ (i + a) - a = i
    BY <1>1
  <2> QED BY <1>2, <2>1, <2>2
<1>6. Items(u) = Items(s) \cup Items(t)
  <2>1. ASSUME NEW x \in Items(u) PROVE x \in Items(s) \cup Items(t)
    BY <1>1, <1>3, <1>4
  <2>2. ASSUME NEW x \in Items(s) \cup Items(t) PROVE x \in Items(u)
    <3>1. CASE x \in Items(s)
      BY <1>1, <1>3, <1>5, <3>1
    <3>2. CASE x \in Items(t)
      <4>1. PICK i \in 1..b : x = t[i]
        BY <1>1, <3>2
      <4> QED BY <1>3, <1>5, <4>1
    <3> QED BY <2>2, <3>1, <3>2
  <2> QED BY <2>1, <2>2
<1>7. /\ \A x \in Items(s) : lo <= Rank(x.do) /\ Rank(x.do) <= m
      /\ \A x \in Items(t) : n <= Rank(x.do) /\ Rank(x.do) <= hi
  BY DEF Listed
<1>8. ASSUME NEW x \in Items(u)
      PROVE  lo <= Rank(x.do) /\ Rank(x.do) <= hi
  <2>1. Rank(x.do) \in Nat
    BY RankType
  <2> QED BY <1>6, <1>7, <1>8, <2>1
<1>9. ASSUME NEW i \in 1..(a + b), NEW j \in 1..(a + b), i < j
      PROVE  Precedes(u[i].do, u[j].do)
  <2>1. Rank(u[i].do) \in Nat /\ Rank(u[j].do) \in Nat
    BY RankType
  <2>2. CASE i \in 1..a /\ j \in 1..a
    <3>1. u[i] = s[i] /\ u[j] = s[j]
      BY <1>5, <2>2
    <3>2. \A k, l \in 1..a : k < l => Precedes(s[k].do, s[l].do)
      BY DEF Listed, a
    <3> QED BY <1>9, <2>2, <3>1, <3>2
  <2>3. CASE i \in 1..a /\ ~(j \in 1..a)
    <3>0. u[i] = s[i] /\ j - a \in 1..b /\ u[j] = t[j - a]
      BY <1>4, <1>5, <2>3
    <3>1. u[i] \in Items(s) /\ u[j] \in Items(t)
      BY <1>1, <2>3, <3>0
    <3>2. Rank(u[i].do) <= m /\ n <= Rank(u[j].do)
      BY <1>7, <1>9, <3>1
    <3>3. m < n => Rank(u[i].do) < Rank(u[j].do)
      BY <2>1, <3>2
    <3>4. m = 5 /\ n = 5 => Precedes(u[i].do, u[j].do)
      BY <2>1, <3>2 DEF Precedes
    <3> QED BY <3>3, <3>4 DEF Precedes
  <2>4. CASE ~(i \in 1..a)
    <3>1. /\ i - a \in 1..b /\ j - a \in 1..b /\ i - a < j - a
          /\ u[i] = t[i - a] /\ u[j] = t[j - a]
      <4>1. ~(i \in 1..a) /\ ~(j \in 1..a)
        BY <1>1, <1>9, <2>4
      <4>2. /\ i - a \in 1..b /\ u[i] = t[i - a]
            /\ j - a \in 1..b /\ u[j] = t[j - a]
        BY <1>4, <4>1
      <4>3. i - a < j - a
        BY <1>1, <1>9
      <4> QED BY <4>2, <4>3
    <3>2. \A k, l \in 1..b : k < l => Precedes(t[k].do, t[l].do)
      BY DEF Listed, b
    <3> QED BY <3>1, <3>2
  <2> QED BY <2>2, <2>3, <2>4
<1> QED BY <1>2, <1>6, <1>8, <1>9 DEF Listed, u

LEMMA SavesListed == Listed(Saves, 5, 5) /\ Items(Saves) = Saving
<1>1. ViewOrder \in Seq(Views) /\ Len(ViewOrder) \in Nat /\ DOMAIN ViewOrder = 1..Len(ViewOrder)
  BY EngineAssumption, LenProperties
<1>2. Saves = [i \in 1..Len(ViewOrder) |-> Save(ViewOrder[i])]
  BY <1>1 DEF Saves, Save
<1>3. \A i \in 1..Len(ViewOrder) : Save(ViewOrder[i]) \in Item /\ Save(ViewOrder[i]).do = "save"
  BY <1>1 DEF Save, Item, Saving
<1>4. Saves \in Seq(Item) /\ Len(Saves) = Len(ViewOrder)
      /\ \A i \in 1..Len(ViewOrder) : Saves[i] = Save(ViewOrder[i])
  BY <1>1, <1>2, <1>3
<1>5. Items(Saves) = Saving
  <2>1. DOMAIN Saves = 1..Len(ViewOrder)
    BY <1>2
  <2> QED BY <1>1, <1>2, <2>1 DEF Items, Saving, Views
<1>6. Rank("save") = 5
  BY DEF Rank
<1>7. \A x \in Items(Saves) : x.do = "save"
  BY <1>5 DEF Saving, Save
<1>8. \A i \in 1..Len(Saves) : Saves[i].do = "save"
  BY <1>3, <1>4
<1>9. Precedes("save", "save")
  BY <1>6 DEF Precedes
<1>10. \A i, j \in 1..Len(Saves) : Precedes(Saves[i].do, Saves[j].do)
  BY <1>8, <1>9
<1> QED BY <1>4, <1>5, <1>6, <1>7, <1>10 DEF Listed

LEMMA NoSteps == \A lo, hi : Listed(<<>>, lo, hi) /\ Items(<<>>) = {}
<1>1. <<>> \in Seq(Item) /\ Len(<<>>) = 0 /\ DOMAIN <<>> = 1..0
  OBVIOUS
<1>2. Items(<<>>) = {}
  BY <1>1 DEF Items
<1>3. \A i \in 1..Len(<<>>) : FALSE
  BY <1>1
<1> QED BY <1>1, <1>2, <1>3 DEF Listed

LEMMA Ranks ==
  /\ Rank("mark") = 1 /\ Rank("destroy_key") = 2 /\ Rank("lock") = 3 /\ Rank("rebuild") = 4
  /\ Rank("catch_up") = 4 /\ Rank("reset_watermarks") = 4 /\ Rank("save") = 5
  /\ Rank("persist_watermarks") = 5
  /\ Rank("unlock") = 6 /\ Rank("open_attr") = 7 /\ Rank("scan_attr") = 7
  /\ Rank("replay_attr") = 8 /\ Rank("swap_attr") = 8 /\ Rank("receipt") = 9
  /\ Rank("save_attr") = 10 /\ Rank("unmark") = 11 /\ Rank("exit") = 11
BY DEF Rank

\* A single step, at its rank.
LEMMA OneRank ==
  ASSUME NEW d \in Dos, d # "save"
  PROVE  Listed(Do(d), Rank(d), Rank(d)) /\ Items(Do(d)) = {Step1(d)}
BY OneStep, RankType

LEMMA Persisting ==
  /\ Listed(Do("persist_watermarks"), 5, 5)
  /\ Items(Do("persist_watermarks")) = {Step1("persist_watermarks")}
BY OneRank, Ranks DEF Dos

LEMMA CheckpointSteps ==
  /\ Listed(Checkpoint, 5, 5)
  /\ Items(Checkpoint) = Saving \cup {Step1("persist_watermarks")}
<1>1. Listed(Do("persist_watermarks"), 5, 5)
  BY Persisting
<1> QED BY <1>1, Persisting, SavesListed, JoinedSteps DEF Checkpoint

LEMMA CheckpointViewsSteps ==
  /\ Listed(checkpoint_views, 3, 10)
  /\ Items(checkpoint_views) = Saving \cup {Step1(d) : d \in {"lock", "persist_watermarks",
                                                             "unlock", "save_attr"}}
<1>1. Listed(Do("lock"), 3, 3) /\ Items(Do("lock")) = {Step1("lock")}
  BY OneRank, Ranks DEF Dos
<1>2. Listed(Do("unlock"), 6, 6) /\ Items(Do("unlock")) = {Step1("unlock")}
  BY OneRank, Ranks DEF Dos
<1>3. Listed(Do("save_attr"), 10, 10) /\ Items(Do("save_attr")) = {Step1("save_attr")}
  BY OneRank, Ranks DEF Dos
<1>4. /\ Listed(Do("lock") \o Checkpoint, 3, 5)
      /\ Items(Do("lock") \o Checkpoint) = {Step1("lock")} \cup Items(Checkpoint)
  BY <1>1, CheckpointSteps, JoinedSteps
<1>5. /\ Listed(Do("lock") \o Checkpoint \o Do("unlock"), 3, 6)
      /\ Items(Do("lock") \o Checkpoint \o Do("unlock"))
           = {Step1("lock")} \cup Items(Checkpoint) \cup {Step1("unlock")}
  BY <1>2, <1>4, JoinedSteps
<1>6. /\ Listed(checkpoint_views, 3, 10)
      /\ Items(checkpoint_views) = {Step1("lock")} \cup Items(Checkpoint) \cup {Step1("unlock")}
                                      \cup {Step1("save_attr")}
  BY <1>3, <1>5, JoinedSteps DEF checkpoint_views
<1> QED BY <1>6, CheckpointSteps

LEMMA RebuildSteps ==
  /\ Listed(rebuild, 3, 6)
  /\ Items(rebuild) = {Step1(d) : d \in {"lock", "rebuild", "persist_watermarks", "unlock"}}
<1>1. Listed(Do("lock"), 3, 3) /\ Items(Do("lock")) = {Step1("lock")}
  BY OneRank, Ranks DEF Dos
<1>2. Listed(Do("rebuild"), 4, 4) /\ Items(Do("rebuild")) = {Step1("rebuild")}
  BY OneRank, Ranks DEF Dos
<1>3. /\ Listed(Do("persist_watermarks"), 5, 5)
      /\ Items(Do("persist_watermarks")) = {Step1("persist_watermarks")}
  BY Persisting
<1>4. Listed(Do("unlock"), 6, 6) /\ Items(Do("unlock")) = {Step1("unlock")}
  BY OneRank, Ranks DEF Dos
<1>5. /\ Listed(Do("lock") \o Do("rebuild"), 3, 4)
      /\ Items(Do("lock") \o Do("rebuild")) = {Step1("lock")} \cup {Step1("rebuild")}
  BY <1>1, <1>2, JoinedSteps
<1>6. /\ Listed(Do("lock") \o Do("rebuild") \o Do("persist_watermarks"), 3, 5)
      /\ Items(Do("lock") \o Do("rebuild") \o Do("persist_watermarks"))
           = Items(Do("lock") \o Do("rebuild")) \cup {Step1("persist_watermarks")}
  BY <1>5, <1>3, JoinedSteps
<1>7. /\ Listed(rebuild, 3, 6)
      /\ Items(rebuild)
           = Items(Do("lock") \o Do("rebuild") \o Do("persist_watermarks"))
               \cup {Step1("unlock")}
  BY <1>6, <1>4, JoinedSteps DEF rebuild
<1> QED BY <1>5, <1>6, <1>7

LEMMA ShredViewsSteps ==
  /\ Listed(ShredViews, 3, 6)
  /\ Items(ShredViews) = Saving \cup
       {Step1(d) : d \in {"lock", "rebuild", "persist_watermarks", "unlock"}}
<1>1. Listed(Do("lock"), 3, 3) /\ Items(Do("lock")) = {Step1("lock")}
  BY OneRank, Ranks DEF Dos
<1>2. Listed(Do("rebuild"), 4, 4) /\ Items(Do("rebuild")) = {Step1("rebuild")}
  BY OneRank, Ranks DEF Dos
<1>3. /\ Listed(Do("persist_watermarks"), 5, 5)
      /\ Items(Do("persist_watermarks")) = {Step1("persist_watermarks")}
  BY Persisting
<1>4. Listed(Do("unlock"), 6, 6) /\ Items(Do("unlock")) = {Step1("unlock")}
  BY OneRank, Ranks DEF Dos
<1>5. /\ Listed(Do("lock") \o Do("rebuild"), 3, 4)
      /\ Items(Do("lock") \o Do("rebuild")) = {Step1("lock")} \cup {Step1("rebuild")}
  BY <1>1, <1>2, JoinedSteps
<1>6. /\ Listed(Do("lock") \o Do("rebuild") \o Do("persist_watermarks"), 3, 5)
      /\ Items(Do("lock") \o Do("rebuild") \o Do("persist_watermarks"))
           = Items(Do("lock") \o Do("rebuild")) \cup {Step1("persist_watermarks")}
  BY <1>5, <1>3, JoinedSteps
<1>7. /\ Listed(Do("lock") \o Do("rebuild") \o Do("persist_watermarks") \o Checkpoint, 3, 5)
      /\ Items(Do("lock") \o Do("rebuild") \o Do("persist_watermarks") \o Checkpoint)
           = Items(Do("lock") \o Do("rebuild") \o Do("persist_watermarks"))
               \cup Items(Checkpoint)
  BY <1>6, CheckpointSteps, JoinedSteps
<1>8. /\ Listed(ShredViews, 3, 6)
      /\ Items(ShredViews)
           = Items(Do("lock") \o Do("rebuild") \o Do("persist_watermarks") \o Checkpoint)
               \cup {Step1("unlock")}
  BY <1>7, <1>4, JoinedSteps DEF ShredViews
<1> QED BY <1>5, <1>6, <1>7, <1>8, CheckpointSteps

LEMMA ShredSteps ==
  /\ Listed(shred, 1, 11)
  /\ Items(shred) = Saving \cup
       {Step1(d) : d \in {"mark", "destroy_key", "lock", "rebuild", "persist_watermarks",
                          "unlock", "scan_attr", "swap_attr", "receipt", "unmark"}}
<1> DEFINE upToScan == Do("mark") \o Do("destroy_key") \o ShredViews \o Do("scan_attr")
           upToSwap == upToScan \o Do("swap_attr")
           upToReceipt == upToSwap \o Do("receipt")
<1>1. Listed(Do("mark"), 1, 1) /\ Items(Do("mark")) = {Step1("mark")}
  BY OneRank, Ranks DEF Dos
<1>2. Listed(Do("destroy_key"), 2, 2) /\ Items(Do("destroy_key")) = {Step1("destroy_key")}
  BY OneRank, Ranks DEF Dos
<1>3. Listed(Do("scan_attr"), 7, 7) /\ Items(Do("scan_attr")) = {Step1("scan_attr")}
  BY OneRank, Ranks DEF Dos
<1>4. Listed(Do("swap_attr"), 8, 8) /\ Items(Do("swap_attr")) = {Step1("swap_attr")}
  BY OneRank, Ranks DEF Dos
<1>5. Listed(Do("receipt"), 9, 9) /\ Items(Do("receipt")) = {Step1("receipt")}
  BY OneRank, Ranks DEF Dos
<1>6. Listed(Do("unmark"), 11, 11) /\ Items(Do("unmark")) = {Step1("unmark")}
  BY OneRank, Ranks DEF Dos
<1>7. /\ Listed(Do("mark") \o Do("destroy_key"), 1, 2)
      /\ Items(Do("mark") \o Do("destroy_key")) = {Step1("mark")} \cup {Step1("destroy_key")}
  BY <1>1, <1>2, JoinedSteps
<1>8. /\ Listed(Do("mark") \o Do("destroy_key") \o ShredViews, 1, 6)
      /\ Items(Do("mark") \o Do("destroy_key") \o ShredViews)
           = Items(Do("mark") \o Do("destroy_key")) \cup Items(ShredViews)
  BY <1>7, ShredViewsSteps, JoinedSteps
<1>9. /\ Listed(Do("mark") \o Do("destroy_key") \o ShredViews \o Do("scan_attr"), 1, 7)
      /\ Items(Do("mark") \o Do("destroy_key") \o ShredViews \o Do("scan_attr"))
           = Items(Do("mark") \o Do("destroy_key") \o ShredViews) \cup {Step1("scan_attr")}
  BY <1>8, <1>3, JoinedSteps
<1>10. /\ Listed(upToSwap, 1, 8)
       /\ Items(upToSwap) = Items(upToScan) \cup {Step1("swap_attr")}
  BY <1>9, <1>4, JoinedSteps
<1>11. /\ Listed(upToReceipt, 1, 9)
       /\ Items(upToReceipt) = Items(upToSwap) \cup {Step1("receipt")}
  BY <1>10, <1>5, JoinedSteps
<1>12. /\ Listed(shred, 1, 11)
       /\ Items(shred) = Items(upToReceipt) \cup {Step1("unmark")}
  BY <1>11, <1>6, JoinedSteps DEF shred
<1> QED BY <1>7, <1>8, <1>9, <1>10, <1>11, <1>12, ShredViewsSteps

LEMMA OpenNormalSteps ==
  /\ Listed(OpenNormal, 4, 8)
  /\ Items(OpenNormal) = Saving \cup
       {Step1(d) : d \in {"catch_up", "persist_watermarks", "open_attr", "replay_attr"}}
<1>1. Listed(Do("catch_up"), 4, 4) /\ Items(Do("catch_up")) = {Step1("catch_up")}
  BY OneRank, Ranks DEF Dos
<1>2. /\ Listed(Do("persist_watermarks"), 5, 5)
      /\ Items(Do("persist_watermarks")) = {Step1("persist_watermarks")}
  BY Persisting
<1>3. Listed(Do("open_attr"), 7, 7) /\ Items(Do("open_attr")) = {Step1("open_attr")}
  BY OneRank, Ranks DEF Dos
<1>4. Listed(Do("replay_attr"), 8, 8) /\ Items(Do("replay_attr")) = {Step1("replay_attr")}
  BY OneRank, Ranks DEF Dos
<1>5. /\ Listed(Do("catch_up") \o Do("persist_watermarks"), 4, 5)
      /\ Items(Do("catch_up") \o Do("persist_watermarks"))
           = {Step1("catch_up")} \cup {Step1("persist_watermarks")}
  BY <1>1, <1>2, JoinedSteps
<1>6. /\ Listed(Do("catch_up") \o Do("persist_watermarks") \o Checkpoint, 4, 5)
      /\ Items(Do("catch_up") \o Do("persist_watermarks") \o Checkpoint)
           = Items(Do("catch_up") \o Do("persist_watermarks")) \cup Items(Checkpoint)
  BY <1>5, CheckpointSteps, JoinedSteps
<1>7. /\ Listed(Do("catch_up") \o Do("persist_watermarks") \o Checkpoint \o Do("open_attr"),
                4, 7)
      /\ Items(Do("catch_up") \o Do("persist_watermarks") \o Checkpoint \o Do("open_attr"))
           = Items(Do("catch_up") \o Do("persist_watermarks") \o Checkpoint)
               \cup {Step1("open_attr")}
  BY <1>6, <1>3, JoinedSteps
<1>8. /\ Listed(OpenNormal, 4, 8)
      /\ Items(OpenNormal)
           = Items(Do("catch_up") \o Do("persist_watermarks") \o Checkpoint \o Do("open_attr"))
               \cup {Step1("replay_attr")}
  BY <1>7, <1>4, JoinedSteps DEF OpenNormal
<1> QED BY <1>5, <1>6, <1>7, <1>8, CheckpointSteps

LEMMA OpenSkipSteps ==
  /\ Listed(OpenSkip, 4, 7)
  /\ Items(OpenSkip) = {Step1(d) : d \in {"reset_watermarks", "open_attr"}}
<1>1. /\ Listed(Do("reset_watermarks"), 4, 4)
      /\ Items(Do("reset_watermarks")) = {Step1("reset_watermarks")}
  BY OneRank, Ranks DEF Dos
<1>2. Listed(Do("open_attr"), 7, 7) /\ Items(Do("open_attr")) = {Step1("open_attr")}
  BY OneRank, Ranks DEF Dos
<1>3. /\ Listed(OpenSkip, 4, 7)
      /\ Items(OpenSkip) = {Step1("reset_watermarks")} \cup {Step1("open_attr")}
  BY <1>1, <1>2, JoinedSteps DEF OpenSkip
<1> QED BY <1>3

LEMMA OpenPrivacySteps ==
  ASSUME NEW m
  PROVE  /\ Listed(OpenPrivacy(m), 4, 11)
         /\ Items(OpenPrivacy(m)) \subseteq Saving \cup
              {Step1(d) : d \in {"rebuild", "persist_watermarks", "replay_attr", "save_attr",
                                 "unmark"}}
         /\ Saving \cup {Step1(d) : d \in {"rebuild", "save_attr", "unmark"}}
              \subseteq Items(OpenPrivacy(m))
         /\ m # "skip" => Step1("replay_attr") \in Items(OpenPrivacy(m))
<1> DEFINE r == IF m = "skip" THEN <<>> ELSE Do("replay_attr")
           p == Do("rebuild") \o Do("persist_watermarks")
           q == p \o Checkpoint
<1>1. Listed(Do("rebuild"), 4, 4) /\ Items(Do("rebuild")) = {Step1("rebuild")}
  BY OneRank, Ranks DEF Dos
<1>2. /\ Listed(Do("persist_watermarks"), 5, 5)
      /\ Items(Do("persist_watermarks")) = {Step1("persist_watermarks")}
  BY Persisting
<1>3. /\ Listed(r, 8, 8) /\ Items(r) \subseteq {Step1("replay_attr")}
      /\ m # "skip" => Step1("replay_attr") \in Items(r)
  <2>1. CASE m = "skip"
    BY <2>1, NoSteps
  <2>2. CASE m # "skip"
    <3>1. Listed(Do("replay_attr"), 8, 8) /\ Items(Do("replay_attr")) = {Step1("replay_attr")}
      BY OneRank, Ranks DEF Dos
    <3> QED BY <2>2, <3>1
  <2> QED BY <2>1, <2>2
<1>4. Listed(Do("save_attr"), 10, 10) /\ Items(Do("save_attr")) = {Step1("save_attr")}
  BY OneRank, Ranks DEF Dos
<1>5. Listed(Do("unmark"), 11, 11) /\ Items(Do("unmark")) = {Step1("unmark")}
  BY OneRank, Ranks DEF Dos
<1>6. OpenPrivacy(m) = q \o r \o Do("save_attr") \o Do("unmark")
  BY DEF OpenPrivacy
<1>7. Listed(p, 4, 5) /\ Items(p) = {Step1("rebuild"), Step1("persist_watermarks")}
  <2>1. Listed(p, 4, 5) /\ Items(p) = {Step1("rebuild")} \cup {Step1("persist_watermarks")}
    BY <1>1, <1>2, JoinedSteps
  <2> QED BY <2>1
<1> HIDE DEF p, r
<1>8. Listed(q, 4, 5) /\ Items(q) = Items(p) \cup Items(Checkpoint)
  BY <1>7, CheckpointSteps, JoinedSteps
<1> HIDE DEF q
<1>9. Listed(q \o r, 4, 8) /\ Items(q \o r) = Items(q) \cup Items(r)
  BY <1>3, <1>8, JoinedSteps
<1>10. /\ Listed(q \o r \o Do("save_attr"), 4, 10)
       /\ Items(q \o r \o Do("save_attr")) = Items(q \o r) \cup {Step1("save_attr")}
  BY <1>4, <1>9, JoinedSteps
<1>11. /\ Listed(OpenPrivacy(m), 4, 11)
       /\ Items(OpenPrivacy(m)) = Items(q \o r \o Do("save_attr")) \cup {Step1("unmark")}
  BY <1>5, <1>6, <1>10, JoinedSteps
<1> QED BY <1>3, <1>7, <1>8, <1>9, <1>10, <1>11, CheckpointSteps

LEMMA ShutdownSteps ==
  /\ Listed(checkpoint_views \o Do("exit"), 3, 11)
  /\ Items(checkpoint_views \o Do("exit")) = Saving \cup
       {Step1(d) : d \in {"lock", "persist_watermarks", "unlock", "save_attr", "exit"}}
<1>1. Listed(Do("exit"), 11, 11) /\ Items(Do("exit")) = {Step1("exit")}
  BY OneRank, Ranks DEF Dos
<1>2. /\ Listed(checkpoint_views \o Do("exit"), 3, 11)
      /\ Items(checkpoint_views \o Do("exit")) = Items(checkpoint_views) \cup {Step1("exit")}
  BY CheckpointViewsSteps, <1>1, JoinedSteps
<1> QED BY <1>2, CheckpointViewsSteps

LEMMA DoOf == /\ \A d : Step1(d).do = d
              /\ \A x \in Saving : x.do = "save"
BY DEF Step1, Saving, Save

LEMMA SavesFirstJoin ==
  ASSUME NEW s \in Seq(Item), NEW t \in Seq(Item), SavesFirst(s), SavesFirst(t),
         \/ \A x \in Items(s) : x.do # "persist_watermarks"
         \/ \A x \in Items(t) : x.do # "save"
  PROVE  SavesFirst(s \o t)
<1> DEFINE u == s \o t
           a == Len(s)
           b == Len(t)
<1>1. /\ a \in Nat /\ b \in Nat /\ u \in Seq(Item) /\ Len(u) = a + b
      /\ \A i \in 1..(a + b) : u[i] = IF i <= a THEN s[i] ELSE t[i - a]
  BY LenProperties, ConcatProperties
<1>2. (\A i \in 1..a : s[i] \in Items(s)) /\ (\A i \in 1..b : t[i] \in Items(t))
  BY ItemSeq
<1> HIDE DEF u, a, b
<1> SUFFICES ASSUME NEW i \in 1..(a + b), NEW j \in 1..(a + b), i < j,
                    u[i].do = "persist_watermarks"
             PROVE  u[j].do # "save"
  BY <1>1 DEF SavesFirst, u
<1>3. CASE j <= a
  <2>1. i \in 1..a /\ j \in 1..a /\ u[i] = s[i] /\ u[j] = s[j]
    BY <1>1, <1>3
  <2> QED BY <2>1 DEF SavesFirst, a
<1>4. CASE ~(j <= a) /\ i <= a
  <2>1. i \in 1..a /\ j - a \in 1..b /\ u[i] = s[i] /\ u[j] = t[j - a]
    BY <1>1, <1>4
  <2> QED BY <1>2, <2>1
<1>5. CASE ~(i <= a)
  <2>1. /\ i - a \in 1..b /\ j - a \in 1..b /\ i - a < j - a
        /\ u[i] = t[i - a] /\ u[j] = t[j - a]
    BY <1>1, <1>5
  <2> QED BY <2>1 DEF SavesFirst, b
<1> QED BY <1>3, <1>4, <1>5

\* The checkpoint of a server that is running saves first.
LEMMA CheckpointOrder ==
  SavesFirst(checkpoint_views) /\ SavesFirst(checkpoint_views \o Do("exit"))
<1>1. \A d : /\ SavesFirst(Do(d)) /\ (d \in Dos /\ d # "save" => Do(d) \in Seq(Item))
            /\ \A x \in Items(Do(d)) : x.do = d
  <2> SUFFICES ASSUME NEW d
               PROVE  /\ SavesFirst(Do(d)) /\ (d \in Dos /\ d # "save" => Do(d) \in Seq(Item))
                      /\ \A x \in Items(Do(d)) : x.do = d
    OBVIOUS
  <2>1. Do(d) = <<Step1(d)>> /\ Step1(d).do = d
    BY DEF Do, Step1
  <2>2. Len(Do(d)) = 1 /\ DOMAIN Do(d) = 1..1 /\ Do(d)[1] = Step1(d)
    BY <2>1
  <2>3. SavesFirst(Do(d))
    BY <2>2 DEF SavesFirst
  <2>4. \A x \in Items(Do(d)) : x.do = d
    BY <2>1, <2>2 DEF Items
  <2>5. d \in Dos /\ d # "save" => Do(d) \in Seq(Item)
    BY <2>1 DEF Item
  <2> QED BY <2>3, <2>4, <2>5
<1>2. /\ {"lock", "persist_watermarks", "unlock", "save_attr", "exit"} \subseteq Dos \ {"save"}
      /\ Saves \in Seq(Item) /\ SavesFirst(Saves)
      /\ \A x \in Items(Saves) : x.do = "save"
  <2>1. Saves \in Seq(Item) /\ \A x \in Items(Saves) : x.do = "save"
    BY SavesListed, DoOf DEF Listed
  <2>2. \A i \in 1..Len(Saves) : Saves[i].do = "save"
    BY <2>1, ItemSeq
  <2> QED BY <2>1, <2>2 DEF SavesFirst, Dos
<1>3. Checkpoint \in Seq(Item) /\ SavesFirst(Checkpoint)
  <2>1. SavesFirst(Saves \o Do("persist_watermarks"))
    BY <1>1, <1>2, SavesFirstJoin
  <2> QED BY <2>1, CheckpointSteps DEF Checkpoint, Listed
<1> DEFINE p == Do("lock") \o Checkpoint
           q == p \o Do("unlock")
<1>4. p \in Seq(Item) /\ SavesFirst(p)
  <2>1. p \in Seq(Item)
    BY <1>1, <1>2, <1>3
  <2>2. \A x \in Items(Do("lock")) : x.do # "persist_watermarks"
    BY <1>1
  <2> QED BY <1>1, <1>2, <1>3, <2>1, <2>2, SavesFirstJoin
<1> HIDE DEF p
<1>5. q \in Seq(Item) /\ SavesFirst(q)
  <2>1. q \in Seq(Item)
    BY <1>1, <1>2, <1>4
  <2>2. \A x \in Items(Do("unlock")) : x.do # "save"
    BY <1>1
  <2> QED BY <1>1, <1>2, <1>4, <2>1, <2>2, SavesFirstJoin
<1>6. checkpoint_views = q \o Do("save_attr")
  BY DEF checkpoint_views, p
<1> HIDE DEF q
<1>7. checkpoint_views \in Seq(Item) /\ SavesFirst(checkpoint_views)
  <2>1. \A x \in Items(Do("save_attr")) : x.do # "save"
    BY <1>1
  <2>2. Do("save_attr") \in Seq(Item)
    BY <1>1, <1>2
  <2>3. q \o Do("save_attr") \in Seq(Item)
    BY <1>5, <2>2
  <2> QED BY <1>1, <1>5, <1>6, <2>1, <2>2, <2>3, SavesFirstJoin
<1>8. SavesFirst(checkpoint_views \o Do("exit"))
  <2>1. \A x \in Items(Do("exit")) : x.do # "save"
    BY <1>1
  <2>2. Do("exit") \in Seq(Item)
    BY <1>1, <1>2
  <2> QED BY <1>1, <1>7, <2>1, <2>2, SavesFirstJoin
<1> QED BY <1>7, <1>8

\* A whole operation is what is left of it before its first step.
LEMMA WholeTodo ==
  ASSUME NEW o, NEW s, NEW lo \in Nat, NEW hi \in Nat, 1 <= lo, hi <= 11, Listed(s, lo, hi),
         \A x \in Items(s) : x.do \in StepsOf(o), Sure(o) \subseteq Items(s), Items(s) # {},
         o \in {"checkpoint", "shutdown"} => SavesFirst(s)
  PROVE  Remaining(o, s) /\ s # <<>>
<1>1. ASSUME NEW x \in Items(s)
      PROVE  1 <= Rank(x.do) /\ Rank(x.do) <= 11
  <2>1. Rank(x.do) \in Nat
    BY RankType
  <2> QED BY <1>1, <2>1 DEF Listed
<1>2. Listed(s, 1, 11)
  BY <1>1 DEF Listed
<1>3. s # <<>>
  BY NoSteps
<1> QED BY <1>2, <1>3 DEF Remaining

LEMMA ProgramTodo ==
  ASSUME NEW o \in Maintenance
  PROVE  Remaining(o, Program(o)) /\ Program(o) # <<>> /\ Sure(o) \subseteq Items(Program(o))
<1>1. CASE o = "checkpoint"
  <2>1. Program(o) = checkpoint_views
    BY <1>1 DEF Program
  <2>2. Sure(o) \subseteq Items(checkpoint_views)
    BY <1>1, CheckpointViewsSteps DEF Sure
  <2>3. \A x \in Items(checkpoint_views) : x.do \in StepsOf(o)
    BY <1>1, CheckpointViewsSteps, DoOf DEF StepsOf
  <2>4. Items(checkpoint_views) # {}
    BY CheckpointViewsSteps
  <2>5. SavesFirst(checkpoint_views)
    BY CheckpointOrder
  <2>6. Listed(checkpoint_views, 3, 10)
    BY CheckpointViewsSteps
  <2> HIDE DEF checkpoint_views
  <2> QED BY <2>1, <2>2, <2>3, <2>4, <2>5, <2>6, WholeTodo
<1>2. CASE o = "shutdown"
  <2>1. Program(o) = checkpoint_views \o Do("exit")
    BY <1>2 DEF Program
  <2>2. /\ Listed(Program(o), 3, 11)
        /\ Items(Program(o)) = Saving \cup
             {Step1(d) : d \in {"lock", "persist_watermarks", "unlock", "save_attr", "exit"}}
    BY <2>1, ShutdownSteps, Zenon
  <2>3. Sure(o) \subseteq Items(Program(o))
    BY <1>2, <2>2 DEF Sure
  <2>4. \A x \in Items(Program(o)) : x.do \in StepsOf(o)
    BY <1>2, <2>2, DoOf DEF StepsOf
  <2>5. SavesFirst(Program(o))
    BY <2>1, CheckpointOrder, Zenon
  <2>6. Items(Program(o)) # {}
    BY <2>2
  <2> QED BY <2>2, <2>3, <2>4, <2>5, <2>6, WholeTodo
<1>3. CASE o = "rebuild"
  <2>1. Program(o) = rebuild
    BY <1>3 DEF Program
  <2>2. Sure(o) \subseteq Items(rebuild)
    BY <1>3, RebuildSteps DEF Sure
  <2>3. \A x \in Items(rebuild) : x.do \in StepsOf(o)
    BY <1>3, RebuildSteps, DoOf DEF StepsOf
  <2>4. Items(rebuild) # {}
    BY RebuildSteps
  <2>5. o \notin {"checkpoint", "shutdown"} /\ Listed(rebuild, 3, 6)
    BY <1>3, RebuildSteps
  <2> HIDE DEF rebuild
  <2> QED BY <2>1, <2>2, <2>3, <2>4, <2>5, WholeTodo
<1>4. CASE o = "shred"
  <2>1. Program(o) = shred
    BY <1>4 DEF Program
  <2>2. Sure(o) \subseteq Items(shred)
    BY <1>4, ShredSteps DEF Sure
  <2>3. \A x \in Items(shred) : x.do \in StepsOf(o)
    BY <1>4, ShredSteps, DoOf DEF StepsOf
  <2>4. Items(shred) # {}
    BY ShredSteps
  <2>5. o \notin {"checkpoint", "shutdown"} /\ Listed(shred, 1, 11)
    BY <1>4, ShredSteps
  <2> QED BY <2>1, <2>2, <2>3, <2>4, <2>5, WholeTodo
<1> QED BY <1>1, <1>2, <1>3, <1>4 DEF Maintenance

LEMMA OpenTodo ==
  ASSUME NEW m
  PROVE  /\ Remaining("open", OpenNormal) /\ OpenNormal # <<>>
         /\ Remaining("open", OpenSkip) /\ OpenSkip # <<>>
         /\ Remaining("privacy_open", OpenPrivacy(m)) /\ OpenPrivacy(m) # <<>>
         /\ Sure("privacy_open") \subseteq Items(OpenPrivacy(m))
<1>1. Sure("open") = {}
  BY DEF Sure
<1>2. Remaining("open", OpenNormal) /\ OpenNormal # <<>>
  <2>1. \A x \in Items(OpenNormal) : x.do \in StepsOf("open")
    BY OpenNormalSteps, DoOf DEF StepsOf
  <2>2. Items(OpenNormal) # {}
    BY OpenNormalSteps
  <2> QED BY <1>1, <2>1, <2>2, OpenNormalSteps, WholeTodo
<1>3. Remaining("open", OpenSkip) /\ OpenSkip # <<>>
  <2>1. \A x \in Items(OpenSkip) : x.do \in StepsOf("open")
    BY OpenSkipSteps, DoOf DEF StepsOf
  <2>2. Items(OpenSkip) # {}
    BY OpenSkipSteps
  <2> QED BY <1>1, <2>1, <2>2, OpenSkipSteps, WholeTodo
<1>4. /\ Remaining("privacy_open", OpenPrivacy(m)) /\ OpenPrivacy(m) # <<>>
      /\ Sure("privacy_open") \subseteq Items(OpenPrivacy(m))
  <2>1. \A x \in Items(OpenPrivacy(m)) : x.do \in StepsOf("privacy_open")
    BY OpenPrivacySteps, DoOf DEF StepsOf
  <2>2. Sure("privacy_open") \subseteq Items(OpenPrivacy(m))
    BY OpenPrivacySteps DEF Sure
  <2>3. Items(OpenPrivacy(m)) # {}
    BY OpenPrivacySteps
  <2> QED BY <2>1, <2>2, <2>3, OpenPrivacySteps, WholeTodo
<1> QED BY <1>2, <1>3, <1>4

Left == Items(todo)

\* A step takes the first item; what is left stays in order and whole.
LEMMA StepTodo ==
  ASSUME TodoInv, NEW d, Step(d)
  PROVE  /\ d \in StepsOf(op) /\ op # "none"
         /\ Head(todo) \in Item /\ Head(todo).do = d /\ Left = {Head(todo)} \cup Left'
         /\ \A x \in Left' : Precedes(d, x.do) /\ Rank(d) <= Rank(x.do)
         /\ \A y \in Sure(op) : Rank(d) < Rank(y.do) => y \in Left'
         /\ op \in {"checkpoint", "shutdown"} /\ d = "persist_watermarks" =>
              \A x \in Left' : x.do # "save"
         /\ TodoInv' /\ (todo' = <<>> <=> op' = "none")
<1> DEFINE h == Head(todo)
           r == Tail(todo)
           n == Len(todo)
<1>1. todo \in Seq(Item) /\ todo # <<>> /\ h.do = d /\ todo' = r
  BY DEF Step, TodoInv, Remaining, Listed
<1>2. /\ n \in Nat /\ n >= 1 /\ h \in Item /\ h = todo[1] /\ r \in Seq(Item) /\ Len(r) = n - 1
      /\ \A i \in 1..(n - 1) : r[i] = todo[i + 1]
  <2>1. n \in Nat /\ n # 0
    BY <1>1, EmptySeq, LenProperties
  <2>2. h = todo[1]
    BY <1>1
  <2>3. h \in Item /\ r \in Seq(Item) /\ Len(r) = n - 1 /\ \A i \in 1..Len(r) : r[i] = todo[i + 1]
    BY <1>1, HeadTailProperties
  <2> QED BY <2>1, <2>2, <2>3
<1>3. /\ \A x : x \in Items(todo) <=> \E i \in 1..n : x = todo[i]
      /\ \A x : x \in Items(r) <=> \E i \in 1..(n - 1) : x = r[i]
  <2> HIDE DEF r
  <2>1. \A x : x \in Items(r) <=> \E i \in 1..Len(r) : x = r[i]
    BY <1>2, ItemSeq
  <2>2. \A x : x \in Items(todo) <=> \E i \in 1..n : x = todo[i]
    BY <1>1, ItemSeq
  <2> QED BY <1>2, <2>1, <2>2
<1> HIDE DEF h, r, n
<1>4. \A i \in 1..(n - 1) : i + 1 \in 1..n /\ 1 < i + 1
  BY <1>2
<1>5. Items(todo) = {h} \cup Items(r)
  <2>1. ASSUME NEW x \in Items(todo) PROVE x \in {h} \cup Items(r)
    <3>1. PICK i \in 1..n : x = todo[i]
      BY <1>3
    <3>2. CASE i = 1
      BY <1>2, <3>1, <3>2
    <3>3. CASE i # 1
      <4>1. i - 1 \in 1..(n - 1) /\ (i - 1) + 1 = i
        BY <1>2, <3>3
      <4>2. r[i - 1] = x
        BY <1>2, <3>1, <4>1
      <4> QED BY <1>3, <4>1, <4>2
    <3> QED BY <3>2, <3>3
  <2>2. h \in Items(todo)
    <3>1. 1 \in 1..n
      BY <1>2
    <3> QED BY <1>2, <1>3, <3>1
  <2>3. ASSUME NEW x \in Items(r) PROVE x \in Items(todo)
    <3>1. PICK i \in 1..(n - 1) : x = r[i]
      BY <1>3
    <3> QED BY <1>2, <1>3, <1>4, <3>1
  <2> QED BY <2>1, <2>2, <2>3
<1>6. ASSUME NEW x \in Items(r)
      PROVE  Precedes(d, x.do) /\ Rank(d) <= Rank(x.do)
  <2>1. PICK i \in 1..(n - 1) : x = todo[i + 1]
    BY <1>2, <1>3
  <2>2. 1 \in 1..n /\ i + 1 \in 1..n /\ 1 < i + 1
    BY <1>2, <1>4
  <2>3. todo[1].do = d
    BY <1>1, <1>2
  <2>4. Precedes(d, x.do)
    BY <2>1, <2>2, <2>3 DEF TodoInv, Remaining, Listed, n
  <2> QED BY <2>4, RankType DEF Precedes
<1>7. ASSUME op \in {"checkpoint", "shutdown"}, d = "persist_watermarks", NEW x \in Items(r)
      PROVE  x.do # "save"
  <2>1. PICK i \in 1..(n - 1) : x = todo[i + 1]
    BY <1>2, <1>3
  <2>2. 1 \in 1..n /\ i + 1 \in 1..n /\ 1 < i + 1
    BY <1>2, <1>4
  <2>3. todo[1].do = d
    BY <1>1, <1>2
  <2> QED BY <1>7, <2>1, <2>2, <2>3 DEF TodoInv, Remaining, SavesFirst, n
<1>8. ASSUME NEW y \in Sure(op), Rank(d) < Rank(y.do)
      PROVE  y \in Items(r)
  <2>1. h \in Items(todo) /\ Rank(h.do) < Rank(y.do)
    BY <1>1, <1>5, <1>8
  <2>2. y \in Items(todo)
    BY <2>1 DEF TodoInv, Remaining
  <2>3. y # h
    BY <2>1, RankType
  <2> QED BY <1>5, <2>2, <2>3
<1>9. Remaining(op, r)
  <2>1. Listed(r, 1, 11)
    <3>1. \A x \in Items(r) : 1 <= Rank(x.do) /\ Rank(x.do) <= 11
      BY <1>5 DEF TodoInv, Remaining, Listed
    <3>2. ASSUME NEW i \in 1..(n - 1), NEW j \in 1..(n - 1), i < j
          PROVE  Precedes(r[i].do, r[j].do)
      <4>1. /\ i + 1 \in 1..n /\ j + 1 \in 1..n /\ i + 1 < j + 1
            /\ r[i] = todo[i + 1] /\ r[j] = todo[j + 1]
        BY <1>2, <1>4, <3>2
      <4> QED BY <3>2, <4>1 DEF TodoInv, Remaining, Listed, n
    <3> QED BY <1>2, <3>1, <3>2 DEF Listed
  <2>2. \A x \in Items(r) : x.do \in StepsOf(op)
    BY <1>5 DEF TodoInv, Remaining
  <2>3. ASSUME NEW x \in Items(r), NEW y \in Sure(op), Rank(x.do) < Rank(y.do)
        PROVE  y \in Items(r)
    <3>1. y \in Items(todo)
      BY <1>5, <2>3 DEF TodoInv, Remaining
    <3>2. CASE y = h
      <4>1. d = y.do
        BY <1>1, <3>2
      <4>2. Rank(d) <= Rank(x.do)
        BY <1>6, <2>3, <4>1
      <4> QED BY <2>3, <4>1, <4>2, RankType
    <3> QED BY <1>5, <3>1, <3>2
  <2>4. op \in {"checkpoint", "shutdown"} => SavesFirst(r)
    <3> SUFFICES ASSUME SavesFirst(todo), NEW i \in 1..(n - 1), NEW j \in 1..(n - 1), i < j,
                        r[i].do = "persist_watermarks"
                 PROVE  r[j].do # "save"
      BY <1>2 DEF TodoInv, Remaining, SavesFirst
    <3>1. /\ i + 1 \in 1..n /\ j + 1 \in 1..n /\ i + 1 < j + 1
          /\ r[i] = todo[i + 1] /\ r[j] = todo[j + 1]
      BY <1>2, <1>4
    <3> QED BY <3>1 DEF SavesFirst, n
  <2> QED BY <2>1, <2>2, <2>3, <2>4 DEF Remaining
<1>10. d \in StepsOf(op) /\ op # "none"
  <2>1. d \in StepsOf(op)
    BY <1>1, <1>5 DEF TodoInv, Remaining
  <2> QED BY <2>1 DEF StepsOf
<1>11. op' = (IF r = <<>> THEN "none" ELSE op)
  BY DEF Step, r
<1>12. TodoInv'
  <2>1. CASE r = <<>>
    <3>1. Remaining("none", <<>>)
      BY NoSteps DEF Remaining
    <3> QED BY <1>1, <1>11, <2>1, <3>1 DEF TodoInv
  <2>2. CASE r # <<>>
    BY <1>1, <1>9, <1>11, <2>2 DEF TodoInv
  <2> QED BY <2>1, <2>2
<1> QED BY <1>1, <1>2, <1>5, <1>6, <1>7, <1>8, <1>10, <1>11, <1>12 DEF Left, h

-----------------------------------------------------------------------------
(* Types.                                                                   *)

Lsns == Nat \cup {NoLsn}
Entry == [id : Ids, key : Keys \cup {NoKey}, hvm : BOOLEAN]
Counts == [Ids -> Nat]
Call == [at : {"idle", "views", "attr"}, lsn : Lsns, clear : BOOLEAN,
         ev : [id : Nat, key : Keys \cup {NoKey}, hvm : BOOLEAN]]
CkptOf == [present : BOOLEAN, times : Counts, clear : BOOLEAN]
EngineTypeOK ==
  /\ scenario \in Scenarios /\ log \in Seq(Entry) /\ synced \in 0..Len(log) /\ nextId \in Nat
  /\ times \in [Views -> Counts] /\ watermarks \in [Views -> Lsns]
  /\ wm_file \in [Views -> Lsns] /\ clear \subseteq Views /\ ckpt \in [Views -> CkptOf]
  /\ attr.clear \in BOOLEAN /\ attr_file.clear \in BOOLEAN /\ rebuilt.clear \in BOOLEAN
  /\ marker \in BOOLEAN /\ shredded \in BOOLEAN /\ mode \in {"down", "normal", "skip"}
  /\ call \in [Appenders -> Call]
  /\ \A c \in Appenders : call[c].at # "idle" => call[c].ev.id \in Ids

\* The episode is in the log.
HasId(id) == \E i \in 1..Len(log) : log[i].id = id

LEMMA LogType ==
  ASSUME EngineTypeOK
  PROVE  Len(log) \in Nat /\ DOMAIN log = 1..Len(log) /\ \A i \in 1..Len(log) : log[i] \in Entry
<1>1. log \in Seq(Entry)
  BY DEF EngineTypeOK
<1> QED BY <1>1, LenProperties, ElementOfSeq

\* Applying an episode enters that one and no other.
LEMMA AppliedType ==
  ASSUME NEW v, NEW t \in Counts, NEW id \in Ids
  PROVE  /\ Applied(v, t, id) \in Counts
         /\ \A i \in Ids : Applied(v, t, id)[i] > 0 => t[i] > 0 \/ i = id
<1>1. t[id] \in Nat
  BY DEF Counts
<1>2. (IF v \in Counting THEN t[id] + 1 ELSE 1) \in Nat
  BY <1>1
<1>3. Applied(v, t, id) = [t EXCEPT ![id] = IF v \in Counting THEN t[id] + 1 ELSE 1]
  BY DEF Applied
<1> QED BY <1>2, <1>3 DEF Counts

\* What a replay delivers is in the log.
LEMMA UncoveredType ==
  ASSUME EngineTypeOK, NEW wm \in Lsns
  PROVE  /\ Uncovered(wm) \subseteq Nat /\ IsFiniteSet(Uncovered(wm))
         /\ \A lsn \in Uncovered(wm) : lsn + 1 \in 1..Len(log) /\ log[lsn + 1] \in Entry
<1>1. Len(log) \in Nat /\ \A i \in 1..Len(log) : log[i] \in Entry
  BY LogType
<1>2. wm + 1 \in Nat
  BY DEF Lsns, NoLsn
<1>3. \A lsn \in Uncovered(wm) : lsn \in Nat /\ lsn + 1 \in 1..Len(log)
  BY <1>1, <1>2 DEF Uncovered, Indexable
<1>4. IsFiniteSet((wm + 1)..(Len(log) - 1))
  BY <1>1, <1>2, FS_Interval
<1>5. Uncovered(wm) \subseteq (wm + 1)..(Len(log) - 1)
  BY DEF Uncovered, Indexable
<1> QED BY <1>1, <1>3, <1>4, <1>5, FS_Subset

LEMMA ReplayedType ==
  ASSUME EngineTypeOK, NEW v, NEW t \in Counts, NEW wm \in Lsns
  PROVE  /\ ReplayedTimes(v, t, wm) \in Counts /\ ReplayedWm(wm) \in Lsns
         /\ \A id \in Ids : ReplayedTimes(v, t, wm)[id] > 0 => t[id] > 0 \/ HasId(id)
<1> DEFINE U == Uncovered(wm)
           ids == {log[lsn + 1].id : lsn \in U}
<1>1. U \subseteq Nat /\ IsFiniteSet(U) /\ \A lsn \in U : lsn + 1 \in 1..Len(log)
  BY UncoveredType
<1>2. \A id \in ids : HasId(id)
  BY <1>1 DEF HasId
<1>3. ReplayedTimes(v, t, wm) = [id \in Ids |-> IF id \in ids THEN Applied(v, t, id)[id] ELSE t[id]]
  BY DEF ReplayedTimes
<1>4. ReplayedWm(wm) = CHOOSE w \in {wm} \cup U : \A lsn \in U : lsn <= w
  BY DEF ReplayedWm
<1> HIDE DEF U, ids
<1>5. \A id \in Ids : Applied(v, t, id)[id] \in Nat /\ t[id] \in Nat
  BY AppliedType DEF Counts
<1>6. ReplayedTimes(v, t, wm) \in Counts
  BY <1>3, <1>5 DEF Counts
<1>7. \A id \in Ids : ReplayedTimes(v, t, wm)[id] > 0 => t[id] > 0 \/ HasId(id)
  BY <1>2, <1>3
<1>8. \E w \in {wm} \cup U : \A lsn \in U : lsn <= w
  <2>1. CASE U = {}
    BY <2>1
  <2>2. CASE U # {}
    BY <1>1, <2>2, FiniteMax
  <2> QED BY <2>1, <2>2
<1>9. ReplayedWm(wm) \in {wm} \cup U
  BY <1>4, <1>8
<1> QED BY <1>1, <1>6, <1>7, <1>9 DEF Lsns

\* A replay into the attribute index reads in clear only while the key is there.
LEMMA AttrReplayedClear ==
  ASSUME NEW a, a.clear \in BOOLEAN
  PROVE  /\ AttrReplayed(a).clear \in BOOLEAN
         /\ AttrReplayed(a).clear => a.clear \/ ~shredded
BY DEF AttrReplayed

LEMMA ScenarioType ==
  ASSUME EngineTypeOK
  PROVE  /\ scenario.ids \in 0..MaxIds /\ MaxIds \in Nat
         /\ scenario.policy \in {"always", "group"}
BY EngineAssumption DEF EngineTypeOK, Scenario

\* The log with one more episode.
LEMMA LogGrows ==
  ASSUME EngineTypeOK, NEW ev \in Entry, log' = Append(log, ev)
  PROVE  /\ log' \in Seq(Entry) /\ Len(log') = Len(log) + 1 /\ HasId(ev.id)'
         /\ \A id : HasId(id) => HasId(id)'
<1>1. log \in Seq(Entry) /\ Len(log) \in Nat
  BY LogType DEF EngineTypeOK
<1>2. /\ log' \in Seq(Entry) /\ Len(log') = Len(log) + 1
      /\ \A i \in 1..Len(log) : log'[i] = log[i] /\ log'[Len(log) + 1] = ev
  BY <1>1, AppendProperties
<1>3. Len(log) + 1 \in 1..Len(log') /\ \A i \in 1..Len(log) : i \in 1..Len(log')
  BY <1>1, <1>2
<1>4. log'[Len(log) + 1] = ev
  BY <1>1, AppendProperties
<1> QED BY <1>2, <1>3, <1>4 DEF HasId

LEMMA LoggedType ==
  ASSUME EngineTypeOK, NEW c \in Appenders, NEW key \in Keys \cup {NoKey}, NEW hvm \in BOOLEAN,
         Logged(c, key, hvm)
  PROVE  /\ EngineTypeOK' /\ \A id : HasId(id) => HasId(id)'
         /\ \A d \in Appenders : call'[d] # call[d] =>
              \/ call'[d] = Idle
              \/ (HasId(call[d].ev.id)' /\ call'[d].clear = ~shredded)
         /\ synced' \in SyncedAfter /\ Len(log') = Len(log) + 1
<1>1. PICK ev : ev = [id |-> nextId + 1, key |-> key, hvm |-> hvm]
  OBVIOUS
<1>2. PICK new : new = [at |-> "views", lsn |-> Len(log), clear |-> ~shredded, ev |-> ev]
  OBVIOUS
<1>3. /\ nextId < scenario.ids /\ nextId' = nextId + 1 /\ log' = Append(log, ev)
      /\ synced' \in SyncedAfter /\ call' = [call EXCEPT ![c] = IF hvm THEN Idle ELSE new]
      /\ UNCHANGED <<ram, disk, task>>
  BY <1>1, <1>2 DEF Logged
<1>4. nextId + 1 \in Ids /\ nextId \in Nat
  BY <1>3, ScenarioType DEF EngineTypeOK, Ids
<1>5. ev \in Entry /\ ev.id = nextId + 1
  BY <1>1, <1>4 DEF Entry
<1>6. Len(log) \in Nat
  BY LogType
<1>7. Idle \in Call /\ Idle.at = "idle"
  BY DEF Idle, Call, Lsns, NoLsn, NoKey
<1>8. new \in Call /\ new.ev.id = ev.id /\ new.clear = ~shredded /\ ev.id \in Ids
  BY <1>1, <1>2, <1>4, <1>5, <1>6 DEF EngineTypeOK, Call, Lsns, Ids, Entry
<1>9. log' \in Seq(Entry) /\ Len(log') = Len(log) + 1 /\ HasId(ev.id)'
      /\ \A id : HasId(id) => HasId(id)'
  BY <1>3, <1>5, LogGrows
<1>10. synced' \in 0..Len(log')
  BY <1>3, <1>6, <1>9 DEF SyncedAfter, EngineTypeOK
<1>11. /\ call \in [Appenders -> Call]
       /\ \A d \in Appenders : call[d].at # "idle" => call[d].ev.id \in Ids
  BY DEF EngineTypeOK
<1>12. /\ call' \in [Appenders -> Call]
       /\ \A d \in Appenders : d # c => call'[d] = call[d]
       /\ call'[c] = Idle \/ call'[c] = new
  BY <1>3, <1>7, <1>8, <1>11
<1>13. \A d \in Appenders : call'[d].at # "idle" => call'[d].ev.id \in Ids
  BY <1>7, <1>8, <1>11, <1>12
<1>14. EngineTypeOK'
  BY <1>3, <1>4, <1>9, <1>10, <1>12, <1>13 DEF EngineTypeOK, ram, disk, task
<1>15. ASSUME NEW d \in Appenders, call'[d] # Idle, call'[d] # call[d]
       PROVE  HasId(call[d].ev.id)' /\ call'[d].clear = ~shredded
  <2>1. call'[d] = new
    BY <1>7, <1>12, <1>15
  <2>2. call'[d].ev.id = ev.id
    BY <1>8, <2>1
  <2> QED BY <1>8, <1>9, <2>1, <2>2
<1> QED BY <1>3, <1>9, <1>14, <1>15

\* The appends are Logged.
LEMMA AppendsLogged ==
  ASSUME NEW c \in Appenders,
         (\E hvm \in BOOLEAN : append(c, hvm)) \/ (\E key \in Keys : append_idempotent(c, key))
  PROVE  /\ \E key \in Keys \cup {NoKey}, hvm \in BOOLEAN : Logged(c, key, hvm)
         /\ MayStart(c)
BY DEF append, append_idempotent

LEMMA IndexViewsType ==
  ASSUME EngineTypeOK, NEW c \in Appenders, index_views(c)
  PROVE  EngineTypeOK'
<1>1. call[c].ev.id \in Ids /\ call[c] \in Call /\ call[c].at = "views"
  BY DEF EngineTypeOK, index_views
<1>2. \A v \in Views : times[v] \in Counts /\ watermarks[v] \in Lsns
  BY DEF EngineTypeOK
<1>3. times' \in [Views -> Counts]
  <2>1. \A v \in Views : Applied(v, times[v], call[c].ev.id) \in Counts
    BY <1>1, <1>2, AppliedType
  <2> QED BY <2>1 DEF index_views
<1>4. watermarks' \in [Views -> Lsns]
  BY <1>1, <1>2 DEF index_views, AdvancedWm, Call
<1>5. clear' \subseteq Views
  BY DEF index_views, EngineTypeOK
<1>6. call' = [call EXCEPT ![c].at = "attr"] /\ call \in [Appenders -> Call]
  BY DEF index_views, EngineTypeOK
<1>7. /\ call' \in [Appenders -> Call]
      /\ \A d \in Appenders : call'[d].at # "idle" => call'[d].ev.id \in Ids
  <2>1. PICK new : new = [call[c] EXCEPT !.at = "attr"]
    OBVIOUS
  <2>2. new \in Call /\ new.ev = call[c].ev
    BY <1>1, <2>1 DEF Call
  <2>3. call' = [call EXCEPT ![c] = new]
    BY <1>6, <2>1
  <2> QED BY <1>1, <1>6, <2>2, <2>3 DEF EngineTypeOK
<1> QED BY <1>3, <1>4, <1>5, <1>7 DEF EngineTypeOK, index_views, disk, task

LEMMA IndexAttrType ==
  ASSUME EngineTypeOK, NEW c \in Appenders, index_attr(c)
  PROVE  /\ EngineTypeOK' /\ call' = [call EXCEPT ![c] = Idle]
         /\ attr'.clear <=> attr.clear \/ call[c].clear
<1>1. call[c] \in Call /\ attr.clear \in BOOLEAN
  BY DEF EngineTypeOK
<1>2. (attr'.clear <=> attr.clear \/ call[c].clear) /\ attr'.clear \in BOOLEAN
  BY <1>1 DEF index_attr, AttrApplied, Call
<1>3. Idle \in Call /\ Idle.at = "idle"
  BY DEF Idle, Call, Lsns, NoLsn, NoKey
<1>4. call' = [call EXCEPT ![c] = Idle] /\ call \in [Appenders -> Call]
  BY DEF index_attr, EngineTypeOK
<1> QED BY <1>2, <1>3, <1>4 DEF EngineTypeOK, index_attr, disk, task

LEMMA StoppedType ==
  ASSUME EngineTypeOK, Stopped, log' \in Seq(Entry), synced' \in 0..Len(log')
  PROVE  EngineTypeOK'
<1>1. NoTimes \in [Views -> Counts] /\ NoWatermarks \in [Views -> Lsns]
  BY DEF NoTimes, NoWatermarks, Counts, Lsns
<1>2. Idle \in Call /\ Idle.at = "idle" /\ EmptyAttr.clear = FALSE
  BY DEF Idle, Call, Lsns, NoLsn, NoKey, EmptyAttr
<1> QED BY <1>1, <1>2 DEF Stopped, EngineTypeOK, disk

LEMMA RebuildType ==
  ASSUME EngineTypeOK, rebuild_views
  PROVE  EngineTypeOK'
<1>1. \A v \in Views : NoTimes[v] \in Counts
  BY DEF NoTimes, Counts
<1>2. NoLsn \in Lsns
  BY DEF Lsns
<1>3. times' \in [Views -> Counts] /\ watermarks' \in [Views -> Lsns]
  BY <1>1, <1>2, ReplayedType DEF rebuild_views
<1>4. clear' \subseteq Views
  BY DEF rebuild_views, Exposed, EngineTypeOK
<1> QED BY <1>3, <1>4 DEF EngineTypeOK, rebuild_views, disk

LEMMA RestoredType ==
  ASSUME EngineTypeOK, NEW v \in Views
  PROVE  Restored(v) \in Lsns /\ ckpt[v].times \in Counts /\ ckpt[v].clear \in BOOLEAN
BY DEF EngineTypeOK, Restored, CkptOf, Lsns

LEMMA CatchUpType ==
  ASSUME EngineTypeOK, catch_up
  PROVE  EngineTypeOK'
<1>1. times' \in [Views -> Counts] /\ watermarks' \in [Views -> Lsns]
  BY RestoredType, ReplayedType DEF catch_up
<1>2. clear' \subseteq Views
  BY DEF catch_up, Exposed
<1> QED BY <1>1, <1>2 DEF EngineTypeOK, catch_up, disk

LEMMA SaveViewType ==
  ASSUME EngineTypeOK, save_view
  PROVE  EngineTypeOK'
<1>1. PICK v : v = Head(todo).view
  OBVIOUS
<1>2. PICK k : k = [present |-> TRUE, times |-> times[v], clear |-> v \in clear]
  OBVIOUS
<1>3. ckpt' = [ckpt EXCEPT ![v] = k] /\ ckpt \in [Views -> CkptOf]
  BY <1>1, <1>2 DEF save_view, EngineTypeOK
<1>4. v \in Views => k \in CkptOf
  BY <1>2 DEF EngineTypeOK, CkptOf
<1>5. ckpt' \in [Views -> CkptOf]
  BY <1>3, <1>4
<1> QED BY <1>5 DEF EngineTypeOK, save_view, ram

\* The receipt is an ordinary episode.
LEMMA ReceiptLog ==
  ASSUME EngineTypeOK, receipt
  PROVE  \/ UNCHANGED <<log, nextId, synced, times, watermarks, attr>>
         \/ /\ nextId + 1 \in Ids /\ nextId' = nextId + 1
            /\ log' \in Seq(Entry) /\ Len(log') = Len(log) + 1 /\ synced' \in SyncedAfter
            /\ \E id \in Ids :
                 /\ HasId(id)'
                 /\ times' = [v \in Views |-> Applied(v, times[v], id)]
            /\ \A id : HasId(id) => HasId(id)'
            /\ watermarks' = [v \in Views |-> AdvancedWm(watermarks[v], Len(log))]
            /\ attr'.clear = attr.clear
<1>1. SUFFICES ASSUME nextId < scenario.ids PROVE
        /\ nextId + 1 \in Ids /\ nextId' = nextId + 1
        /\ log' \in Seq(Entry) /\ Len(log') = Len(log) + 1 /\ synced' \in SyncedAfter
        /\ \E id \in Ids :
             /\ HasId(id)'
             /\ times' = [v \in Views |-> Applied(v, times[v], id)]
        /\ \A id : HasId(id) => HasId(id)'
        /\ watermarks' = [v \in Views |-> AdvancedWm(watermarks[v], Len(log))]
        /\ attr'.clear = attr.clear
  BY DEF receipt
<1>2. PICK ev : ev = [id |-> nextId + 1, key |-> NoKey, hvm |-> FALSE]
  OBVIOUS
<1>3. /\ log' = Append(log, ev) /\ nextId' = nextId + 1 /\ synced' \in SyncedAfter
      /\ times' = [v \in Views |-> Applied(v, times[v], ev.id)]
      /\ watermarks' = [v \in Views |-> AdvancedWm(watermarks[v], Len(log))]
      /\ attr' = AttrApplied(attr, Len(log), NoKey, FALSE)
  BY <1>1, <1>2 DEF receipt
<1>4. nextId + 1 \in Ids
  BY <1>1, ScenarioType DEF EngineTypeOK, Ids
<1>5. ev \in Entry /\ ev.id \in Ids
  BY <1>2, <1>4 DEF Entry
<1>6. attr'.clear = attr.clear
  BY <1>3 DEF AttrApplied, EngineTypeOK
<1> QED BY <1>3, <1>4, <1>5, <1>6, LogGrows

LEMMA ReceiptType ==
  ASSUME EngineTypeOK, receipt
  PROVE  EngineTypeOK'
<1>1. UNCHANGED <<clear, disk, mode, rebuilt, opens, scenario, call>>
  BY DEF receipt
<1>2. CASE UNCHANGED <<log, nextId, synced, times, watermarks, attr>>
  BY <1>1, <1>2 DEF EngineTypeOK, disk
<1>3. CASE ~UNCHANGED <<log, nextId, synced, times, watermarks, attr>>
  <2>1. PICK id \in Ids : times' = [v \in Views |-> Applied(v, times[v], id)]
    BY <1>3, ReceiptLog
  <2>2. times' \in [Views -> Counts]
    BY <2>1, AppliedType DEF EngineTypeOK
  <2>3. Len(log) \in Nat
    BY LogType
  <2>4. watermarks' \in [Views -> Lsns]
    BY <1>3, <2>3, ReceiptLog DEF EngineTypeOK, AdvancedWm, Lsns
  <2>5. /\ log' \in Seq(Entry) /\ Len(log') = Len(log) + 1 /\ synced' \in SyncedAfter
        /\ nextId' = nextId + 1 /\ attr'.clear = attr.clear
    BY <1>3, ReceiptLog
  <2>6. synced' \in 0..Len(log') /\ nextId' \in Nat /\ attr'.clear \in BOOLEAN
    BY <2>3, <2>5 DEF EngineTypeOK, SyncedAfter
  <2> QED BY <1>1, <2>2, <2>4, <2>5, <2>6 DEF EngineTypeOK, disk
<1> QED BY <1>2, <1>3

LEMMA CrashType ==
  ASSUME EngineTypeOK, crash
  PROVE  EngineTypeOK'
<1>1. PICK n \in synced..Len(log) : log' = SubSeq(log, 1, n) /\ synced' = n
  BY DEF crash
<1>2. log \in Seq(Entry) /\ Len(log) \in Nat /\ n \in 0..Len(log)
  BY <1>1, LogType DEF EngineTypeOK
<1>3. log' \in Seq(Entry) /\ Len(log') = n
  BY <1>1, <1>2, PrefixType
<1> QED BY <1>1, <1>2, <1>3, StoppedType DEF crash

LEMMA TypeStep ==
  ASSUME EngineTypeOK, [Next]_vars
  PROVE  EngineTypeOK'
<1>1. CASE UNCHANGED vars
  BY <1>1 DEF EngineTypeOK, vars, ram, disk, task
<1>2. CASE \E c \in Appenders : (\E hvm \in BOOLEAN : append(c, hvm))
               \/ (\E key \in Keys : append_idempotent(c, key))
  BY <1>2, AppendsLogged, LoggedType
<1>3. CASE \E c \in Appenders : index_views(c) \/ index_attr(c)
  BY <1>3, IndexViewsType, IndexAttrType
<1>4. CASE \E o \in Maintenance : start(o)
  BY <1>4 DEF start, EngineTypeOK, ram, disk
<1>5. CASE \E m \in {"normal", "skip"} : open(m)
  BY <1>5 DEF open, EngineTypeOK, disk
<1>6. CASE lock_views
  BY <1>6 DEF lock_views, EngineTypeOK, ram, disk
<1>7. CASE unlock_views
  BY <1>7 DEF unlock_views, EngineTypeOK, ram, disk
<1>8. CASE persist_watermarks
  BY <1>8 DEF persist_watermarks, EngineTypeOK, ram, disk
<1>9. CASE save_attr
  BY <1>9 DEF save_attr, EngineTypeOK, ram, disk
<1>10. CASE reset_watermarks
  BY <1>10 DEF reset_watermarks, EngineTypeOK, ram, disk, NoWatermarks, Lsns
<1>11. CASE open_attr
  BY <1>11 DEF open_attr, EngineTypeOK, ram, disk
<1>12. CASE mark
  BY <1>12 DEF mark, EngineTypeOK, ram, disk
<1>13. CASE destroy_key
  BY <1>13 DEF destroy_key, EngineTypeOK, ram, disk
<1>14. CASE unmark
  BY <1>14 DEF unmark, EngineTypeOK, ram, disk
<1>15. CASE swap_attr
  BY <1>15 DEF swap_attr, EngineTypeOK, disk, EmptyAttr
<1>16. CASE replay_attr
  BY <1>16, AttrReplayedClear DEF replay_attr, EngineTypeOK
<1>17. CASE scan_attr
  <2>1. EmptyAttr.clear \in BOOLEAN
    BY DEF EmptyAttr
  <2> QED BY <1>17, <2>1, AttrReplayedClear DEF scan_attr, EngineTypeOK, ram
<1>18. CASE save_view
  BY <1>18, SaveViewType
<1>19. CASE rebuild_views
  BY <1>19, RebuildType
<1>20. CASE catch_up
  BY <1>20, CatchUpType
<1>21. CASE receipt
  BY <1>21, ReceiptType
<1>22. CASE crash
  BY <1>22, CrashType
<1>23. CASE exit
  BY <1>23, StoppedType DEF exit, EngineTypeOK
<1>24. CASE log_fsync
  BY <1>24, LogType DEF log_fsync, EngineTypeOK, ram, disk, task
<1> QED
  BY <1>1, <1>2, <1>3, <1>4, <1>5, <1>6, <1>7, <1>8, <1>9, <1>10, <1>11, <1>12, <1>13,
     <1>14, <1>15, <1>16, <1>17, <1>18, <1>19, <1>20, <1>21, <1>22, <1>23, <1>24
  DEF Next, TaskStep

-----------------------------------------------------------------------------
(* The operation that is going on.                                          *)

\* A log that loses an episode may leave it behind in a saved view, and an
\* append during a shred may enter what it read before the key was dropped.
LogKept == \A s \in Scenarios : s.policy = "always" \/ s.crashAt = {}
ShredQuiet == \A s \in Scenarios : "shred" \in s.ops => "shred" \in s.quiet

TaskInv ==
  /\ TodoInv /\ (todo = <<>> <=> op = "none")
  /\ mode = "down" => \A x \in Left : x.do = "exit"
  /\ op = "shred" => InFlight = {} /\ "shred" \in scenario.ops
  /\ op = "shred" /\ Step1("destroy_key") \notin Left => shredded
  /\ Step1("destroy_key") \in Left => marker \/ Step1("mark") \in Left
  /\ op = "open" => ~marker

\* What a step of an operation does to the marker, the key and the callers.
EffectOf(d) ==
  /\ Step(d) /\ scenario' = scenario
  /\ shredded' = (shredded \/ d = "destroy_key")
  /\ marker' = (d = "mark" \/ (d # "unmark" /\ marker))
  /\ IF d = "exit" THEN mode' = "down" /\ call' = [c \in Appenders |-> Idle]
     ELSE mode' = mode /\ call' = call

LEMMA TaskEffects ==
  ASSUME EngineTypeOK
  PROVE  /\ lock_views => EffectOf("lock")
         /\ unlock_views => EffectOf("unlock")
         /\ save_view => EffectOf("save")
         /\ persist_watermarks => EffectOf("persist_watermarks")
         /\ save_attr => EffectOf("save_attr")
         /\ rebuild_views => EffectOf("rebuild")
         /\ catch_up => EffectOf("catch_up")
         /\ reset_watermarks => EffectOf("reset_watermarks")
         /\ open_attr => EffectOf("open_attr")
         /\ replay_attr => EffectOf("replay_attr")
         /\ mark => EffectOf("mark")
         /\ destroy_key => EffectOf("destroy_key")
         /\ scan_attr => EffectOf("scan_attr")
         /\ swap_attr => EffectOf("swap_attr")
         /\ receipt => EffectOf("receipt")
         /\ unmark => EffectOf("unmark")
         /\ exit => EffectOf("exit")
<1>1. lock_views => EffectOf("lock")
  BY DEF lock_views, EffectOf, disk, EngineTypeOK
<1>2. unlock_views => EffectOf("unlock")
  BY DEF unlock_views, EffectOf, disk, EngineTypeOK
<1>3. save_view => EffectOf("save")
  BY DEF save_view, EffectOf, disk, EngineTypeOK
<1>4. persist_watermarks => EffectOf("persist_watermarks")
  BY DEF persist_watermarks, EffectOf, disk, EngineTypeOK
<1>5. save_attr => EffectOf("save_attr")
  BY DEF save_attr, EffectOf, disk, EngineTypeOK
<1>6. rebuild_views => EffectOf("rebuild")
  BY DEF rebuild_views, EffectOf, disk, EngineTypeOK
<1>7. catch_up => EffectOf("catch_up")
  BY DEF catch_up, EffectOf, disk, EngineTypeOK
<1>8. reset_watermarks => EffectOf("reset_watermarks")
  BY DEF reset_watermarks, EffectOf, disk, EngineTypeOK
<1>9. open_attr => EffectOf("open_attr")
  BY DEF open_attr, EffectOf, disk, EngineTypeOK
<1>10. replay_attr => EffectOf("replay_attr")
  BY DEF replay_attr, EffectOf, disk, EngineTypeOK
<1>11. mark => EffectOf("mark")
  BY DEF mark, EffectOf, disk, EngineTypeOK
<1>12. destroy_key => EffectOf("destroy_key")
  BY DEF destroy_key, EffectOf, disk, EngineTypeOK
<1>13. scan_attr => EffectOf("scan_attr")
  BY DEF scan_attr, EffectOf, disk, EngineTypeOK
<1>14. swap_attr => EffectOf("swap_attr")
  BY DEF swap_attr, EffectOf, disk, EngineTypeOK
<1>15. receipt => EffectOf("receipt")
  BY DEF receipt, EffectOf, disk, EngineTypeOK
<1>16. unmark => EffectOf("unmark")
  BY DEF unmark, EffectOf, disk, EngineTypeOK
<1>17. exit => EffectOf("exit")
  BY DEF exit, EffectOf, disk, EngineTypeOK, Stopped
<1> QED
  BY <1>1, <1>2, <1>3, <1>4, <1>5, <1>6, <1>7, <1>8, <1>9, <1>10, <1>11, <1>12, <1>13, <1>14,
     <1>15, <1>16, <1>17

LEMMA TaskEffect ==
  ASSUME EngineTypeOK, TaskStep
  PROVE  \E d \in Dos : EffectOf(d)
BY TaskEffects DEF TaskStep, Dos

LEMMA TaskInvStep ==
  ASSUME EngineTypeOK, TaskInv, NEW d \in Dos, EffectOf(d)
  PROVE  TaskInv'
<1>1. Step(d) /\ TodoInv
  BY DEF EffectOf, TaskInv
<1>2. /\ d \in StepsOf(op) /\ Left = {Head(todo)} \cup Left' /\ Head(todo).do = d
      /\ Head(todo) \in Item
      /\ \A x \in Left' : Rank(d) <= Rank(x.do)
      /\ TodoInv' /\ (todo' = <<>> <=> op' = "none")
  BY <1>1, StepTodo
<1>3. op' # "none" => op' = op
  BY <1>1 DEF Step
<1>4. \A x \in Left' : x.do \in StepsOf(op')
  BY <1>2 DEF TodoInv, Remaining, Left
<1>5. \A e : Step1(e) \in Left /\ e # d => Step1(e) \in Left'
  BY <1>2, DoOf
<1>6. ASSUME mode' = "down", NEW x \in Left'
      PROVE  x.do = "exit"
  <2>1. CASE mode = "down"
    BY <1>2, <1>6, <2>1 DEF TaskInv
  <2>2. CASE mode # "down"
    <3>1. d = "exit" /\ op = "shutdown"
      BY <1>2, <1>6, <2>2 DEF EffectOf, StepsOf
    <3>2. x.do \in StepsOf("shutdown")
      BY <1>2, <1>3, <1>4, <1>6, <3>1 DEF StepsOf
    <3>3. 11 <= Rank(x.do)
      BY <1>2, <1>6, <3>1, Ranks
    <3>4. x.do \notin {"lock", "save", "persist_watermarks", "unlock", "save_attr"}
      BY <3>3, Ranks
    <3> QED BY <3>2, <3>4 DEF StepsOf
  <2> QED BY <2>1, <2>2
<1>7. ASSUME op' = "shred"
      PROVE  InFlight' = {} /\ "shred" \in scenario'.ops
  <2>1. op = "shred" /\ InFlight = {} /\ "shred" \in scenario.ops
    BY <1>3, <1>7 DEF TaskInv
  <2> QED BY <2>1 DEF EffectOf, InFlight
<1>8. ASSUME op' = "shred", Step1("destroy_key") \notin Left'
      PROVE  shredded'
  <2>1. CASE d = "destroy_key"
    BY <2>1 DEF EffectOf
  <2>2. CASE d # "destroy_key"
    BY <1>3, <1>5, <1>8, <2>2 DEF EffectOf, TaskInv
  <2> QED BY <2>1, <2>2
<1>9. ASSUME Step1("destroy_key") \in Left'
      PROVE  marker' \/ Step1("mark") \in Left'
  <2>1. marker \/ Step1("mark") \in Left
    BY <1>2, <1>9 DEF TaskInv
  <2>2. CASE d = "mark"
    BY <2>2 DEF EffectOf
  <2>3. CASE d # "mark"
    <3>1. d # "unmark"
      <4>1. Step1("destroy_key").do = "destroy_key"
        BY DEF Step1
      <4>2. d = "unmark" => 11 <= 2
        BY <1>2, <1>9, <4>1, Ranks
      <4> QED BY <4>2
    <3> QED BY <1>5, <2>1, <2>3, <3>1 DEF EffectOf
  <2> QED BY <2>2, <2>3
<1>10. op' = "open" => ~marker'
  <2>1. op' = "open" => op = "open" /\ d # "mark"
    BY <1>2, <1>3 DEF StepsOf
  <2> QED BY <2>1 DEF EffectOf, TaskInv
<1> QED BY <1>2, <1>6, <1>7, <1>8, <1>9, <1>10 DEF TaskInv

LEMMA TaskInvNext ==
  ASSUME ShredQuiet, EngineTypeOK, TaskInv, [Next]_vars
  PROVE  TaskInv'
<1>1. CASE UNCHANGED <<disk, task, call>>
  BY <1>1 DEF TaskInv, TodoInv, Left, InFlight, disk, task
<1>2. CASE TaskStep
  BY <1>2, TaskEffect, TaskInvStep
<1>3. ASSUME NEW c \in Appenders,
             (\E hvm \in BOOLEAN : append(c, hvm)) \/ (\E key \in Keys : append_idempotent(c, key))
      PROVE  TaskInv'
  <2>1. MayStart(c) /\ UNCHANGED <<disk, task>>
    BY <1>3 DEF append, append_idempotent, Logged
  <2>2. op # "shred"
    BY <2>1 DEF MayStart, TaskInv, ShredQuiet, EngineTypeOK
  <2> QED BY <2>1, <2>2 DEF TaskInv, TodoInv, Left, disk, task
<1>4. ASSUME NEW c \in Appenders, index_views(c) \/ index_attr(c)
      PROVE  TaskInv'
  <2>1. UNCHANGED <<disk, task>> /\ c \in InFlight
    BY <1>4 DEF index_views, index_attr, InFlight, Idle
  <2>2. op # "shred"
    BY <2>1 DEF TaskInv
  <2> QED BY <2>1, <2>2 DEF TaskInv, TodoInv, Left, disk, task
<1>5. ASSUME NEW o \in Maintenance, start(o)
      PROVE  TaskInv'
  <2>1. /\ op' = o /\ todo' = Program(o) /\ o \in scenario.ops /\ mode # "down"
        /\ o \in scenario.quiet => InFlight = {}
        /\ UNCHANGED <<disk, mode, scenario, call>>
    BY <1>5 DEF start, Serving
  <2>2. TodoInv' /\ todo' # <<>> /\ Sure(o) \subseteq Left'
    BY <2>1, ProgramTodo DEF TodoInv, Left
  <2>3. o = "shred" => Step1("destroy_key") \in Left' /\ Step1("mark") \in Left'
    BY <2>2 DEF Sure
  <2>4. o = "shred" => InFlight = {}
    BY <2>1 DEF ShredQuiet, EngineTypeOK
  <2>5. Step1("destroy_key") \in Left' => o = "shred"
    <3>1. \A x \in Left' : x.do \in StepsOf(o)
      BY <2>1, <2>2 DEF TodoInv, Remaining, Left
    <3> QED BY <3>1, DoOf DEF StepsOf
  <2>6. o # "none" /\ o # "open"
    BY DEF Maintenance
  <2> QED BY <2>1, <2>2, <2>3, <2>4, <2>5, <2>6 DEF TaskInv, InFlight, disk
<1>6. ASSUME NEW m \in {"normal", "skip"}, open(m)
      PROVE  TaskInv'
  <2>1. /\ mode' = m /\ op' = (IF marker THEN "privacy_open" ELSE "open")
        /\ todo' = (IF marker THEN OpenPrivacy(m) ELSE IF m = "skip" THEN OpenSkip ELSE OpenNormal)
        /\ UNCHANGED <<disk, scenario, call>>
    BY <1>6 DEF open
  <2>2. TodoInv' /\ todo' # <<>>
    BY <2>1, OpenTodo DEF TodoInv
  <2>3. Step1("destroy_key") \notin Left'
    <3>1. \A x \in Left' : x.do \in StepsOf(op')
      BY <2>2 DEF TodoInv, Remaining, Left
    <3>2. op' \in {"open", "privacy_open"}
      BY <2>1
    <3> QED BY <3>1, <3>2, DoOf DEF StepsOf
  <2> QED BY <2>1, <2>2, <2>3 DEF TaskInv, disk
<1>7. CASE crash
  <2>1. op' = "none" /\ todo' = <<>>
    BY <1>7 DEF crash
  <2>2. TodoInv' /\ Left' = {}
    BY <2>1, NoSteps DEF TodoInv, Remaining, Left
  <2> QED BY <2>1, <2>2 DEF TaskInv
<1>8. CASE log_fsync
  BY <1>1, <1>8 DEF log_fsync
<1>9. UNCHANGED vars => UNCHANGED <<disk, task, call>>
  BY DEF vars
<1> QED BY <1>1, <1>2, <1>3, <1>4, <1>5, <1>6, <1>7, <1>8, <1>9 DEF Next

-----------------------------------------------------------------------------
(* What was read under the dropped key.  Each derived state that may hold   *)
(* some has the step that rebuilds or saves it over still to come, and the  *)
(* marker, which makes the next boot take such steps, is there till then.   *)

ErasureInv ==
  /\ ~rebuilt.clear
  /\ mode = "down" => clear = {} /\ ~attr.clear /\ InFlight = {}
  /\ shredded =>
       /\ \A c \in Appenders : ~call[c].clear
       /\ clear # {} => marker /\ Step1("rebuild") \in Left
       /\ attr.clear => marker /\ Step1("swap_attr") \in Left
       /\ \A v \in Views : ckpt[v].clear => marker /\ (mode = "down" \/ Save(v) \in Left)
       /\ attr_file.clear =>
            marker /\ (mode = "down" \/ Step1("scan_attr") \in Left \/ Step1("save_attr") \in Left)

LEMMA Ahead ==
  ASSUME TaskInv, NEW d, Step(d)
  PROVE  /\ \A e : Step1(e) \in Left => e \in StepsOf(op) /\ (e = d \/ Step1(e) \in Left')
         /\ \A v : Save(v) \in Left => Save(v) = Head(todo) \/ Save(v) \in Left'
         /\ \A e : Step1(e) \in Left => Rank(d) <= Rank(e)
         /\ \A v : Save(v) \in Left => Rank(d) <= 5
<1>1. /\ TodoInv /\ Left = {Head(todo)} \cup Left' /\ Head(todo).do = d
      /\ \A x \in Left' : Rank(d) <= Rank(x.do)
  BY StepTodo DEF TaskInv
<1>2. \A x \in Left : x.do \in StepsOf(op)
  BY <1>1 DEF TodoInv, Remaining, Left
<1>3. /\ \A e : Step1(e).do = e
      /\ \A v : Save(v).do = "save"
  BY DEF Step1, Save
<1>4. \A x \in Left : Rank(d) <= Rank(x.do)
  <2>1. Rank(d) <= Rank(d)
    BY RankType
  <2> QED BY <1>1, <2>1
<1> QED BY <1>1, <1>2, <1>3, <1>4, Ranks

\* What is wrong before a step that does not deal with it is in hand after it.
LEMMA Carried ==
  ASSUME TaskInv, ErasureInv, NEW d \in Dos, EffectOf(d), d # "exit", shredded
  PROVE  /\ clear # {} /\ d # "rebuild" => marker' /\ Step1("rebuild") \in Left'
         /\ attr.clear /\ d # "swap_attr" => marker' /\ Step1("swap_attr") \in Left'
         /\ \A v \in Views : ckpt[v].clear /\ Save(v) # Head(todo) =>
              marker' /\ (mode' = "down" \/ Save(v) \in Left')
         /\ attr_file.clear /\ d \notin {"scan_attr", "save_attr"} =>
              /\ marker'
              /\ mode' = "down" \/ Step1("scan_attr") \in Left' \/ Step1("save_attr") \in Left'
<1>1. /\ \A e : Step1(e) \in Left => e = d \/ Step1(e) \in Left'
      /\ \A v : Save(v) \in Left => Save(v) = Head(todo) \/ Save(v) \in Left'
      /\ d = "unmark" => /\ \A e : Step1(e) \in Left => 11 <= Rank(e)
                         /\ \A v : ~(Save(v) \in Left)
  <2>1. d = "unmark" => \A v : Save(v) \in Left => 11 <= 5
    BY Ahead, Ranks DEF EffectOf
  <2> QED BY <2>1, Ahead, Ranks DEF EffectOf
<1>2. d = "unmark" => /\ Step1("rebuild") \notin Left /\ Step1("swap_attr") \notin Left
                      /\ Step1("scan_attr") \notin Left /\ Step1("save_attr") \notin Left
  BY <1>1, Ranks
<1>3. d = "unmark" => mode # "down"
  <2>1. Head(todo) \in Left /\ Head(todo).do = d
    BY StepTodo DEF EffectOf, TaskInv
  <2> QED BY <2>1 DEF TaskInv
<1>4. /\ d # "unmark" /\ marker => marker'
      /\ mode' = mode
  BY DEF EffectOf
<1>5. /\ clear # {} => marker /\ Step1("rebuild") \in Left
      /\ attr.clear => marker /\ Step1("swap_attr") \in Left
      /\ \A v \in Views : ckpt[v].clear => marker /\ (mode = "down" \/ Save(v) \in Left)
      /\ attr_file.clear =>
            marker /\ (mode = "down" \/ Step1("scan_attr") \in Left \/ Step1("save_attr") \in Left)
  BY DEF ErasureInv
<1> QED BY <1>1, <1>2, <1>3, <1>4, <1>5

\* Where a step copies derived state, the original holds nothing in clear.
LEMMA SourcesClean ==
  ASSUME EngineTypeOK, TaskInv, ErasureInv, NEW d \in Dos, EffectOf(d)
  PROVE  /\ d = "save" /\ shredded => clear = {}
         /\ d \in {"save_attr", "replay_attr"} /\ shredded => ~attr.clear
         /\ d \in {"catch_up", "open_attr"} /\ shredded =>
              ~attr_file.clear /\ \A v \in Views : ~ckpt[v].clear
         /\ d = "scan_attr" => shredded
<1>1. /\ d \in StepsOf(op)
      /\ \A e : Step1(e) \in Left => e \in StepsOf(op)
      /\ \A e : Step1(e) \in Left => Rank(d) <= Rank(e)
  BY Ahead, StepTodo DEF EffectOf, TaskInv
<1>2. d = "save" => Step1("rebuild") \notin Left
  <2>1. d = "save" /\ Step1("rebuild") \in Left => 5 <= 4
    BY <1>1, Ranks
  <2> QED BY <2>1
<1>3. d \in {"save_attr", "replay_attr"} => Step1("swap_attr") \notin Left
  BY <1>1 DEF StepsOf
<1>4. d \in {"catch_up", "open_attr"} => ~marker
  BY <1>1 DEF StepsOf, TaskInv
<1>5. d = "scan_attr" => shredded
  <2>1. d = "scan_attr" => op = "shred"
    BY <1>1 DEF StepsOf
  <2>2. d = "scan_attr" /\ Step1("destroy_key") \in Left => 7 <= 2
    BY <1>1, Ranks
  <2> QED BY <2>1, <2>2 DEF TaskInv
<1> QED BY <1>2, <1>3, <1>4, <1>5 DEF ErasureInv

\* When the key goes, everything read under it is still to be rebuilt.
LEMMA DestroyErasure ==
  ASSUME EngineTypeOK, TaskInv, ErasureInv, destroy_key, EffectOf("destroy_key")
  PROVE  ErasureInv'
<1>1. /\ op = "shred" /\ \A y \in Sure("shred") : 2 < Rank(y.do) => y \in Left'
      /\ Left = {Head(todo)} \cup Left' /\ Head(todo).do = "destroy_key"
      /\ Head(todo) \in Item
  <2>1. "destroy_key" \in StepsOf(op)
    BY StepTodo DEF EffectOf, TaskInv
  <2>2. op = "shred"
    BY <2>1 DEF StepsOf
  <2> QED BY <2>2, StepTodo, Ranks DEF EffectOf, TaskInv
<1>2. /\ Step1("rebuild") \in Left' /\ Step1("swap_attr") \in Left' /\ Step1("scan_attr") \in Left'
      /\ \A v \in Views : Save(v) \in Left'
  <2>1. /\ Step1("rebuild").do = "rebuild" /\ Step1("swap_attr").do = "swap_attr"
        /\ Step1("scan_attr").do = "scan_attr" /\ \A v : Save(v).do = "save"
    BY DEF Step1, Save
  <2>2. /\ Step1("rebuild") \in Sure("shred") /\ Step1("swap_attr") \in Sure("shred")
        /\ Step1("scan_attr") \in Sure("shred") /\ \A v \in Views : Save(v) \in Sure("shred")
    BY DEF Sure, Saving
  <2> QED BY <1>1, <2>1, <2>2, Ranks
<1>3. marker /\ marker'
  <2>1. Step1("mark") \notin Left
    <3>1. Step1("mark") \in Left => 2 <= 1
      BY Ahead, Ranks DEF EffectOf
    <3> QED BY <3>1
  <2>2. CASE Step1("destroy_key") \in Left
    BY <2>1, <2>2 DEF TaskInv, EffectOf
  <2>3. CASE Step1("destroy_key") \notin Left
    <3>1. Head(todo) = Step1("destroy_key")
      BY <1>1 DEF Item, Saving, Save, Step1
    <3> QED BY <3>1, <2>3, <1>1
  <2> QED BY <2>2, <2>3
<1>4. \A c \in Appenders : ~call[c].clear
  BY <1>1 DEF TaskInv, InFlight, Idle
<1> QED BY <1>2, <1>3, <1>4 DEF ErasureInv, destroy_key, InFlight, ram

\* A step that adds nothing in clear to any derived state.
LEMMA ErasureKept ==
  ASSUME EngineTypeOK, TaskInv, ErasureInv, NEW d \in Dos, EffectOf(d),
         d \notin {"exit", "destroy_key"}, ~rebuilt'.clear,
         shredded => clear' = {} \/ (clear' = clear /\ d # "rebuild"),
         shredded => ~attr'.clear \/ (attr'.clear = attr.clear /\ d # "swap_attr"),
         shredded => \A v \in Views :
           ~ckpt'[v].clear \/ (ckpt'[v].clear = ckpt[v].clear /\ Save(v) # Head(todo)),
         shredded => \/ ~attr_file'.clear
                     \/ attr_file'.clear = attr_file.clear /\ d \notin {"scan_attr", "save_attr"}
  PROVE  ErasureInv'
<1>1. shredded' = shredded /\ mode' = mode /\ call' = call
  BY DEF EffectOf, EngineTypeOK
<1>2. mode # "down"
  <2>1. Head(todo) \in Left /\ Head(todo).do = d
    BY StepTodo DEF EffectOf, TaskInv
  <2> QED BY <2>1 DEF TaskInv
<1>3. mode' = "down" => clear' = {} /\ ~attr'.clear /\ InFlight' = {}
  BY <1>1, <1>2
<1>4. ASSUME shredded
      PROVE  /\ clear' # {} => marker' /\ Step1("rebuild") \in Left'
             /\ attr'.clear => marker' /\ Step1("swap_attr") \in Left'
  BY <1>4, Carried
<1>5. ASSUME shredded
      PROVE  /\ \A v \in Views : ckpt'[v].clear =>
                  marker' /\ (mode' = "down" \/ Save(v) \in Left')
             /\ attr_file'.clear =>
                  /\ marker'
                  /\ mode' = "down" \/ Step1("scan_attr") \in Left' \/ Step1("save_attr") \in Left'
  BY <1>5, Carried
<1> QED BY <1>1, <1>3, <1>4, <1>5 DEF ErasureInv

LEMMA ErasureTask ==
  ASSUME EngineTypeOK, TaskInv, ErasureInv, TaskStep
  PROVE  ErasureInv'
<1>1. \A d \in Dos : EffectOf(d) => Head(todo).do = d /\ \A v : d # "save" => Save(v) # Head(todo)
  BY StepTodo DEF EffectOf, TaskInv, Save
<1>2. ~rebuilt.clear
  BY DEF ErasureInv
<1>3. CASE lock_views
  <2>1. EffectOf("lock")
    BY <1>3, TaskEffects
  <2>2. UNCHANGED <<clear, attr, ckpt, attr_file, rebuilt>>
    BY <1>3 DEF lock_views, ram, disk
  <2> QED BY <1>1, <1>2, <2>1, <2>2, ErasureKept DEF Dos
<1>4. CASE unlock_views
  <2>1. EffectOf("unlock")
    BY <1>4, TaskEffects
  <2>2. UNCHANGED <<clear, attr, ckpt, attr_file, rebuilt>>
    BY <1>4 DEF unlock_views, ram, disk
  <2> QED BY <1>1, <1>2, <2>1, <2>2, ErasureKept DEF Dos
<1>5. CASE persist_watermarks
  <2>1. EffectOf("persist_watermarks")
    BY <1>5, TaskEffects
  <2>2. UNCHANGED <<clear, attr, ckpt, attr_file, rebuilt>>
    BY <1>5 DEF persist_watermarks, ram, disk
  <2> QED BY <1>1, <1>2, <2>1, <2>2, ErasureKept DEF Dos
<1>6. CASE reset_watermarks
  <2>1. EffectOf("reset_watermarks")
    BY <1>6, TaskEffects
  <2>2. UNCHANGED <<clear, attr, ckpt, attr_file, rebuilt>>
    BY <1>6 DEF reset_watermarks, ram, disk
  <2> QED BY <1>1, <1>2, <2>1, <2>2, ErasureKept DEF Dos
<1>7. CASE mark
  <2>1. EffectOf("mark")
    BY <1>7, TaskEffects
  <2>2. UNCHANGED <<clear, attr, ckpt, attr_file, rebuilt>>
    BY <1>7 DEF mark, ram, disk
  <2> QED BY <1>1, <1>2, <2>1, <2>2, ErasureKept DEF Dos
<1>8. CASE unmark
  <2>1. EffectOf("unmark")
    BY <1>8, TaskEffects
  <2>2. UNCHANGED <<clear, attr, ckpt, attr_file, rebuilt>>
    BY <1>8 DEF unmark, ram, disk
  <2> QED BY <1>1, <1>2, <2>1, <2>2, ErasureKept DEF Dos
<1>9. CASE save_view
  <2>1. EffectOf("save")
    BY <1>9, TaskEffects
  <2>2. UNCHANGED <<clear, attr, attr_file, rebuilt>> /\ (shredded => clear = {})
    BY <1>9, <2>1, SourcesClean DEF save_view, ram, Dos
  <2>3. PICK v : v = Head(todo).view
    OBVIOUS
  <2>4. PICK k : k = [present |-> TRUE, times |-> times[v], clear |-> v \in clear]
    OBVIOUS
  <2>5. ckpt' = [ckpt EXCEPT ![v] = k] /\ ckpt \in [Views -> CkptOf] /\ (shredded => ~k.clear)
    BY <1>9, <2>2, <2>3, <2>4 DEF save_view, EngineTypeOK
  <2>6. \A w \in Views : Save(w) = Head(todo) => w = v
    BY <2>3 DEF Save
  <2>7. ASSUME NEW w \in Views, shredded
        PROVE  ~ckpt'[w].clear \/ (ckpt'[w].clear = ckpt[w].clear /\ Save(w) # Head(todo))
    <3>1. CASE w = v
      BY <2>5, <2>7, <3>1
    <3>2. CASE w # v
      BY <2>5, <2>6, <3>2
    <3> QED BY <3>1, <3>2
  <2> QED BY <1>2, <2>1, <2>2, <2>7, ErasureKept DEF Dos
<1>10. CASE save_attr
  <2>1. EffectOf("save_attr")
    BY <1>10, TaskEffects
  <2>2. UNCHANGED <<clear, attr, ckpt, rebuilt>> /\ attr_file' = attr /\ (shredded => ~attr.clear)
    BY <1>10, <2>1, SourcesClean DEF save_attr, ram, Dos
  <2> QED BY <1>1, <1>2, <2>1, <2>2, ErasureKept DEF Dos
<1>11. CASE rebuild_views
  <2>1. EffectOf("rebuild")
    BY <1>11, TaskEffects
  <2>2. UNCHANGED <<attr, ckpt, attr_file, rebuilt>> /\ (shredded => clear' = {})
    BY <1>11 DEF rebuild_views, disk, Exposed, EngineTypeOK
  <2> QED BY <1>1, <1>2, <2>1, <2>2, ErasureKept DEF Dos
<1>12. CASE catch_up
  <2>1. EffectOf("catch_up")
    BY <1>12, TaskEffects
  <2>2. shredded => \A v \in Views : ~ckpt[v].clear
    BY <2>1, SourcesClean DEF Dos
  <2>3. UNCHANGED <<attr, ckpt, attr_file, rebuilt>> /\ (shredded => clear' = {})
    BY <1>12, <2>2 DEF catch_up, disk, Exposed
  <2> QED BY <1>1, <1>2, <2>1, <2>3, ErasureKept DEF Dos
<1>13. CASE open_attr
  <2>1. EffectOf("open_attr")
    BY <1>13, TaskEffects
  <2>2. shredded => ~attr_file.clear
    BY <2>1, SourcesClean DEF Dos
  <2>3. UNCHANGED <<clear, ckpt, attr_file, rebuilt>> /\ attr' = attr_file
    BY <1>13 DEF open_attr, disk
  <2> QED BY <1>1, <1>2, <2>1, <2>2, <2>3, ErasureKept DEF Dos
<1>14. CASE replay_attr
  <2>1. EffectOf("replay_attr")
    BY <1>14, TaskEffects
  <2>2. shredded => ~attr.clear
    BY <2>1, SourcesClean DEF Dos
  <2>3. /\ UNCHANGED <<clear, ckpt, rebuilt>> /\ attr' = AttrReplayed(attr)
        /\ attr_file' = attr_file \/ attr_file' = attr'
    BY <1>14 DEF replay_attr
  <2>4. shredded => ~attr'.clear
    BY <2>2, <2>3, AttrReplayedClear DEF EngineTypeOK
  <2>5. shredded => ~attr_file'.clear \/ attr_file' = attr_file
    BY <2>3, <2>4
  <2> QED BY <1>1, <1>2, <2>1, <2>3, <2>4, <2>5, ErasureKept DEF Dos
<1>15. CASE destroy_key
  BY <1>15, TaskEffects, DestroyErasure
<1>16. CASE scan_attr
  <2>1. EffectOf("scan_attr")
    BY <1>16, TaskEffects
  <2>2. shredded
    BY <2>1, SourcesClean DEF Dos
  <2>3. /\ UNCHANGED <<clear, attr, ckpt>> /\ rebuilt' = AttrReplayed(EmptyAttr)
        /\ attr_file' = rebuilt'
    BY <1>16 DEF scan_attr, ram
  <2>4. EmptyAttr.clear = FALSE
    BY DEF EmptyAttr
  <2>5. ~rebuilt'.clear
    <3>1. AttrReplayed(EmptyAttr).clear => EmptyAttr.clear \/ ~shredded
      BY <2>4 DEF AttrReplayed
    <3> QED BY <2>2, <2>3, <2>4, <3>1
  <2> QED BY <1>1, <2>1, <2>3, <2>5, ErasureKept DEF Dos
<1>17. CASE swap_attr
  <2>1. EffectOf("swap_attr")
    BY <1>17, TaskEffects
  <2>2. UNCHANGED <<clear, ckpt, attr_file>> /\ attr' = rebuilt /\ rebuilt' = EmptyAttr
    BY <1>17 DEF swap_attr, disk
  <2>3. ~rebuilt'.clear
    BY <2>2 DEF EmptyAttr
  <2> QED BY <1>1, <1>2, <2>1, <2>2, <2>3, ErasureKept DEF Dos
<1>18. CASE receipt
  <2>1. EffectOf("receipt")
    BY <1>18, TaskEffects
  <2>2. UNCHANGED <<clear, ckpt, attr_file, rebuilt>> /\ attr'.clear = attr.clear
    BY <1>18, ReceiptLog DEF receipt, disk
  <2> QED BY <1>1, <1>2, <2>1, <2>2, ErasureKept DEF Dos
<1>19. CASE exit
  <2>1. Stopped /\ op = "shutdown"
    <3>1. EffectOf("exit")
      BY <1>19, TaskEffects
    <3>2. "exit" \in StepsOf(op)
      BY <3>1, StepTodo DEF EffectOf, TaskInv
    <3> QED BY <1>19, <3>2 DEF exit, StepsOf
  <2> QED BY <2>1 DEF ErasureInv, Stopped, EmptyAttr, Idle, InFlight, disk
<1> QED
  BY <1>3, <1>4, <1>5, <1>6, <1>7, <1>8, <1>9, <1>10, <1>11, <1>12, <1>13, <1>14, <1>15,
     <1>16, <1>17, <1>18, <1>19
  DEF TaskStep

LEMMA ErasureNext ==
  ASSUME EngineTypeOK, TaskInv, ErasureInv, [Next]_vars
  PROVE  ErasureInv'
<1>1. CASE UNCHANGED <<ram, disk, task, call>>
  BY <1>1 DEF ErasureInv, Left, InFlight, ram, disk, task
<1>2. CASE TaskStep
  BY <1>2, ErasureTask
<1>3. ASSUME NEW c \in Appenders,
             (\E hvm \in BOOLEAN : append(c, hvm)) \/ (\E key \in Keys : append_idempotent(c, key))
      PROVE  ErasureInv'
  <2>1. mode # "down" /\ UNCHANGED <<ram, disk, task>>
    BY <1>3 DEF append, append_idempotent, Logged, MayStart, Serving
  <2>2. \A d \in Appenders : call'[d] = call[d] \/ call'[d] = Idle \/ call'[d].clear = ~shredded
    BY <1>3, AppendsLogged, LoggedType
  <2>3. Idle.clear = FALSE
    BY DEF Idle
  <2>4. shredded => \A d \in Appenders : ~call'[d].clear
    BY <2>2, <2>3 DEF ErasureInv
  <2> QED BY <2>1, <2>4 DEF ErasureInv, Left, ram, disk, task
<1>4. ASSUME NEW c \in Appenders, index_views(c)
      PROVE  ErasureInv'
  <2>1. UNCHANGED <<attr, disk, task>> /\ mode # "down"
    BY <1>4 DEF index_views, ErasureInv, InFlight, Idle
  <2>2. shredded => clear' = clear
    BY <1>4 DEF index_views, ErasureInv
  <2>3. \A d \in Appenders : call'[d].clear = call[d].clear
    BY <1>4 DEF index_views, EngineTypeOK, Call
  <2> QED BY <2>1, <2>2, <2>3 DEF ErasureInv, Left, disk, task
<1>5. ASSUME NEW c \in Appenders, index_attr(c)
      PROVE  ErasureInv'
  <2>1. UNCHANGED <<clear, disk, task>> /\ mode # "down"
    BY <1>5 DEF index_attr, ErasureInv, InFlight, Idle
  <2>2. /\ call' = [call EXCEPT ![c] = Idle]
        /\ attr'.clear <=> attr.clear \/ call[c].clear
    BY <1>5, IndexAttrType
  <2>3. Idle.clear = FALSE
    BY DEF Idle
  <2>4. shredded => (\A d \in Appenders : ~call'[d].clear) /\ (attr'.clear => attr.clear)
    BY <2>2, <2>3 DEF ErasureInv, EngineTypeOK
  <2> QED BY <2>1, <2>4 DEF ErasureInv, Left, disk, task
<1>6. ASSUME NEW o \in Maintenance, start(o)
      PROVE  ErasureInv'
  <2>1. op = "none" /\ mode # "down" /\ UNCHANGED <<ram, disk, mode, rebuilt, call>>
    BY <1>6 DEF start, Serving
  <2>2. Left = {}
    BY <2>1, NoSteps DEF TaskInv, Left
  <2> QED BY <2>1, <2>2 DEF ErasureInv, ram, disk
<1>7. ASSUME NEW m \in {"normal", "skip"}, open(m)
      PROVE  ErasureInv'
  <2>1. /\ mode = "down" /\ mode' = m /\ UNCHANGED <<times, attr, clear, disk, rebuilt, call>>
        /\ todo' = (IF marker THEN OpenPrivacy(m) ELSE IF m = "skip" THEN OpenSkip ELSE OpenNormal)
    BY <1>7 DEF open
  <2>2. marker => Sure("privacy_open") \subseteq Left'
    BY <2>1, OpenTodo DEF Left
  <2>3. marker => Step1("save_attr") \in Left' /\ \A v \in Views : Save(v) \in Left'
    BY <2>2 DEF Sure, Saving
  <2> QED BY <2>1, <2>3 DEF ErasureInv, disk
<1>8. CASE crash
  BY <1>8 DEF crash, ErasureInv, Stopped, EmptyAttr, Idle, InFlight, disk
<1>9. log_fsync \/ UNCHANGED vars => UNCHANGED <<ram, disk, task, call>>
  BY DEF vars, log_fsync
<1> QED BY <1>1, <1>2, <1>3, <1>4, <1>5, <1>6, <1>7, <1>8, <1>9 DEF Next

-----------------------------------------------------------------------------
(* Where the views get their episodes from.                                 *)

SourceInv ==
  /\ \A v \in Views, id \in Ids : times[v][id] > 0 \/ ckpt[v].times[id] > 0 => HasId(id)
  /\ \A c \in Appenders : call[c].at # "idle" => HasId(call[c].ev.id)
  /\ scenario.policy = "always" => synced = Len(log)

\* No step loses an episode, and under Always every one is synced.
LEMMA LogKeptNext ==
  ASSUME LogKept, EngineTypeOK, SourceInv, [Next]_vars
  PROVE  /\ \A id : HasId(id) => HasId(id)'
         /\ (scenario.policy = "always" => synced = Len(log))'
<1>1. Len(log) \in Nat /\ log \in Seq(Entry) /\ synced \in 0..Len(log)
  BY LogType DEF EngineTypeOK
<1>2. CASE log' = log /\ synced' \in {synced, Len(log)} /\ scenario' = scenario
  BY <1>2 DEF HasId, SourceInv
<1>3. ASSUME NEW c \in Appenders,
             (\E hvm \in BOOLEAN : append(c, hvm)) \/ (\E key \in Keys : append_idempotent(c, key))
      PROVE  /\ \A id : HasId(id) => HasId(id)'
             /\ (scenario.policy = "always" => synced = Len(log))'
  <2>1. PICK key \in Keys \cup {NoKey}, hvm \in BOOLEAN : Logged(c, key, hvm)
    BY <1>3, AppendsLogged
  <2>2. /\ \A id : HasId(id) => HasId(id)' 
        /\ synced' \in SyncedAfter /\ Len(log') = Len(log) + 1
    BY <2>1, LoggedType
  <2>3. scenario' = scenario
    BY <2>1 DEF Logged, task
  <2> QED BY <2>2, <2>3 DEF SyncedAfter
<1>4. CASE receipt
  <2>1. scenario' = scenario
    BY <1>4 DEF receipt
  <2>2. CASE UNCHANGED <<log, nextId, synced, times, watermarks, attr>>
    BY <1>2, <2>1, <2>2
  <2>3. CASE ~UNCHANGED <<log, nextId, synced, times, watermarks, attr>>
    <3>1. /\ \A id : HasId(id) => HasId(id)'
          /\ synced' \in SyncedAfter /\ Len(log') = Len(log) + 1
      BY <1>4, <2>3, ReceiptLog
    <3> QED BY <2>1, <3>1 DEF SyncedAfter
  <2> QED BY <2>2, <2>3
<1>5. CASE crash
  <2>1. PICK n \in synced..Len(log) : log' = SubSeq(log, 1, n) /\ synced' = n
    BY <1>5 DEF crash
  <2>2. scenario.policy = "always" /\ scenario' = scenario
    BY <1>5 DEF crash, LogKept, EngineTypeOK, Stopped
  <2>3. n = Len(log)
    BY <1>1, <2>1, <2>2 DEF SourceInv
  <2>4. Len(log') = n /\ \A i \in 1..n : log'[i] = log[i]
    BY <1>1, <2>1, <2>3, PrefixType
  <2> QED BY <2>1, <2>3, <2>4 DEF HasId
<1>6. log_fsync => log' = log /\ synced' \in {synced, Len(log)} /\ scenario' = scenario
  BY DEF log_fsync, task
<1>7. UNCHANGED vars => UNCHANGED <<log, synced, scenario>>
  BY DEF vars, task
<1>8. \A c \in Appenders : index_views(c) \/ index_attr(c) => UNCHANGED <<log, synced, scenario>>
  BY DEF index_views, index_attr, task
<1>9. /\ \A o \in Maintenance : start(o) => UNCHANGED <<log, synced, scenario>>
      /\ \A m \in {"normal", "skip"} : open(m) => UNCHANGED <<log, synced, scenario>>
  BY DEF start, open
<1>10. TaskStep /\ ~receipt => UNCHANGED <<log, synced, scenario>>
  BY DEF TaskStep, lock_views, unlock_views, save_view, persist_watermarks, save_attr,
         rebuild_views, catch_up, reset_watermarks, open_attr, replay_attr, mark, destroy_key,
         scan_attr, swap_attr, unmark, exit, Stopped
<1>11. CASE UNCHANGED <<log, synced, scenario>>
  BY <1>2, <1>11
<1> QED BY <1>2, <1>3, <1>4, <1>5, <1>6, <1>7, <1>8, <1>9, <1>10, <1>11 DEF Next

LEMMA SourceNext ==
  ASSUME LogKept, EngineTypeOK, SourceInv, [Next]_vars
  PROVE  SourceInv'
<1> DEFINE Sourced(t) == \A v \in Views, id \in Ids : t[v][id] > 0 => HasId(id)'
           Calls == \A c \in Appenders : call'[c].at # "idle" => HasId(call[c].ev.id)'
           Saved == \A v \in Views, id \in Ids : ckpt'[v].times[id] > 0 => HasId(id)'
<1>1. /\ \A id : HasId(id) => HasId(id)'
      /\ (scenario.policy = "always" => synced = Len(log))'
  BY LogKeptNext
<1>2. SUFFICES Sourced(times') /\ Calls /\ Saved
  BY <1>1 DEF SourceInv
<1>3. /\ times' = times => Sourced(times')
      /\ ckpt' = ckpt => Saved
      /\ call' = call => Calls
  BY <1>1 DEF SourceInv
<1>4. CASE UNCHANGED <<times, ckpt, call>>
  BY <1>3, <1>4
<1>5. ASSUME NEW c \in Appenders,
             (\E hvm \in BOOLEAN : append(c, hvm)) \/ (\E key \in Keys : append_idempotent(c, key))
      PROVE  Sourced(times') /\ Calls /\ Saved
  <2>1. PICK key \in Keys \cup {NoKey}, hvm \in BOOLEAN : Logged(c, key, hvm)
    BY <1>5, AppendsLogged
  <2>2. UNCHANGED <<times, ckpt>>
    BY <2>1 DEF Logged, ram, disk
  <2>3. ASSUME NEW d \in Appenders, call'[d].at # "idle"
        PROVE  HasId(call[d].ev.id)'
    <3>1. CASE call'[d] = call[d]
      BY <1>1, <2>3, <3>1 DEF SourceInv
    <3>2. CASE call'[d] # call[d]
      <4>1. call'[d] # Idle
        BY <2>3 DEF Idle
      <4> QED BY <2>1, <3>2, <4>1, LoggedType
    <3> QED BY <3>1, <3>2
  <2> QED BY <1>3, <2>2, <2>3
<1>6. ASSUME NEW c \in Appenders, index_views(c)
      PROVE  Sourced(times') /\ Calls /\ Saved
  <2>1. PICK e : e = call[c].ev.id
    OBVIOUS
  <2>2. /\ e \in Ids /\ HasId(e) /\ ckpt' = ckpt
        /\ times' = [v \in Views |-> Applied(v, times[v], e)]
        /\ call' = [call EXCEPT ![c].at = "attr"]
    BY <1>6, <2>1 DEF index_views, EngineTypeOK, SourceInv, disk
  <2>3. ASSUME NEW v \in Views, NEW id \in Ids, times'[v][id] > 0
        PROVE  HasId(id)'
    <3>1. times[v] \in Counts /\ Applied(v, times[v], e)[id] > 0
      BY <2>2, <2>3 DEF EngineTypeOK
    <3>2. times[v][id] > 0 \/ id = e
      BY <2>2, <3>1, AppliedType
    <3> QED BY <1>1, <2>2, <3>2 DEF SourceInv
  <2>4. Calls
    <3>1. \A d \in Appenders :
            call'[d].ev = call[d].ev /\ (call'[d].at # "idle" => call[d].at # "idle")
      BY <1>6, <2>2 DEF EngineTypeOK, Call, index_views
    <3> QED BY <1>1, <3>1 DEF SourceInv
  <2> QED BY <1>3, <2>2, <2>3, <2>4
<1>7. ASSUME NEW c \in Appenders, index_attr(c)
      PROVE  Sourced(times') /\ Calls /\ Saved
  <2>1. UNCHANGED <<times, ckpt>> /\ call' = [call EXCEPT ![c] = Idle] /\ Idle.at = "idle"
    BY <1>7 DEF index_attr, disk, Idle
  <2>2. \A d \in Appenders : call'[d].at # "idle" => call'[d] = call[d]
    BY <2>1 DEF EngineTypeOK
  <2>3. Calls
    BY <1>1, <2>2 DEF SourceInv
  <2> QED BY <1>3, <2>1, <2>3
<1>8. CASE Stopped
  <2>1. UNCHANGED ckpt /\ \A v \in Views, id \in Ids : times'[v][id] = 0
    BY <1>8 DEF Stopped, NoTimes, disk
  <2>2. Calls
    BY <1>8 DEF Stopped, Idle
  <2> QED BY <1>3, <2>1, <2>2
<1>9. CASE save_view
  <2>1. UNCHANGED <<times, call>>
    BY <1>9 DEF save_view, ram
  <2>2. PICK v : v = Head(todo).view
    OBVIOUS
  <2>3. PICK k : k = [present |-> TRUE, times |-> times[v], clear |-> v \in clear]
    OBVIOUS
  <2>4. ckpt' = [ckpt EXCEPT ![v] = k] /\ k.times = times[v]
    BY <1>9, <2>2, <2>3 DEF save_view
  <2>5. ASSUME NEW w \in Views, NEW id \in Ids, ckpt'[w].times[id] > 0
        PROVE  HasId(id)'
    <3>1. CASE w = v
      BY <1>1, <2>4, <2>5, <3>1 DEF SourceInv, EngineTypeOK
    <3>2. CASE w # v
      BY <1>1, <2>4, <2>5, <3>2 DEF SourceInv, EngineTypeOK
    <3> QED BY <3>1, <3>2
  <2> QED BY <1>3, <2>1, <2>5
<1>10. CASE rebuild_views
  <2>1. UNCHANGED <<ckpt, call>>
    BY <1>10 DEF rebuild_views, disk
  <2>2. ASSUME NEW v \in Views, NEW id \in Ids, times'[v][id] > 0
        PROVE  HasId(id)'
    <3>1. NoTimes[v] \in Counts /\ NoLsn \in Lsns /\ NoTimes[v][id] = 0
      BY DEF NoTimes, Counts, Lsns
    <3>2. ReplayedTimes(v, NoTimes[v], NoLsn)[id] > 0
      BY <1>10, <2>2 DEF rebuild_views
    <3>3. HasId(id)
      BY <3>1, <3>2, ReplayedType
    <3> QED BY <1>1, <3>3
  <2> QED BY <1>3, <2>1, <2>2
<1>11. CASE catch_up
  <2>1. UNCHANGED <<ckpt, call>>
    BY <1>11 DEF catch_up, disk
  <2>2. ASSUME NEW v \in Views, NEW id \in Ids, times'[v][id] > 0
        PROVE  HasId(id)'
    <3>1. Restored(v) \in Lsns /\ ckpt[v].times \in Counts
      BY RestoredType
    <3>2. ReplayedTimes(v, ckpt[v].times, Restored(v))[id] > 0
      BY <1>11, <2>2 DEF catch_up
    <3>3. ckpt[v].times[id] > 0 \/ HasId(id)
      BY <3>1, <3>2, ReplayedType
    <3> QED BY <1>1, <3>3 DEF SourceInv
  <2> QED BY <1>3, <2>1, <2>2
<1>12. CASE receipt
  <2>1. UNCHANGED <<ckpt, call>>
    BY <1>12 DEF receipt, disk
  <2>2. CASE UNCHANGED <<log, nextId, synced, times, watermarks, attr>>
    BY <1>3, <2>1, <2>2
  <2>3. CASE ~UNCHANGED <<log, nextId, synced, times, watermarks, attr>>
    <3>1. PICK e \in Ids : HasId(e)' /\ times' = [v \in Views |-> Applied(v, times[v], e)]
      BY <1>12, <2>3, ReceiptLog
    <3>2. ASSUME NEW v \in Views, NEW id \in Ids, times'[v][id] > 0
          PROVE  HasId(id)'
      <4>1. times[v] \in Counts /\ Applied(v, times[v], e)[id] > 0
        BY <3>1, <3>2 DEF EngineTypeOK
      <4>2. times[v][id] > 0 \/ id = e
        BY <4>1, AppliedType
      <4> QED BY <1>1, <3>1, <4>2 DEF SourceInv
    <3> QED BY <1>3, <2>1, <3>2
  <2> QED BY <2>2, <2>3
<1>13. TaskStep => \/ save_view \/ rebuild_views \/ catch_up \/ receipt \/ Stopped
                   \/ UNCHANGED <<times, ckpt, call>>
  BY DEF TaskStep, lock_views, unlock_views, persist_watermarks, save_attr, reset_watermarks,
         open_attr, replay_attr, mark, destroy_key, scan_attr, swap_attr, unmark, exit, ram, disk
<1>14. /\ log_fsync \/ UNCHANGED vars => UNCHANGED <<times, ckpt, call>>
       /\ \A o \in Maintenance : start(o) => UNCHANGED <<times, ckpt, call>>
       /\ \A m \in {"normal", "skip"} : open(m) => UNCHANGED <<times, ckpt, call>>
  BY DEF log_fsync, start, open, vars, ram, disk
<1>15. crash => Stopped
  BY DEF crash
<1> QED
  BY <1>4, <1>5, <1>6, <1>7, <1>8, <1>9, <1>10, <1>11, <1>12, <1>13, <1>14, <1>15 DEF Next

EngineInv == EngineTypeOK /\ TaskInv /\ ErasureInv /\ SourceInv

-----------------------------------------------------------------------------
(* What the derived state misses.  A view misses an episode only while a    *)
(* caller is about to apply it; a saved view misses none of those its saved *)
(* watermark covers, unless a step that saves it is still to come and no    *)
(* crash can fall before that step, or the marker makes the next boot       *)
(* rebuild it.                                                              *)

\* Where an incomplete view can be saved: a boot and a rebuild persist the
\* watermarks before the snapshots they are about, a checkpoint or a shutdown
\* beside two appends may save a watermark above the one that has yet to be
\* applied, and a server that skipped the replay saves what it never loaded.
BootsWhole ==
  \A s \in Scenarios : s.crashAt # {} => "open" \notin s.crashAt /\ "rebuild" \notin s.ops
\* Every shutdown is followed by a boot, a checkpoint only where a crash is.
CheckpointsSettled ==
  \A s \in Scenarios, o \in {"checkpoint", "shutdown"} :
    o \in s.ops /\ (o = "shutdown" \/ s.crashAt # {}) => o \in s.quiet \/ s.writers <= 1
SkipSavesNothing ==
  \A s \in Scenarios :
    "skip" \in s.boots => "checkpoint" \notin s.ops /\ "shutdown" \notin s.ops
SkipHasNoKeys == \A s \in Scenarios : "skip" \in s.boots => s.keys = {}
\* The state t of a view has the episode at lsn, and those up to wm.
Holds(t, lsn) == t[log[lsn + 1].id] >= 1
UpTo(t, wm) == \A lsn \in Indexable(0) : lsn <= wm => Holds(t, lsn)
CallAt(ats, lsn) == \E c \in Appenders : call[c].at \in ats /\ call[c].lsn = lsn

\* Callers know their episode, and who may be there beside an operation.
CallsInv ==
  /\ \A c \in Appenders : call[c].at # "idle" =>
       /\ call[c].lsn \in 0..(Len(log) - 1) /\ log[call[c].lsn + 1] = call[c].ev
       /\ ~call[c].ev.hvm
  /\ op \in {"open", "privacy_open"} => InFlight = {}
  /\ op \in {"checkpoint", "shutdown"} /\ op \in scenario.quiet => InFlight = {}
  /\ scenario.writers <= 1 => \A c, d \in InFlight : c = d

\* What the scenario, the marker and the steps that are left say of each other.
PlanInv ==
  /\ op \in Maintenance => op \in scenario.ops
  /\ mode = "skip" => "skip" \in scenario.boots
  /\ marker /\ mode # "down" => Step1("unmark") \in Left
  /\ op \in {"shred", "privacy_open"} => marker \/ Step1("mark") \in Left
  /\ op = "open" /\ mode = "skip" => Left \subseteq {Step1("reset_watermarks"), Step1("open_attr")}
  /\ op = "open" /\ mode = "normal" => Step1("reset_watermarks") \notin Left
  /\ mode = "normal" /\ Step1("open_attr") \in Left => Step1("replay_attr") \in Left
  /\ Step1("catch_up") \in Left =>
       watermarks = wm_file /\ \A v \in Views : Save(v) \in Left
  /\ \A v \in Views : watermarks[v] < Len(log) /\ wm_file[v] < Len(log)

\* The views have been caught up or rebuilt by this process.
ViewsLoaded ==
  \/ /\ mode = "normal" /\ Step1("catch_up") \notin Left
     /\ op = "privacy_open" => Step1("rebuild") \notin Left
  \/ mode = "skip" /\ op \in {"shred", "privacy_open"} /\ Step1("rebuild") \notin Left
LoadedInv ==
  ViewsLoaded => \A v \in Views, lsn \in Indexable(0) : Holds(times[v], lsn) \/ CallAt({"views"}, lsn)

\* One writer is always ahead of the watermarks.
AheadInv ==
  scenario.writers <= 1 =>
    \A c \in Appenders, v \in Views : call[c].at = "views" =>
      \/ Holds(times[v], call[c].lsn)
      \/ watermarks[v] < call[c].lsn /\ wm_file[v] < call[c].lsn

\* A snapshot and the watermark beside it, on disk and about to be.
Saved(v) == ckpt[v].present => UpTo(ckpt[v].times, wm_file[v])
Excused(v) ==
  \/ /\ marker
     /\ mode = "down" \/ Save(v) \in Left \/ (op = "privacy_open" /\ Step1("rebuild") \in Left)
  \/ op = "open" /\ Step1("catch_up") \notin Left /\ Save(v) \in Left
  \/ /\ scenario.crashAt = {} /\ mode # "down" /\ Step1("catch_up") \notin Left
     /\ op = "shutdown" => Save(v) \in Left
SavedInv == \A v \in Views : Saved(v) \/ Excused(v)
Checkpointing ==
  /\ op \in {"checkpoint", "shutdown", "shred", "open", "privacy_open"}
  /\ op = "checkpoint" => scenario.crashAt # {}
FreshInv ==
  Checkpointing /\ Step1("persist_watermarks") \in Left =>
    \A v \in Views : Save(v) \in Left \/ UpTo(ckpt[v].times, watermarks[v])

ViewsInv == LoadedInv /\ AheadInv /\ SavedInv /\ FreshInv

\* The attribute index.
Posted(a, lsn) == <<lsn, log[lsn + 1].key>> \in a.posts
Whole(a) == \A lsn \in Indexable(0) : Posted(a, lsn)
Resumable(a) == \A lsn \in Indexable(0) : lsn < AttrFrom(a) => Posted(a, lsn)
AttrLoaded == mode = "normal" /\ Step1("open_attr") \notin Left /\ Step1("replay_attr") \notin Left
AttrTyped(a) == a.wm \in 0..Len(log)
AttrTypes == AttrTyped(attr) /\ AttrTyped(attr_file) /\ AttrTyped(rebuilt)
AttrReached ==
  AttrLoaded => \A lsn \in Indexable(0) : Posted(attr, lsn) \/ CallAt({"views", "attr"}, lsn)
AttrAhead ==
  scenario.writers <= 1 =>
    \A c \in Appenders : call[c].at # "idle" => AttrFrom(attr) <= call[c].lsn
AttrSteps ==
  /\ Step1("replay_attr") \in Left /\ Step1("open_attr") \notin Left => Resumable(attr)
  /\ Step1("swap_attr") \in Left /\ Step1("scan_attr") \notin Left => Whole(rebuilt)
  /\ mode = "down" \/ (op = "privacy_open" /\ mode = "skip") => Resumable(attr)
AttrExcused ==
  /\ scenario.crashAt = {} /\ mode # "down" /\ Step1("open_attr") \notin Left
  /\ op = "shutdown" => Step1("save_attr") \in Left
AttrSaved == Resumable(attr_file) \/ AttrExcused
KeysInv == KeyOnce /\ \A i \in 1..Len(log) : log[i].hvm => log[i].key = NoKey
AttrInv == AttrTypes /\ AttrReached /\ AttrAhead /\ AttrSteps /\ AttrSaved /\ KeysInv

LEMMA LsnType ==
  ASSUME EngineTypeOK
  PROVE  \A lsn \in Indexable(0) : /\ lsn \in 0..(Len(log) - 1) /\ lsn + 1 \in 1..Len(log)
                                   /\ log[lsn + 1] \in Entry /\ log[lsn + 1].id \in Ids
<1>1. Len(log) \in Nat /\ \A i \in 1..Len(log) : log[i] \in Entry
  BY LogType
<1>2. \A e \in Entry : e.id \in Ids
  BY DEF Entry
<1> QED BY <1>1, <1>2 DEF Indexable

\* The log is only ever extended.
Extends == /\ Len(log) <= Len(log') /\ Len(log') <= Len(log) + 1
           /\ \A i \in 1..Len(log) : log'[i] = log[i]

LEMMA AppendExtends ==
  ASSUME EngineTypeOK, NEW ev \in Entry, log' = Append(log, ev)
  PROVE  Extends /\ Len(log') = Len(log) + 1 /\ log'[Len(log) + 1] = ev
<1>1. log \in Seq(Entry) /\ Len(log) \in Nat
  BY LogType DEF EngineTypeOK
<1>2. /\ Len(log') = Len(log) + 1 /\ log'[Len(log) + 1] = ev
      /\ \A i \in 1..Len(log) : log'[i] = log[i]
  BY <1>1, AppendProperties
<1> QED BY <1>1, <1>2 DEF Extends

LEMMA LoggedExtends ==
  ASSUME EngineTypeOK, NEW c \in Appenders, NEW key \in Keys \cup {NoKey}, NEW hvm \in BOOLEAN,
         Logged(c, key, hvm)
  PROVE  /\ Extends /\ Len(log') = Len(log) + 1
         /\ log'[Len(log) + 1] = [id |-> nextId + 1, key |-> key, hvm |-> hvm]
         /\ \A d \in Appenders : d # c => call'[d] = call[d]
         /\ IF hvm THEN call'[c] = Idle
            ELSE /\ call'[c].at = "views" /\ call'[c].lsn = Len(log)
                 /\ call'[c].ev = log'[Len(log) + 1] /\ call'[c] # Idle
<1>1. PICK ev : ev = [id |-> nextId + 1, key |-> key, hvm |-> hvm]
  OBVIOUS
<1>2. PICK new : new = [at |-> "views", lsn |-> Len(log), clear |-> ~shredded, ev |-> ev]
  OBVIOUS
<1>3. /\ nextId < scenario.ids /\ log' = Append(log, ev)
      /\ call' = [call EXCEPT ![c] = IF hvm THEN Idle ELSE new]
  BY <1>1, <1>2 DEF Logged
<1>4. nextId + 1 \in Ids
  BY <1>3, ScenarioType DEF EngineTypeOK, Ids
<1>5. ev \in Entry
  BY <1>1, <1>4 DEF Entry
<1>6. Extends /\ Len(log') = Len(log) + 1 /\ log'[Len(log) + 1] = ev
  BY <1>3, <1>5, AppendExtends
<1>7. \A d \in Appenders : call'[d] = IF d = c THEN (IF hvm THEN Idle ELSE new) ELSE call[d]
  BY <1>3 DEF EngineTypeOK
<1>8. new.at = "views" /\ new.lsn = Len(log) /\ new.ev = ev /\ Idle.at = "idle"
  BY <1>2 DEF Idle
<1> QED BY <1>1, <1>6, <1>7, <1>8

LEMMA ReceiptExtends ==
  ASSUME EngineTypeOK, receipt
  PROVE  \/ UNCHANGED <<log, nextId, synced, times, watermarks, attr>>
         \/ /\ Extends /\ Len(log') = Len(log) + 1
            /\ log'[Len(log) + 1] = [id |-> nextId + 1, key |-> NoKey, hvm |-> FALSE]
            /\ nextId + 1 \in Ids
            /\ times' = [v \in Views |-> Applied(v, times[v], nextId + 1)]
            /\ watermarks' = [v \in Views |-> AdvancedWm(watermarks[v], Len(log))]
            /\ attr' = AttrApplied(attr, Len(log), NoKey, FALSE)
<1>1. CASE ~(nextId < scenario.ids)
  BY <1>1 DEF receipt
<1>2. CASE nextId < scenario.ids
  <2>1. PICK ev : ev = [id |-> nextId + 1, key |-> NoKey, hvm |-> FALSE]
    OBVIOUS
  <2>2. /\ log' = Append(log, ev)
        /\ times' = [v \in Views |-> Applied(v, times[v], nextId + 1)]
        /\ watermarks' = [v \in Views |-> AdvancedWm(watermarks[v], Len(log))]
        /\ attr' = AttrApplied(attr, Len(log), NoKey, FALSE)
    BY <1>2, <2>1 DEF receipt
  <2>3. nextId + 1 \in Ids
    BY <1>2, ScenarioType DEF EngineTypeOK, Ids
  <2>4. ev \in Entry
    BY <2>1, <2>3 DEF Entry
  <2> QED BY <2>1, <2>2, <2>3, <2>4, AppendExtends
<1> QED BY <1>1, <1>2

LEMMA ExtendsNext ==
  ASSUME LogKept, EngineInv, [Next]_vars
  PROVE  Extends
<1> USE DEF EngineInv
<1>1. Len(log) \in Nat /\ log \in Seq(Entry) /\ synced \in 0..Len(log)
  BY LogType DEF EngineTypeOK
<1>2. CASE log' = log
  BY <1>1, <1>2 DEF Extends
<1>3. ASSUME NEW c \in Appenders,
             (\E hvm \in BOOLEAN : append(c, hvm)) \/ (\E key \in Keys : append_idempotent(c, key))
      PROVE  Extends
  BY <1>3, AppendsLogged, LoggedExtends
<1>4. CASE receipt
  BY <1>2, <1>4, ReceiptExtends
<1>5. CASE crash
  <2>1. PICK n \in synced..Len(log) : log' = SubSeq(log, 1, n) /\ synced' = n
    BY <1>5 DEF crash
  <2>2. scenario.policy = "always"
    BY <1>5 DEF crash, LogKept, EngineTypeOK
  <2>3. n = Len(log)
    BY <1>1, <2>1, <2>2 DEF SourceInv
  <2>4. Len(log') = n /\ \A i \in 1..n : log'[i] = log[i]
    BY <1>1, <2>1, <2>3, PrefixType
  <2> QED BY <1>1, <2>3, <2>4 DEF Extends
<1>6. log_fsync \/ UNCHANGED vars => log' = log
  BY DEF log_fsync, vars
<1>7. \A c \in Appenders : index_views(c) \/ index_attr(c) => log' = log
  BY DEF index_views, index_attr
<1>8. /\ \A o \in Maintenance : start(o) => log' = log
      /\ \A m \in {"normal", "skip"} : open(m) => log' = log
  BY DEF start, open
<1>9. TaskStep /\ ~receipt => log' = log
  BY DEF TaskStep, lock_views, unlock_views, save_view, persist_watermarks, save_attr,
         rebuild_views, catch_up, reset_watermarks, open_attr, replay_attr, mark, destroy_key,
         scan_attr, swap_attr, unmark, exit
<1> QED BY <1>2, <1>3, <1>4, <1>5, <1>6, <1>7, <1>8, <1>9 DEF Next

\* What is in the log stays there, under its LSN.
LEMMA LsnKept ==
  ASSUME EngineTypeOK, Extends
  PROVE  /\ Len(log) \in Nat /\ Len(log') \in Nat
         /\ \A lsn \in 0..(Len(log) - 1) :
              lsn \in 0..(Len(log') - 1) /\ log'[lsn + 1] = log[lsn + 1]
         /\ \A lsn \in Indexable(0)' :
              \/ lsn \in Indexable(0) /\ log'[lsn + 1] = log[lsn + 1]
              \/ lsn = Len(log) /\ Len(log') = Len(log) + 1 /\ ~log'[Len(log) + 1].hvm
<1>1. Len(log) \in Nat /\ Len(log') \in Nat
  <2>1. Len(log) \in Nat
    BY LogType
  <2>2. Len(log') = Len(log) \/ Len(log') = Len(log) + 1
    BY <2>1 DEF Extends
  <2> QED BY <2>1, <2>2
<1>2. \A lsn \in 0..(Len(log) - 1) :
        lsn + 1 \in 1..Len(log) /\ lsn \in 0..(Len(log') - 1) /\ log'[lsn + 1] = log[lsn + 1]
  BY <1>1 DEF Extends
<1>3. ASSUME NEW lsn \in Indexable(0)'
      PROVE  \/ lsn \in Indexable(0) /\ log'[lsn + 1] = log[lsn + 1]
             \/ lsn = Len(log) /\ Len(log') = Len(log) + 1 /\ ~log'[Len(log) + 1].hvm
  <2>1. lsn \in 0..(Len(log') - 1) /\ ~log'[lsn + 1].hvm
    BY <1>3 DEF Indexable
  <2>2. CASE lsn \in 0..(Len(log) - 1)
    BY <1>2, <2>1, <2>2 DEF Indexable
  <2>3. CASE ~(lsn \in 0..(Len(log) - 1))
    <3>1. lsn = Len(log) /\ Len(log') = Len(log) + 1
      BY <1>1, <2>1, <2>3 DEF Extends
    <3> QED BY <2>1, <3>1
  <2> QED BY <2>2, <2>3
<1> QED BY <1>1, <1>2, <1>3

-----------------------------------------------------------------------------
(* One step of an operation.                                                *)

\* What is left after a step, and what the order says is behind it.
LEMMA AfterStep ==
  ASSUME TaskInv, NEW d \in Dos, EffectOf(d)
  PROVE  /\ Head(todo) \in Left /\ Head(todo).do = d /\ Left' \subseteq Left
         /\ d \in StepsOf(op) /\ (mode = "down" => d = "exit")
         /\ op' = op \/ (op' = "none" /\ Left' = {})
         /\ \A e : Step1(e) \in Left => e = d \/ Step1(e) \in Left'
         /\ \A v : Save(v) \in Left => Save(v) = Head(todo) \/ Save(v) \in Left'
         /\ \A e : Step1(e) \in Left => Rank(d) <= Rank(e) /\ e \in StepsOf(op)
         /\ \A e : Step1(e) \in Left' => Precedes(d, e)
         /\ \A v : Save(v) \in Left => Rank(d) <= 5
         /\ \A e : Step1(e) \in Sure(op) /\ Rank(d) < Rank(e) => Step1(e) \in Left'
         /\ \A v : Save(v) \in Sure(op) /\ Rank(d) < 5 => Save(v) \in Left'
         /\ d # "save" => Head(todo) = Step1(d) /\ \A v : Save(v) # Head(todo)
<1>1. TodoInv /\ Step(d)
  BY DEF TaskInv, EffectOf
<1>2. /\ d \in StepsOf(op) /\ Head(todo) \in Item
      /\ Head(todo).do = d /\ Left = {Head(todo)} \cup Left'
      /\ \A x \in Left' : Precedes(d, x.do)
      /\ \A y \in Sure(op) : Rank(d) < Rank(y.do) => y \in Left'
  BY <1>1, StepTodo
<1>3. /\ \A e : Step1(e) \in Left => Rank(d) <= Rank(e) /\ e \in StepsOf(op)
      /\ \A v : Save(v) \in Left => Rank(d) <= 5
      /\ \A e : Step1(e) \in Left => e = d \/ Step1(e) \in Left'
      /\ \A v : Save(v) \in Left => Save(v) = Head(todo) \/ Save(v) \in Left'
  BY <1>1, Ahead
<1>4. (\A e : Step1(e).do = e) /\ \A v : Save(v).do = "save"
  BY DEF Step1, Save
<1>5. d # "save" => Head(todo) = Step1(d)
  <2>1. \A x \in Saving : x.do = "save"
    BY DoOf
  <2> QED BY <1>2, <1>4, <2>1 DEF Item
<1>6. op' = op \/ (op' = "none" /\ Left' = {})
  <2>1. CASE Tail(todo) = <<>>
    BY <1>1, <2>1, NoSteps DEF Step, Left
  <2>2. CASE Tail(todo) # <<>>
    BY <1>1, <2>2 DEF Step
  <2> QED BY <2>1, <2>2
<1>7. mode = "down" => d = "exit"
  BY <1>2 DEF TaskInv
<1>8. \A v : Save(v) \in Sure(op) /\ Rank(d) < 5 => Save(v) \in Left'
  BY <1>2, <1>4, Ranks
<1>9. \A e : Step1(e) \in Sure(op) /\ Rank(d) < Rank(e) => Step1(e) \in Left'
  BY <1>2, <1>4
<1>10. \A e : Step1(e) \in Left' => Precedes(d, e)
  BY <1>2, <1>4
<1>11. d # "save" => \A v : Save(v) # Head(todo)
  BY <1>2, <1>4
<1> QED BY <1>2, <1>3, <1>5, <1>6, <1>7, <1>8, <1>9, <1>10, <1>11

\* The order, step by step.
LEMMA Order ==
  ASSUME TaskInv, NEW d \in Dos, EffectOf(d)
  PROVE  /\ d \in {"save", "persist_watermarks"} =>
              Step1("rebuild") \notin Left /\ Step1("catch_up") \notin Left
         /\ d \in {"unmark", "exit"} =>
              /\ Left' = {} /\ op' = "none"
              /\ Step1("rebuild") \notin Left /\ Step1("save_attr") \notin Left
              /\ \A v : Save(v) \notin Left
         /\ Step1("catch_up") \notin Left'
         /\ Step1("persist_watermarks") \in Left' =>
              d \in {"mark", "destroy_key", "lock", "rebuild", "catch_up", "reset_watermarks",
                     "save", "persist_watermarks"}
         /\ d = "rebuild" => \A v : Save(v) \in Sure(op) => Save(v) \in Left'
         /\ d \notin {"mark", "destroy_key", "lock"} =>
              Step1("mark") \notin Left' /\ Step1("destroy_key") \notin Left'
<1>1. /\ Left' \subseteq Left /\ d \in StepsOf(op)
      /\ \A e : Step1(e) \in Left => Rank(d) <= Rank(e) /\ e \in StepsOf(op)
      /\ \A e : Step1(e) \in Left' => Precedes(d, e)
      /\ \A v : Save(v) \in Left => Rank(d) <= 5
      /\ op' = op \/ (op' = "none" /\ Left' = {})
  BY AfterStep
<1>2. d \in {"save", "persist_watermarks"} =>
        Step1("rebuild") \notin Left /\ Step1("catch_up") \notin Left
  <2>1. ASSUME d \in {"save", "persist_watermarks"}
        PROVE  Rank(d) = 5 /\ Rank("rebuild") = 4 /\ Rank("catch_up") = 4
    BY <2>1, Ranks
  <2>2. ~(5 <= 4)
    OBVIOUS
  <2> QED BY <1>1, <2>1, <2>2
<1>3. ASSUME d \in {"unmark", "exit"}
      PROVE  /\ Left' = {} /\ op' = "none"
             /\ Step1("rebuild") \notin Left /\ Step1("save_attr") \notin Left
             /\ \A v : Save(v) \notin Left
  <2>1. Rank(d) = 11 /\ Rank("rebuild") = 4 /\ Rank("save_attr") = 10
    BY <1>3, Ranks
  <2>2. Left' = {}
    <3>1. ASSUME NEW x \in Left'
          PROVE  FALSE
      <4>1. TodoInv' /\ Precedes(d, x.do)
        BY <3>1, StepTodo DEF TaskInv, EffectOf
      <4>2. Rank(x.do) <= 11 /\ Rank(x.do) \in Nat
        <5>1. Rank(x.do) <= 11
          BY <3>1, <4>1 DEF TodoInv, Remaining, Listed, Left
        <5>2. Rank(x.do) \in 0..11
          BY RankType
        <5> QED BY <5>1, <5>2
      <4> QED BY <2>1, <4>1, <4>2 DEF Precedes
    <3> QED BY <3>1
  <2>3. op' = "none"
    <3>1. todo' \in Seq(Item) /\ (todo' = <<>> <=> op' = "none")
      BY StepTodo DEF TaskInv, EffectOf, TodoInv, Remaining, Listed
    <3>2. ASSUME todo' # <<>>
          PROVE  FALSE
      <4>1. Len(todo') \in Nat /\ Len(todo') # 0
        BY <3>1, <3>2, EmptySeq, LenProperties
      <4>2. 1 \in 1..Len(todo')
        BY <4>1
      <4>3. todo'[1] \in Items(todo')
        BY <3>1, <4>2, ItemSeq
      <4> QED BY <2>2, <4>3 DEF Left
    <3> QED BY <3>1, <3>2
  <2>4. ~(11 <= 4) /\ ~(11 <= 10) /\ ~(11 <= 5)
    OBVIOUS
  <2> QED BY <1>1, <2>1, <2>2, <2>3, <2>4
<1>4. Step1("catch_up") \notin Left'
  <2>1. SUFFICES ASSUME Step1("catch_up") \in Left' PROVE FALSE
    OBVIOUS
  <2>2. "catch_up" \in StepsOf(op) /\ Precedes(d, "catch_up")
    BY <1>1, <2>1
  <2>3. op = "open"
    BY <2>2 DEF StepsOf
  <2>4. d \in {"catch_up", "persist_watermarks", "save", "open_attr", "replay_attr",
               "reset_watermarks"}
    BY <1>1, <2>3 DEF StepsOf
  <2>5. Rank(d) >= 4
    BY <2>4, Ranks
  <2> QED BY <2>2, <2>5, Ranks, RankType DEF Precedes
<1>5. ASSUME Step1("persist_watermarks") \in Left'
      PROVE  d \in {"mark", "destroy_key", "lock", "rebuild", "catch_up", "reset_watermarks",
                    "save", "persist_watermarks"}
  <2>1. Rank(d) <= 5
    BY <1>1, <1>5, Ranks
  <2>2. d \in {"unlock", "open_attr", "scan_attr", "replay_attr", "swap_attr", "receipt",
               "save_attr", "unmark", "exit"} => Rank(d) >= 6
    BY Ranks
  <2> QED BY <2>1, <2>2, RankType DEF Dos
<1>6. d = "rebuild" => \A v : Save(v) \in Sure(op) => Save(v) \in Left'
  BY AfterStep, Ranks
<1>7. ASSUME d \notin {"mark", "destroy_key", "lock"}
      PROVE  Step1("mark") \notin Left' /\ Step1("destroy_key") \notin Left'
  <2>1. Rank(d) >= 4
    BY <1>7, Ranks DEF Dos
  <2>2. Rank("mark") = 1 /\ Rank("destroy_key") = 2
    BY Ranks
  <2> QED BY <1>1, <2>1, <2>2, RankType
<1> QED BY <1>2, <1>3, <1>4, <1>5, <1>6, <1>7

\* What a step does, to the views and to the attribute index.
Does(d) ==
  /\ EffectOf(d)
  /\ d # "receipt" => log' = log
  /\ d \notin {"rebuild", "catch_up", "receipt", "exit"} => times' = times
  /\ d \notin {"rebuild", "catch_up", "reset_watermarks", "receipt", "exit"} =>
       watermarks' = watermarks
  /\ d # "save" => ckpt' = ckpt
  /\ d # "persist_watermarks" => wm_file' = wm_file
  /\ d \notin {"open_attr", "replay_attr", "swap_attr", "receipt", "exit"} => attr' = attr
  /\ d \notin {"replay_attr", "scan_attr", "save_attr"} => attr_file' = attr_file
  /\ d \notin {"scan_attr", "swap_attr", "exit"} => rebuilt' = rebuilt
  /\ CASE d = "rebuild" -> rebuild_views
       [] d = "catch_up" -> catch_up
       [] d = "receipt" -> receipt
       [] d = "save" -> save_view
       [] d = "persist_watermarks" -> wm_file' = watermarks
       [] d = "reset_watermarks" -> watermarks' = NoWatermarks
       [] d = "open_attr" -> attr' = attr_file
       [] d = "replay_attr" -> replay_attr
       [] d = "scan_attr" -> scan_attr
       [] d = "swap_attr" -> attr' = rebuilt /\ rebuilt' = EmptyAttr
       [] d = "save_attr" -> attr_file' = attr
       [] d = "exit" -> Stopped
       [] OTHER -> TRUE

LEMMA TaskDoes ==
  ASSUME EngineTypeOK, TaskStep
  PROVE  \E d \in Dos : Does(d)
<1>1. CASE lock_views
  <2>1. EffectOf("lock")
    BY <1>1, TaskEffects
  <2>2. "lock" \in Dos /\ Does("lock")
    BY <1>1, <2>1 DEF Does, lock_views, Dos, ram, disk
  <2> QED BY <2>2
<1>2. CASE unlock_views
  <2>1. EffectOf("unlock")
    BY <1>2, TaskEffects
  <2>2. "unlock" \in Dos /\ Does("unlock")
    BY <1>2, <2>1 DEF Does, unlock_views, Dos, ram, disk
  <2> QED BY <2>2
<1>3. CASE save_view
  <2>1. EffectOf("save")
    BY <1>3, TaskEffects
  <2>2. "save" \in Dos /\ Does("save")
    BY <1>3, <2>1 DEF Does, save_view, Dos, ram, disk
  <2> QED BY <2>2
<1>4. CASE persist_watermarks
  <2>1. EffectOf("persist_watermarks")
    BY <1>4, TaskEffects
  <2>2. "persist_watermarks" \in Dos /\ Does("persist_watermarks")
    BY <1>4, <2>1 DEF Does, persist_watermarks, Dos, ram, disk
  <2> QED BY <2>2
<1>5. CASE save_attr
  <2>1. EffectOf("save_attr")
    BY <1>5, TaskEffects
  <2>2. "save_attr" \in Dos /\ Does("save_attr")
    BY <1>5, <2>1 DEF Does, save_attr, Dos, ram, disk
  <2> QED BY <2>2
<1>6. CASE rebuild_views
  <2>1. EffectOf("rebuild")
    BY <1>6, TaskEffects
  <2>2. "rebuild" \in Dos /\ Does("rebuild")
    BY <1>6, <2>1 DEF Does, rebuild_views, Dos, ram, disk
  <2> QED BY <2>2
<1>7. CASE catch_up
  <2>1. EffectOf("catch_up")
    BY <1>7, TaskEffects
  <2>2. "catch_up" \in Dos /\ Does("catch_up")
    BY <1>7, <2>1 DEF Does, catch_up, Dos, ram, disk
  <2> QED BY <2>2
<1>8. CASE reset_watermarks
  <2>1. EffectOf("reset_watermarks")
    BY <1>8, TaskEffects
  <2>2. "reset_watermarks" \in Dos /\ Does("reset_watermarks")
    BY <1>8, <2>1 DEF Does, reset_watermarks, Dos, ram, disk
  <2> QED BY <2>2
<1>9. CASE open_attr
  <2>1. EffectOf("open_attr")
    BY <1>9, TaskEffects
  <2>2. "open_attr" \in Dos /\ Does("open_attr")
    BY <1>9, <2>1 DEF Does, open_attr, Dos, ram, disk
  <2> QED BY <2>2
<1>10. CASE replay_attr
  <2>1. EffectOf("replay_attr")
    BY <1>10, TaskEffects
  <2>2. "replay_attr" \in Dos /\ Does("replay_attr")
    BY <1>10, <2>1 DEF Does, replay_attr, Dos, ram, disk
  <2> QED BY <2>2
<1>11. CASE mark
  <2>1. EffectOf("mark")
    BY <1>11, TaskEffects
  <2>2. "mark" \in Dos /\ Does("mark")
    BY <1>11, <2>1 DEF Does, mark, Dos, ram, disk
  <2> QED BY <2>2
<1>12. CASE destroy_key
  <2>1. EffectOf("destroy_key")
    BY <1>12, TaskEffects
  <2>2. "destroy_key" \in Dos /\ Does("destroy_key")
    BY <1>12, <2>1 DEF Does, destroy_key, Dos, ram, disk
  <2> QED BY <2>2
<1>13. CASE scan_attr
  <2>1. EffectOf("scan_attr")
    BY <1>13, TaskEffects
  <2>2. "scan_attr" \in Dos /\ Does("scan_attr")
    BY <1>13, <2>1 DEF Does, scan_attr, Dos, ram, disk
  <2> QED BY <2>2
<1>14. CASE swap_attr
  <2>1. EffectOf("swap_attr")
    BY <1>14, TaskEffects
  <2>2. "swap_attr" \in Dos /\ Does("swap_attr")
    BY <1>14, <2>1 DEF Does, swap_attr, Dos, ram, disk
  <2> QED BY <2>2
<1>15. CASE receipt
  <2>1. EffectOf("receipt")
    BY <1>15, TaskEffects
  <2>2. "receipt" \in Dos /\ Does("receipt")
    BY <1>15, <2>1 DEF Does, receipt, Dos, ram, disk
  <2> QED BY <2>2
<1>16. CASE unmark
  <2>1. EffectOf("unmark")
    BY <1>16, TaskEffects
  <2>2. "unmark" \in Dos /\ Does("unmark")
    BY <1>16, <2>1 DEF Does, unmark, Dos, ram, disk
  <2> QED BY <2>2
<1>17. CASE exit
  <2>1. EffectOf("exit")
    BY <1>17, TaskEffects
  <2>2. "exit" \in Dos /\ Does("exit")
    BY <1>17, <2>1 DEF Does, exit, Dos, ram, disk, Stopped
  <2> QED BY <2>2
<1> QED BY <1>1, <1>2, <1>3, <1>4, <1>5, <1>6, <1>7, <1>8, <1>9,
     <1>10, <1>11, <1>12, <1>13, <1>14, <1>15, <1>16, <1>17 DEF TaskStep

-----------------------------------------------------------------------------
(* The kinds of step there are.                                             *)

Appending(c, key, hvm) ==
  /\ MayStart(c) /\ Logged(c, key, hvm)
  /\ key # NoKey => ~hvm /\ key \in scenario.keys /\ IdempotencyFree /\ KeyLsns(key) = {}

LEMMA NextKinds ==
  ASSUME EngineTypeOK, [Next]_vars
  PROVE  \/ UNCHANGED <<log, ram, disk, task, call>>
         \/ \E c \in Appenders, key \in Keys \cup {NoKey}, hvm \in BOOLEAN : Appending(c, key, hvm)
         \/ \E c \in Appenders : index_views(c)
         \/ \E c \in Appenders : index_attr(c)
         \/ \E o \in Maintenance : start(o)
         \/ \E m \in {"normal", "skip"} : open(m)
         \/ \E d \in Dos : Does(d)
         \/ crash
<1>1. ASSUME NEW c \in Appenders, NEW hvm \in BOOLEAN, append(c, hvm)
      PROVE  Appending(c, NoKey, hvm)
  BY <1>1 DEF append, Appending
<1>2. ASSUME NEW c \in Appenders, NEW key \in Keys, append_idempotent(c, key)
      PROVE  Appending(c, key, FALSE)
  BY <1>2 DEF append_idempotent, Appending
<1>3. log_fsync \/ UNCHANGED vars => UNCHANGED <<log, ram, disk, task, call>>
  BY DEF log_fsync, vars
<1>4. CASE \E c \in Appenders, hvm \in BOOLEAN : append(c, hvm)
  BY <1>1, <1>4
<1>5. CASE \E c \in Appenders, key \in Keys : append_idempotent(c, key)
  BY <1>2, <1>5
<1>6. CASE TaskStep
  BY <1>6, TaskDoes
<1> QED BY <1>3, <1>4, <1>5, <1>6 DEF Next

\* The number of appenders that are in a call.
LEMMA NoneInFlight ==
  ASSUME CallsInv, scenario.writers <= 1, scenario.writers \in Nat,
         Cardinality(InFlight) < scenario.writers
  PROVE  InFlight = {}
<1>1. CASE InFlight # {}
  <2>1. PICK c : c \in InFlight
    BY <1>1
  <2>2. InFlight = {c}
    BY <2>1 DEF CallsInv
  <2>3. Cardinality({c}) = 1
    BY FS_Singleton
  <2> QED BY <2>2, <2>3
<1> QED BY <1>1

\* No append begins beside a boot, a quiet operation or, with one writer,
\* another append.
LEMMA Starts ==
  ASSUME ShredQuiet, EngineTypeOK, TaskInv, CallsInv, NEW c \in Appenders, MayStart(c)
  PROVE  /\ call[c] = Idle /\ op \notin {"open", "privacy_open", "shred"}
         /\ mode # "down" /\ op \notin scenario.quiet
         /\ scenario.writers <= 1 => InFlight = {}
<1>1. call[c] = Idle /\ Serving /\ op \notin scenario.quiet
  BY DEF MayStart
<1>2. op # "shred"
  BY <1>1 DEF TaskInv, ShredQuiet, EngineTypeOK
<1>3. scenario.writers \in Nat
  BY EngineAssumption DEF EngineTypeOK, Scenario
<1>4. scenario.writers <= 1 => InFlight = {}
  BY <1>3, NoneInFlight DEF MayStart
<1> QED BY <1>1, <1>2, <1>4 DEF Serving

LEMMA CallsKept ==
  ASSUME EngineTypeOK, CallsInv, Extends, scenario' = scenario,
         \A c \in Appenders :
           \/ call'[c] = Idle \/ call'[c] = call[c]
           \/ call[c].at # "idle" /\ call'[c].lsn = call[c].lsn /\ call'[c].ev = call[c].ev,
         op' \in {"open", "privacy_open"} => op' = op \/ InFlight = {},
         op' \in {"checkpoint", "shutdown"} /\ op' \in scenario.quiet => op' = op \/ InFlight = {}
  PROVE  CallsInv'
<1>1. Idle.at = "idle"
  BY DEF Idle
<1>2. ASSUME NEW c \in Appenders, call'[c].at # "idle"
      PROVE  /\ call'[c].lsn \in 0..(Len(log') - 1) /\ log'[call'[c].lsn + 1] = call'[c].ev
             /\ ~call'[c].ev.hvm
  <2>1. call[c].at # "idle" /\ call'[c].lsn = call[c].lsn /\ call'[c].ev = call[c].ev
    BY <1>1, <1>2
  <2>2. /\ call[c].lsn \in 0..(Len(log) - 1) /\ log[call[c].lsn + 1] = call[c].ev
        /\ ~call[c].ev.hvm
    BY <2>1 DEF CallsInv
  <2> QED BY <2>1, <2>2, LsnKept
<1>3. InFlight' \subseteq InFlight
  BY <1>1 DEF InFlight
<1> QED BY <1>2, <1>3 DEF CallsInv

LEMMA CallsAppend ==
  ASSUME ShredQuiet, EngineTypeOK, TaskInv, CallsInv, NEW c \in Appenders,
         NEW key \in Keys \cup {NoKey}, NEW hvm \in BOOLEAN, Appending(c, key, hvm)
  PROVE  CallsInv'
<1>1. /\ Extends /\ Len(log') = Len(log) + 1
      /\ log'[Len(log) + 1] = [id |-> nextId + 1, key |-> key, hvm |-> hvm]
      /\ \A d \in Appenders : d # c => call'[d] = call[d]
      /\ IF hvm THEN call'[c] = Idle
         ELSE /\ call'[c].at = "views" /\ call'[c].lsn = Len(log)
              /\ call'[c].ev = log'[Len(log) + 1] /\ call'[c] # Idle
  BY LoggedExtends DEF Appending
<1>2. /\ call[c] = Idle /\ op \notin {"open", "privacy_open", "shred"}
      /\ mode # "down" /\ op \notin scenario.quiet
      /\ scenario.writers <= 1 => InFlight = {}
  BY Starts DEF Appending
<1>3. UNCHANGED <<op, scenario>>
  BY DEF Appending, Logged, task
<1>4. Idle.at = "idle" /\ Len(log) \in Nat
  BY LogType DEF Idle
<1>5. ASSUME NEW d \in Appenders, call'[d].at # "idle"
      PROVE  /\ call'[d].lsn \in 0..(Len(log') - 1) /\ log'[call'[d].lsn + 1] = call'[d].ev
             /\ ~call'[d].ev.hvm
  <2>1. CASE d = c
    <3>1. ~hvm /\ call'[d].lsn = Len(log) /\ call'[d].ev = log'[Len(log) + 1]
      BY <1>1, <1>4, <1>5, <2>1
    <3>2. ~call'[d].ev.hvm
      BY <1>1, <3>1
    <3>3. Len(log) \in 0..(Len(log') - 1)
      BY <1>1, <1>4
    <3> QED BY <3>1, <3>2, <3>3
  <2>2. CASE d # c
    <3>1. /\ call'[d] = call[d] /\ call[d].lsn \in 0..(Len(log) - 1)
          /\ log[call[d].lsn + 1] = call[d].ev /\ ~call[d].ev.hvm
      BY <1>1, <1>5, <2>2 DEF CallsInv
    <3> QED BY <1>1, <3>1, LsnKept
  <2> QED BY <2>1, <2>2
<1>6. InFlight' \subseteq InFlight \cup {c}
  BY <1>1 DEF InFlight
<1>7. scenario'.writers <= 1 => \A d, e \in InFlight' : d = e
  BY <1>2, <1>3, <1>6
<1> QED BY <1>2, <1>3, <1>5, <1>7 DEF CallsInv

LEMMA CallsNext ==
  ASSUME LogKept, ShredQuiet, EngineInv, CallsInv, [Next]_vars
  PROVE  CallsInv'
<1> USE DEF EngineInv
<1>1. Extends
  BY ExtendsNext
<1>2. CASE UNCHANGED <<log, ram, disk, task, call>>
  BY <1>2 DEF CallsInv, InFlight, task
<1>3. ASSUME NEW c \in Appenders, NEW key \in Keys \cup {NoKey}, NEW hvm \in BOOLEAN,
             Appending(c, key, hvm)
      PROVE  CallsInv'
  BY <1>3, CallsAppend
<1>4. ASSUME NEW c \in Appenders, index_views(c)
      PROVE  CallsInv'
  <2>1. /\ call[c].at = "views" /\ call' = [call EXCEPT ![c].at = "attr"]
        /\ UNCHANGED <<op, scenario>>
    BY <1>4 DEF index_views, task
  <2>2. \A d \in Appenders :
          \/ call'[d] = call[d]
          \/ call[d].at # "idle" /\ call'[d].lsn = call[d].lsn /\ call'[d].ev = call[d].ev
    BY <2>1 DEF EngineTypeOK, Call
  <2> QED BY <1>1, <2>1, <2>2, CallsKept
<1>5. ASSUME NEW c \in Appenders, index_attr(c)
      PROVE  CallsInv'
  <2>1. call' = [call EXCEPT ![c] = Idle] /\ UNCHANGED <<op, scenario>>
    BY <1>5 DEF index_attr, task
  <2>2. \A d \in Appenders : call'[d] = Idle \/ call'[d] = call[d]
    BY <2>1 DEF EngineTypeOK
  <2> QED BY <1>1, <2>1, <2>2, CallsKept
<1>6. ASSUME NEW o \in Maintenance, start(o)
      PROVE  CallsInv'
  <2>1. /\ op' = o /\ UNCHANGED <<scenario, call>>
        /\ o \in scenario.quiet => InFlight = {}
    BY <1>6 DEF start
  <2>2. o \notin {"open", "privacy_open"}
    BY DEF Maintenance
  <2> QED BY <1>1, <2>1, <2>2, CallsKept
<1>7. ASSUME NEW m \in {"normal", "skip"}, open(m)
      PROVE  CallsInv'
  <2>1. UNCHANGED <<scenario, call>> /\ InFlight = {}
    BY <1>7 DEF open, ErasureInv
  <2> QED BY <1>1, <2>1, CallsKept
<1>8. ASSUME NEW d \in Dos, Does(d)
      PROVE  CallsInv'
  <2>1. EffectOf(d)
    BY <1>8 DEF Does
  <2>2. op' = op \/ op' = "none"
    BY <2>1, AfterStep
  <2>3. scenario' = scenario /\ \A c \in Appenders : call'[c] = Idle \/ call'[c] = call[c]
    BY <2>1 DEF EffectOf
  <2> QED BY <1>1, <2>2, <2>3, CallsKept
<1>9. CASE crash
  <2>1. op' = "none" /\ scenario' = scenario /\ \A c \in Appenders : call'[c] = Idle
    BY <1>9 DEF crash, Stopped
  <2> QED BY <1>1, <2>1, CallsKept
<1> QED BY <1>2, <1>3, <1>4, <1>5, <1>6, <1>7, <1>8, <1>9, NextKinds

-----------------------------------------------------------------------------
(* What applying and replaying give a view.                                 *)

LEMMA AppliedHolds ==
  ASSUME NEW v, NEW t \in Counts, NEW id \in Ids
  PROVE  /\ Applied(v, t, id)[id] >= 1
         /\ \A i \in Ids : t[i] >= 1 => Applied(v, t, id)[i] >= 1
<1>1. t[id] \in Nat
  BY DEF Counts
<1>2. Applied(v, t, id) = [t EXCEPT ![id] = IF v \in Counting THEN t[id] + 1 ELSE 1]
  BY DEF Applied
<1>3. PICK n : n = IF v \in Counting THEN t[id] + 1 ELSE 1
  OBVIOUS
<1>4. n >= 1 /\ Applied(v, t, id) = [t EXCEPT ![id] = n]
  BY <1>1, <1>2, <1>3
<1> QED BY <1>4 DEF Counts

LEMMA ReplayedHolds ==
  ASSUME EngineTypeOK, NEW v, NEW t \in Counts, NEW wm \in Lsns, NEW lsn \in Indexable(0),
         wm < lsn \/ Holds(t, lsn)
  PROVE  Holds(ReplayedTimes(v, t, wm), lsn)
<1> DEFINE ids == {log[k + 1].id : k \in Uncovered(wm)}
           i == log[lsn + 1].id
<1>1. i \in Ids /\ lsn \in 0..(Len(log) - 1) /\ ~log[lsn + 1].hvm /\ Len(log) \in Nat
  BY LsnType, LogType DEF Indexable
<1>2. ReplayedTimes(v, t, wm) = [id \in Ids |-> IF id \in ids THEN Applied(v, t, id)[id] ELSE t[id]]
  BY DEF ReplayedTimes
<1>3. wm < lsn => i \in ids
  <2>1. wm < lsn => lsn \in (wm + 1)..(Len(log) - 1)
    BY <1>1 DEF Lsns, NoLsn
  <2> QED BY <1>1, <2>1 DEF Uncovered, Indexable
<1> HIDE DEF ids, i
<1>4. Applied(v, t, i)[i] >= 1
  BY <1>1, AppliedHolds
<1>5. ReplayedTimes(v, t, wm)[i] = IF i \in ids THEN Applied(v, t, i)[i] ELSE t[i]
  BY <1>1, <1>2
<1>6. Holds(t, lsn) => t[i] >= 1
  BY DEF Holds, i
<1>7. ReplayedTimes(v, t, wm)[i] >= 1
  BY <1>3, <1>4, <1>5, <1>6
<1> QED BY <1>7 DEF Holds, i

LEMMA ReplayedBound ==
  ASSUME EngineTypeOK, NEW wm \in Lsns, wm < Len(log)
  PROVE  ReplayedWm(wm) < Len(log)
<1> DEFINE U == Uncovered(wm)
<1>1. U \subseteq Nat /\ IsFiniteSet(U) /\ \A lsn \in U : lsn + 1 \in 1..Len(log)
  BY UncoveredType
<1>2. ReplayedWm(wm) = CHOOSE w \in {wm} \cup U : \A lsn \in U : lsn <= w
  BY DEF ReplayedWm
<1> HIDE DEF U
<1>3. \E w \in {wm} \cup U : \A lsn \in U : lsn <= w
  <2>1. CASE U = {}
    BY <2>1
  <2>2. CASE U # {}
    BY <1>1, <2>2, FiniteMax
  <2> QED BY <2>1, <2>2
<1>4. ReplayedWm(wm) \in {wm} \cup U
  BY <1>2, <1>3
<1>5. \A lsn \in U : lsn < Len(log)
  BY <1>1, LogType
<1> QED BY <1>4, <1>5

-----------------------------------------------------------------------------
(* The plan.                                                                *)

WatermarksBelow == \A v \in Views : watermarks[v] < Len(log) /\ wm_file[v] < Len(log)

LEMMA BelowStays ==
  ASSUME EngineTypeOK, Extends, NEW w \in [Views -> Lsns], \A v \in Views : w[v] < Len(log)
  PROVE  \A v \in Views : w[v] < Len(log')
<1>1. Len(log) \in Nat /\ Len(log') \in Nat /\ Len(log) <= Len(log')
  BY LsnKept DEF Extends
<1>2. \A v \in Views : w[v] \in Lsns
  OBVIOUS
<1> QED BY <1>1, <1>2 DEF Lsns, NoLsn

LEMMA BelowTask ==
  ASSUME EngineTypeOK, Extends, WatermarksBelow, NEW d \in Dos, Does(d)
  PROVE  WatermarksBelow'
<1>1. Len(log) \in Nat /\ Len(log') \in Nat /\ Len(log) <= Len(log')
  BY LsnKept DEF Extends
<1>2. /\ watermarks \in [Views -> Lsns] /\ wm_file \in [Views -> Lsns]
      /\ \A v \in Views : watermarks[v] < Len(log) /\ wm_file[v] < Len(log)
  BY DEF EngineTypeOK, WatermarksBelow
<1>3. /\ \A v \in Views : watermarks[v] < Len(log')
      /\ \A v \in Views : wm_file[v] < Len(log')
  BY <1>2, BelowStays
<1>4. \A v \in Views : wm_file'[v] < Len(log')
  <2>1. CASE d = "persist_watermarks"
    BY <1>3, <2>1 DEF Does
  <2>2. CASE d # "persist_watermarks"
    BY <1>3, <2>2 DEF Does
  <2> QED BY <2>1, <2>2
<1>5. NoLsn \in Lsns /\ NoLsn < Len(log) /\ NoLsn < Len(log')
  BY <1>1 DEF NoLsn, Lsns
<1>6. \A v \in Views : NoWatermarks[v] < Len(log')
  BY <1>5 DEF NoWatermarks
<1>7. \A v \in Views : watermarks'[v] < Len(log')
  <2>1. CASE d = "rebuild"
    <3>1. rebuild_views /\ log' = log
      BY <2>1 DEF Does
    <3>2. \A v \in Views : watermarks'[v] = ReplayedWm(NoLsn)
      BY <3>1 DEF rebuild_views
    <3> QED BY <1>5, <3>1, <3>2, ReplayedBound
  <2>2. CASE d = "catch_up"
    <3>1. catch_up /\ log' = log
      BY <2>2 DEF Does
    <3>2. \A v \in Views : watermarks'[v] = ReplayedWm(Restored(v))
      BY <3>1 DEF catch_up
    <3>3. \A v \in Views : Restored(v) \in Lsns /\ Restored(v) < Len(log)
      BY <1>2, <1>5, RestoredType DEF Restored
    <3> QED BY <3>1, <3>2, <3>3, ReplayedBound
  <2>3. CASE d = "reset_watermarks" \/ d = "exit"
    BY <1>6, <2>3 DEF Does, Stopped
  <2>4. CASE d = "receipt"
    <3>1. receipt
      BY <2>4 DEF Does
    <3>2. \/ UNCHANGED <<log, watermarks>>
          \/ /\ Len(log') = Len(log) + 1
             /\ watermarks' = [v \in Views |-> AdvancedWm(watermarks[v], Len(log))]
      BY <3>1, ReceiptExtends
    <3>3. \A v \in Views : \/ watermarks'[v] = watermarks[v]
                           \/ Len(log') = Len(log) + 1 /\ watermarks'[v] = Len(log)
      BY <3>2 DEF AdvancedWm
    <3> QED BY <1>1, <1>3, <3>3
  <2>5. CASE d \notin {"rebuild", "catch_up", "reset_watermarks", "receipt", "exit"}
    BY <1>3, <2>5 DEF Does
  <2> QED BY <2>1, <2>2, <2>3, <2>4, <2>5
<1> QED BY <1>4, <1>7 DEF WatermarksBelow

LEMMA PlanTask ==
  ASSUME EngineInv, Extends, PlanInv, NEW d \in Dos, Does(d)
  PROVE  PlanInv'
<1> USE DEF EngineInv
<1>1. EffectOf(d)
  BY DEF Does
<1>2. /\ Head(todo) \in Left /\ Head(todo).do = d /\ Left' \subseteq Left
      /\ d \in StepsOf(op) /\ (mode = "down" => d = "exit")
      /\ op' = op \/ (op' = "none" /\ Left' = {})
      /\ \A e : Step1(e) \in Left => e = d \/ Step1(e) \in Left'
      /\ \A e : Step1(e) \in Sure(op) /\ Rank(d) < Rank(e) => Step1(e) \in Left'
      /\ d # "save" => Head(todo) = Step1(d)
  BY <1>1, AfterStep
<1>3. /\ d \in {"unmark", "exit"} => op' = "none"
      /\ Step1("catch_up") \notin Left'
  BY <1>1, Order
<1>4. /\ scenario' = scenario
      /\ marker' = (d = "mark" \/ (d # "unmark" /\ marker))
      /\ IF d = "exit" THEN mode' = "down" ELSE mode' = mode
  BY <1>1 DEF EffectOf
<1>5. op' \in Maintenance => op' \in scenario'.ops
  BY <1>2, <1>4 DEF PlanInv, Maintenance
<1>6. mode' = "skip" => "skip" \in scenario'.boots
  BY <1>4 DEF PlanInv
<1>7. ASSUME marker', mode' # "down"
      PROVE  Step1("unmark") \in Left'
  <2>1. CASE d = "mark"
    <3>1. op = "shred"
      BY <1>2, <2>1 DEF StepsOf
    <3>2. Step1("unmark") \in Sure(op)
      BY <3>1 DEF Sure
    <3> QED BY <1>2, <2>1, <3>2, Ranks
  <2>2. CASE d # "mark"
    <3>1. marker /\ mode # "down" /\ d # "unmark"
      BY <1>2, <1>4, <1>7, <2>2
    <3> QED BY <1>2, <3>1 DEF PlanInv
  <2> QED BY <2>1, <2>2
<1>8. ASSUME op' \in {"shred", "privacy_open"}
      PROVE  marker' \/ Step1("mark") \in Left'
  <2>1. op' = op /\ d # "unmark"
    BY <1>2, <1>3, <1>8
  <2>2. marker \/ Step1("mark") \in Left
    BY <1>8, <2>1 DEF PlanInv
  <2> QED BY <1>2, <1>4, <2>1, <2>2
<1>9. op' = "open" /\ mode' = "skip" =>
        Left' \subseteq {Step1("reset_watermarks"), Step1("open_attr")}
  BY <1>2, <1>4 DEF PlanInv
<1>10. op' = "open" /\ mode' = "normal" => Step1("reset_watermarks") \notin Left'
  BY <1>2, <1>4 DEF PlanInv
<1>11. ASSUME mode' = "normal", Step1("open_attr") \in Left'
       PROVE  Step1("replay_attr") \in Left'
  <2>1. mode = "normal" /\ Step1("open_attr") \in Left
    BY <1>2, <1>4, <1>11
  <2>2. Step1("replay_attr") \in Left
    BY <2>1 DEF PlanInv
  <2>3. d # "replay_attr"
    <3>1. Precedes(d, "open_attr")
      BY <1>1, <1>11, AfterStep
    <3>2. ~Precedes("replay_attr", "open_attr")
      BY Ranks DEF Precedes
    <3> QED BY <3>1, <3>2
  <2> QED BY <1>2, <2>2, <2>3
<1>12. WatermarksBelow'
  BY BelowTask DEF PlanInv, WatermarksBelow
<1> QED BY <1>3, <1>5, <1>6, <1>7, <1>8, <1>9, <1>10, <1>11, <1>12 DEF PlanInv, WatermarksBelow

LEMMA PlanNext ==
  ASSUME LogKept, ShredQuiet, EngineInv, CallsInv, PlanInv, [Next]_vars
  PROVE  PlanInv'
<1> USE DEF EngineInv
<1>1. Extends
  BY ExtendsNext
<1>2. /\ watermarks \in [Views -> Lsns] /\ wm_file \in [Views -> Lsns]
      /\ \A v \in Views : watermarks[v] < Len(log)
      /\ \A v \in Views : wm_file[v] < Len(log)
  BY DEF EngineTypeOK, PlanInv
<1>3. /\ \A v \in Views : watermarks[v] < Len(log')
      /\ \A v \in Views : wm_file[v] < Len(log')
  BY <1>1, <1>2, BelowStays
<1>4. CASE UNCHANGED <<log, ram, disk, task, call>>
  BY <1>4 DEF PlanInv, Left, ram, disk, task
<1>5. ASSUME NEW c \in Appenders, NEW key \in Keys \cup {NoKey}, NEW hvm \in BOOLEAN,
             Appending(c, key, hvm)
      PROVE  PlanInv'
  <2>1. UNCHANGED <<ram, disk, task>>
    BY <1>5 DEF Appending, Logged
  <2> QED BY <1>3, <2>1 DEF PlanInv, Left, ram, disk, task
<1>6. ASSUME NEW c \in Appenders, index_views(c)
      PROVE  PlanInv'
  <2>1. /\ UNCHANGED <<log, disk, task>> /\ call[c].at = "views"
        /\ \A v \in Views : watermarks'[v] = AdvancedWm(watermarks[v], call[c].lsn)
    BY <1>6 DEF index_views
  <2>2. call[c].lsn < Len(log)
    BY <2>1, LogType DEF CallsInv
  <2>3. \A v \in Views : watermarks'[v] < Len(log)
    BY <1>2, <2>1, <2>2 DEF AdvancedWm
  <2>4. Step1("catch_up") \notin Left
    <3>1. ASSUME Step1("catch_up") \in Left
          PROVE  FALSE
      <4>1. Step1("catch_up").do \in StepsOf(op)
        BY <3>1 DEF TaskInv, TodoInv, Remaining, Left
      <4>2. op = "open"
        BY <4>1, DoOf DEF StepsOf
      <4> QED BY <2>1, <4>2 DEF CallsInv, InFlight, Idle
    <3> QED BY <3>1
  <2> QED BY <1>2, <2>1, <2>3, <2>4 DEF PlanInv, Left, disk, task
<1>7. ASSUME NEW c \in Appenders, index_attr(c)
      PROVE  PlanInv'
  <2>1. UNCHANGED <<log, watermarks, disk, task>>
    BY <1>7 DEF index_attr
  <2> QED BY <2>1 DEF PlanInv, Left, disk, task
<1>8. ASSUME NEW o \in Maintenance, start(o)
      PROVE  PlanInv'
  <2>1. /\ op' = o /\ op = "none" /\ o \in scenario.ops /\ mode # "down" /\ todo' = Program(o)
        /\ UNCHANGED <<log, ram, disk, mode, scenario>>
    BY <1>8 DEF start, Serving
  <2>2. Left = {}
    BY <2>1, NoSteps DEF TaskInv, Left
  <2>3. \A e : Step1(e) \in Left' => e \in StepsOf(o)
    <3>1. \A x \in Left' : x.do \in StepsOf(o)
      BY <2>1, ProgramTodo DEF Remaining, Left
    <3> QED BY <3>1, DoOf
  <2>4. ~marker
    BY <2>1, <2>2 DEF PlanInv
  <2>5. o = "shred" => Step1("mark") \in Left'
    BY <2>1, ProgramTodo DEF Sure, Left
  <2>6. Step1("catch_up") \notin Left' /\ Step1("open_attr") \notin Left'
    BY <2>3 DEF StepsOf, Maintenance
  <2>7. o \notin {"open", "privacy_open"}
    BY DEF Maintenance
  <2> QED BY <2>1, <2>4, <2>5, <2>6, <2>7 DEF PlanInv, ram, disk
<1>9. ASSUME NEW m \in {"normal", "skip"}, open(m)
      PROVE  PlanInv'
  <2>1. /\ mode = "down" /\ mode' = m /\ m \in scenario.boots /\ watermarks' = wm_file
        /\ op' = (IF marker THEN "privacy_open" ELSE "open")
        /\ todo' = (IF marker THEN OpenPrivacy(m) ELSE IF m = "skip" THEN OpenSkip ELSE OpenNormal)
        /\ UNCHANGED <<log, disk, scenario>>
    BY <1>9 DEF open
  <2>2. CASE marker
    <3>1. /\ Left' = Items(OpenPrivacy(m)) /\ op' = "privacy_open"
          /\ Step1("unmark") \in Items(OpenPrivacy(m))
      BY <2>1, <2>2, OpenPrivacySteps DEF Left
    <3>2. \A e : Step1(e) \in Left' => e \in StepsOf("privacy_open")
      <4>1. \A x \in Left' : x.do \in StepsOf("privacy_open")
        BY <3>1, OpenTodo DEF Remaining
      <4> QED BY <4>1, DoOf
    <3>3. Step1("catch_up") \notin Left' /\ Step1("open_attr") \notin Left'
      BY <3>2 DEF StepsOf
    <3> QED BY <1>2, <2>1, <2>2, <3>1, <3>3 DEF PlanInv, Maintenance, disk
  <2>3. CASE ~marker /\ m = "skip"
    <3>1. Left' = {Step1(d) : d \in {"reset_watermarks", "open_attr"}} /\ op' = "open"
      BY <2>1, <2>3, OpenSkipSteps DEF Left
    <3>2. Left' = {Step1("reset_watermarks"), Step1("open_attr")}
      BY <3>1
    <3>3. Step1("catch_up") \notin Left'
      BY <3>2 DEF Step1
    <3> QED BY <1>2, <2>1, <2>3, <3>1, <3>2, <3>3 DEF PlanInv, Maintenance, disk
  <2>4. CASE ~marker /\ m # "skip"
    <3>1. /\ op' = "open" /\ m = "normal"
          /\ Left' = Saving \cup
               {Step1(d) : d \in {"catch_up", "persist_watermarks", "open_attr", "replay_attr"}}
      BY <2>1, <2>4, OpenNormalSteps DEF Left
    <3>2. \A v \in Views : Save(v) \in Left'
      BY <3>1 DEF Saving
    <3>3. Step1("reset_watermarks") \notin Left' /\ Step1("replay_attr") \in Left'
      BY <3>1 DEF Step1, Saving, Save
    <3> QED BY <1>2, <2>1, <2>4, <3>1, <3>2, <3>3 DEF PlanInv, Maintenance, disk
  <2> QED BY <2>2, <2>3, <2>4
<1>10. ASSUME NEW d \in Dos, Does(d)
       PROVE  PlanInv'
  BY <1>1, <1>10, PlanTask
<1>11. CASE crash
  <2>1. /\ op' = "none" /\ todo' = <<>> /\ mode' = "down" /\ watermarks' = NoWatermarks
        /\ UNCHANGED <<wm_file, scenario>>
    BY <1>11 DEF crash, Stopped, disk
  <2>2. Left' = {}
    BY <2>1, NoSteps DEF Left
  <2>3. \A v \in Views : watermarks'[v] < Len(log')
    BY <1>1, <2>1, LsnKept DEF NoWatermarks, NoLsn
  <2> QED BY <1>3, <2>1, <2>2, <2>3 DEF PlanInv, Maintenance
<1> QED BY <1>4, <1>5, <1>6, <1>7, <1>8, <1>9, <1>10, <1>11, NextKinds

-----------------------------------------------------------------------------
(* The views that are loaded have every episode, or it is on its way.       *)

LEMMA LoadedAppend ==
  ASSUME EngineTypeOK, LoadedInv, NEW c \in Appenders, NEW key \in Keys \cup {NoKey},
         NEW hvm \in BOOLEAN, Appending(c, key, hvm)
  PROVE  LoadedInv'
<1>1. /\ Extends /\ Len(log') = Len(log) + 1
      /\ log'[Len(log) + 1] = [id |-> nextId + 1, key |-> key, hvm |-> hvm]
      /\ \A d \in Appenders : d # c => call'[d] = call[d]
      /\ IF hvm THEN call'[c] = Idle
         ELSE /\ call'[c].at = "views" /\ call'[c].lsn = Len(log)
              /\ call'[c].ev = log'[Len(log) + 1] /\ call'[c] # Idle
  BY LoggedExtends DEF Appending
<1>2. call[c].at = "idle" /\ UNCHANGED <<ram, disk, task>>
  BY DEF Appending, MayStart, Logged, Idle
<1>3. ViewsLoaded' => ViewsLoaded
  BY <1>2 DEF ViewsLoaded, Left, task
<1>4. ASSUME ViewsLoaded, NEW v \in Views, NEW lsn \in Indexable(0)'
      PROVE  Holds(times[v], lsn)' \/ CallAt({"views"}, lsn)'
  <2>1. CASE lsn \in Indexable(0) /\ log'[lsn + 1] = log[lsn + 1]
    <3>1. CASE Holds(times[v], lsn)
      BY <1>2, <2>1, <3>1 DEF Holds, ram
    <3>2. CASE CallAt({"views"}, lsn)
      <4>1. PICK d \in Appenders : call[d].at = "views" /\ call[d].lsn = lsn
        BY <3>2 DEF CallAt
      <4>2. call'[d] = call[d]
        BY <1>1, <1>2, <4>1
      <4> QED BY <4>1, <4>2 DEF CallAt
    <3> QED BY <1>4, <2>1, <3>1, <3>2 DEF LoadedInv
  <2>2. CASE lsn = Len(log) /\ ~log'[Len(log) + 1].hvm
    <3>1. ~hvm
      BY <1>1, <2>2
    <3> QED BY <1>1, <2>2, <3>1 DEF CallAt
  <2> QED BY <1>1, <2>1, <2>2, LsnKept
<1> QED BY <1>3, <1>4 DEF LoadedInv

LEMMA LoadedIndex ==
  ASSUME EngineTypeOK, CallsInv, LoadedInv, NEW c \in Appenders, index_views(c)
  PROVE  LoadedInv'
<1>1. PICK e : e = call[c].ev.id
  OBVIOUS
<1>2. /\ call[c].at = "views" /\ e \in Ids /\ UNCHANGED <<log, task>>
      /\ times' = [v \in Views |-> Applied(v, times[v], e)]
      /\ call' = [call EXCEPT ![c].at = "attr"]
  BY <1>1 DEF index_views, EngineTypeOK
<1>3. \A d \in Appenders : d # c => call'[d] = call[d]
  BY <1>2 DEF EngineTypeOK
<1>4. ViewsLoaded' => ViewsLoaded
  BY <1>2 DEF ViewsLoaded, Left, task
<1>5. log[call[c].lsn + 1].id = e
  BY <1>1, <1>2 DEF CallsInv
<1>6. ASSUME ViewsLoaded, NEW v \in Views, NEW lsn \in Indexable(0)
      PROVE  Holds(times[v], lsn)' \/ CallAt({"views"}, lsn)'
  <2>1. /\ log[lsn + 1].id \in Ids /\ times[v] \in Counts
        /\ times'[v] = Applied(v, times[v], e)
    BY <1>2, LsnType DEF EngineTypeOK
  <2>2. CASE Holds(times[v], lsn)
    BY <1>2, <2>1, <2>2, AppliedHolds DEF Holds
  <2>3. CASE CallAt({"views"}, lsn)
    <3>1. PICK d \in Appenders : call[d].at = "views" /\ call[d].lsn = lsn
      BY <2>3 DEF CallAt
    <3>2. CASE d = c
      BY <1>2, <1>5, <2>1, <3>1, <3>2, AppliedHolds DEF Holds
    <3>3. CASE d # c
      BY <1>3, <3>1, <3>3 DEF CallAt
    <3> QED BY <3>2, <3>3
  <2> QED BY <1>6, <2>2, <2>3 DEF LoadedInv
<1>7. Indexable(0)' = Indexable(0)
  BY <1>2 DEF Indexable
<1> QED BY <1>4, <1>6, <1>7 DEF LoadedInv

\* A step that leaves the views and their episodes as they are.
LEMMA LoadedKept ==
  ASSUME LoadedInv, UNCHANGED <<log, times>>, ViewsLoaded' => ViewsLoaded,
         \A c \in Appenders : call[c].at = "views" => call'[c] = call[c]
  PROVE  LoadedInv'
<1>1. Indexable(0)' = Indexable(0)
  BY DEF Indexable
<1>2. ASSUME NEW lsn, CallAt({"views"}, lsn)
      PROVE  CallAt({"views"}, lsn)'
  BY <1>2 DEF CallAt
<1>3. \A v, lsn : Holds(times[v], lsn)' <=> Holds(times[v], lsn)
  BY DEF Holds
<1> QED BY <1>1, <1>2, <1>3 DEF LoadedInv

\* Loaded after a step: loaded before it, or loaded by it.
LEMMA LoadedBy ==
  ASSUME EngineInv, NEW d \in Dos, EffectOf(d), ViewsLoaded'
  PROVE  ViewsLoaded \/ d \in {"rebuild", "catch_up"}
<1>1. /\ op' = op \/ (op' = "none" /\ Left' = {})
      /\ \A e : Step1(e) \in Left => e = d \/ Step1(e) \in Left'
  BY AfterStep DEF EngineInv
<1>2. mode' \in {"normal", "skip"} => mode' = mode
  BY DEF EffectOf
<1>3. ASSUME d \notin {"rebuild", "catch_up"}
      PROVE  ViewsLoaded
  <2>1. CASE mode' = "normal"
    BY <1>1, <1>2, <1>3, <2>1 DEF ViewsLoaded
  <2>2. CASE mode' # "normal"
    <3>1. /\ mode = "skip" /\ op' = op /\ op' \in {"shred", "privacy_open"}
          /\ Step1("rebuild") \notin Left'
      BY <1>1, <1>2, <2>2 DEF ViewsLoaded
    <3> QED BY <1>1, <1>3, <3>1 DEF ViewsLoaded
  <2> QED BY <2>1, <2>2
<1> QED BY <1>3

LEMMA LoadedTask ==
  ASSUME EngineInv, CallsInv, PlanInv, LoadedInv, SavedInv, NEW d \in Dos, Does(d)
  PROVE  LoadedInv'
<1> USE DEF EngineInv
<1>1. EffectOf(d)
  BY DEF Does
<1>2. CASE d = "rebuild"
  <2>1. rebuild_views
    BY <1>2 DEF Does
  <2>2. /\ UNCHANGED log /\ \A v \in Views : times'[v] = ReplayedTimes(v, NoTimes[v], NoLsn)
    BY <2>1 DEF rebuild_views
  <2>3. ASSUME NEW v \in Views, NEW lsn \in Indexable(0)
        PROVE  Holds(times[v], lsn)'
    <3>1. NoTimes[v] \in Counts /\ NoLsn \in Lsns
      BY DEF NoTimes, Counts, Lsns
    <3>2. NoLsn < lsn
      BY LsnType DEF NoLsn
    <3>3. Holds(ReplayedTimes(v, NoTimes[v], NoLsn), lsn)
      BY <3>1, <3>2, ReplayedHolds
    <3> QED BY <2>2, <3>3 DEF Holds
  <2>4. Indexable(0)' = Indexable(0)
    BY <2>2 DEF Indexable
  <2> QED BY <2>3, <2>4 DEF LoadedInv
<1>3. CASE d = "catch_up"
  <2>1. catch_up
    BY <1>3 DEF Does
  <2>2. /\ UNCHANGED log
        /\ \A v \in Views : times'[v] = ReplayedTimes(v, ckpt[v].times, Restored(v))
    BY <2>1 DEF catch_up
  <2>3. op = "open" /\ Step1("catch_up") \in Left /\ ~marker
    <3>1. Head(todo) \in Left /\ Head(todo) = Step1(d) /\ d \in StepsOf(op)
      BY <1>1, <1>3, AfterStep
    <3>2. op = "open"
      BY <1>3, <3>1 DEF StepsOf
    <3> QED BY <1>3, <3>1, <3>2 DEF TaskInv
  <2>4. ASSUME NEW v \in Views, NEW lsn \in Indexable(0)
        PROVE  Holds(times[v], lsn)'
    <3>1. Restored(v) \in Lsns /\ ckpt[v].times \in Counts
      BY RestoredType
    <3>2. Saved(v) /\ watermarks[v] = wm_file[v]
      BY <2>3 DEF SavedInv, Excused, PlanInv
    <3>3. CASE ckpt[v].present
      <4>1. Restored(v) = wm_file[v] /\ UpTo(ckpt[v].times, wm_file[v])
        BY <3>2, <3>3 DEF Restored, Saved
      <4>2. Restored(v) < lsn \/ Holds(ckpt[v].times, lsn)
        <5>1. lsn \in Nat
          BY LsnType
        <5>2. Restored(v) < lsn \/ lsn <= Restored(v)
          BY <3>1, <5>1 DEF Lsns, NoLsn
        <5> QED BY <4>1, <5>2 DEF UpTo
      <4>3. Holds(ReplayedTimes(v, ckpt[v].times, Restored(v)), lsn)
        BY <3>1, <4>2, ReplayedHolds
      <4> QED BY <2>2, <4>3 DEF Holds
    <3>4. CASE ~ckpt[v].present
      <4>1. Restored(v) < lsn
        BY <3>4, LsnType DEF Restored, NoLsn
      <4>2. Holds(ReplayedTimes(v, ckpt[v].times, Restored(v)), lsn)
        BY <3>1, <4>1, ReplayedHolds
      <4> QED BY <2>2, <4>2 DEF Holds
    <3> QED BY <3>3, <3>4
  <2>5. Indexable(0)' = Indexable(0)
    BY <2>2 DEF Indexable
  <2> QED BY <2>4, <2>5 DEF LoadedInv
<1>4. CASE d = "receipt"
  <2>1. receipt /\ call' = call /\ (ViewsLoaded' => ViewsLoaded)
    BY <1>1, <1>4, LoadedBy DEF Does, EffectOf
  <2>2. CASE UNCHANGED <<log, nextId, synced, times, watermarks, attr>>
    BY <2>1, <2>2, LoadedKept
  <2>3. CASE ~UNCHANGED <<log, nextId, synced, times, watermarks, attr>>
    <3>1. /\ Extends /\ Len(log') = Len(log) + 1
          /\ log'[Len(log) + 1] = [id |-> nextId + 1, key |-> NoKey, hvm |-> FALSE]
          /\ nextId + 1 \in Ids
          /\ times' = [v \in Views |-> Applied(v, times[v], nextId + 1)]
      BY <2>1, <2>3, ReceiptExtends
    <3>2. ASSUME ViewsLoaded, NEW v \in Views, NEW lsn \in Indexable(0)'
          PROVE  Holds(times[v], lsn)' \/ CallAt({"views"}, lsn)'
      <4>1. times[v] \in Counts /\ times'[v] = Applied(v, times[v], nextId + 1)
        BY <3>1 DEF EngineTypeOK
      <4>2. CASE lsn \in Indexable(0) /\ log'[lsn + 1] = log[lsn + 1]
        <5>1. log[lsn + 1].id \in Ids
          BY <4>2, LsnType
        <5>2. CASE Holds(times[v], lsn)
          BY <3>1, <4>1, <4>2, <5>1, <5>2, AppliedHolds DEF Holds
        <5>3. CASE CallAt({"views"}, lsn)
          BY <2>1, <5>3 DEF CallAt
        <5> QED BY <3>2, <4>2, <5>2, <5>3 DEF LoadedInv
      <4>3. CASE lsn = Len(log)
        <5>1. log'[lsn + 1].id = nextId + 1
          BY <3>1, <4>3
        <5> QED BY <3>1, <4>1, <5>1, AppliedHolds DEF Holds
      <4> QED BY <3>1, <4>2, <4>3, LsnKept
    <3> QED BY <2>1, <3>2 DEF LoadedInv
  <2> QED BY <2>2, <2>3
<1>5. CASE d = "exit"
  <2>1. mode' = "down"
    BY <1>1, <1>5 DEF EffectOf
  <2> QED BY <2>1 DEF LoadedInv, ViewsLoaded
<1>6. CASE d \notin {"rebuild", "catch_up", "receipt", "exit"}
  <2>1. UNCHANGED <<log, times, call>> /\ (ViewsLoaded' => ViewsLoaded)
    BY <1>1, <1>6, LoadedBy DEF Does, EffectOf
  <2> QED BY <2>1, LoadedKept
<1> QED BY <1>2, <1>3, <1>4, <1>5, <1>6

LEMMA LoadedNext ==
  ASSUME EngineInv, CallsInv, PlanInv, LoadedInv, SavedInv, [Next]_vars
  PROVE  LoadedInv'
<1> USE DEF EngineInv
<1>1. CASE UNCHANGED <<log, ram, disk, task, call>>
  BY <1>1, LoadedKept DEF ViewsLoaded, Left, ram, task
<1>2. ASSUME NEW c \in Appenders, NEW key \in Keys \cup {NoKey}, NEW hvm \in BOOLEAN,
             Appending(c, key, hvm)
      PROVE  LoadedInv'
  BY <1>2, LoadedAppend
<1>3. ASSUME NEW c \in Appenders, index_views(c)
      PROVE  LoadedInv'
  BY <1>3, LoadedIndex
<1>4. ASSUME NEW c \in Appenders, index_attr(c)
      PROVE  LoadedInv'
  <2>1. /\ UNCHANGED <<log, times, task>> /\ call[c].at = "attr"
        /\ call' = [call EXCEPT ![c] = Idle]
    BY <1>4 DEF index_attr
  <2>2. \A d \in Appenders : call[d].at = "views" => call'[d] = call[d]
    BY <2>1 DEF EngineTypeOK
  <2> QED BY <2>1, <2>2, LoadedKept DEF ViewsLoaded, Left, task
<1>5. ASSUME NEW o \in Maintenance, start(o)
      PROVE  LoadedInv'
  <2>1. /\ op' = o /\ op = "none" /\ todo' = Program(o) /\ UNCHANGED <<log, times, mode, call>>
    BY <1>5 DEF start, ram
  <2>2. Left = {}
    BY <2>1, NoSteps DEF TaskInv, Left
  <2>3. o = "shred" => Step1("rebuild") \in Left'
    BY <2>1, ProgramTodo DEF Sure, Left
  <2>4. o # "privacy_open"
    BY DEF Maintenance
  <2>5. ViewsLoaded' => ViewsLoaded
    BY <2>1, <2>2, <2>3, <2>4 DEF ViewsLoaded
  <2> QED BY <2>1, <2>5, LoadedKept
<1>6. ASSUME NEW m \in {"normal", "skip"}, open(m)
      PROVE  LoadedInv'
  <2>1. /\ mode' = m /\ op' = (IF marker THEN "privacy_open" ELSE "open")
        /\ todo' = (IF marker THEN OpenPrivacy(m) ELSE IF m = "skip" THEN OpenSkip ELSE OpenNormal)
    BY <1>6 DEF open
  <2>2. marker => Step1("rebuild") \in Left'
    BY <2>1, OpenPrivacySteps DEF Left
  <2>3. ~marker /\ m = "normal" => Step1("catch_up") \in Left'
    BY <2>1, OpenNormalSteps DEF Left
  <2>4. ~ViewsLoaded'
    BY <2>1, <2>2, <2>3 DEF ViewsLoaded
  <2> QED BY <2>4 DEF LoadedInv
<1>7. ASSUME NEW d \in Dos, Does(d)
      PROVE  LoadedInv'
  BY <1>7, LoadedTask
<1>8. CASE crash
  <2>1. mode' = "down"
    BY <1>8 DEF crash, Stopped
  <2> QED BY <2>1 DEF LoadedInv, ViewsLoaded
<1> QED BY <1>1, <1>2, <1>3, <1>4, <1>5, <1>6, <1>7, <1>8, NextKinds

-----------------------------------------------------------------------------
(* One writer is ahead of the watermarks.                                   *)

LEMMA AheadTask ==
  ASSUME EngineInv, CallsInv, AheadInv, NEW d \in Dos, Does(d)
  PROVE  AheadInv'
<1> USE DEF EngineInv
<1>1. EffectOf(d) /\ d \in StepsOf(op)
  BY AfterStep DEF Does
<1>2. scenario' = scenario /\ (d = "exit" \/ call' = call)
  BY <1>1 DEF EffectOf
<1>3. SUFFICES ASSUME scenario.writers <= 1, NEW c \in Appenders, NEW v \in Views,
                      call'[c].at = "views", call'[c] = call[c]
               PROVE  \/ Holds(times[v], call[c].lsn)'
                      \/ watermarks'[v] < call'[c].lsn /\ wm_file'[v] < call'[c].lsn
  <2>1. d = "exit" => \A c \in Appenders : call'[c].at = "idle"
    BY <1>1 DEF EffectOf, Idle
  <2> QED BY <1>2, <2>1 DEF AheadInv
<1>4. c \in InFlight /\ op \notin {"open", "privacy_open", "shred"}
  <2>1. c \in InFlight
    BY <1>3 DEF InFlight, Idle
  <2> QED BY <2>1 DEF CallsInv, TaskInv
<1>5. d \notin {"catch_up", "reset_watermarks", "receipt", "exit"} /\ log' = log
  <2>1. d # "exit"
    BY <1>1, <1>3 DEF EffectOf, Idle
  <2>2. d \notin {"catch_up", "reset_watermarks", "receipt"}
    BY <1>1, <1>4 DEF StepsOf
  <2> QED BY <2>1, <2>2 DEF Does
<1>6. \/ Holds(times[v], call[c].lsn)
      \/ watermarks[v] < call[c].lsn /\ wm_file[v] < call[c].lsn
  BY <1>3 DEF AheadInv
<1>7. CASE d = "rebuild"
  <2>1. times'[v] = ReplayedTimes(v, NoTimes[v], NoLsn)
    BY <1>7 DEF Does, rebuild_views
  <2>2. /\ call[c].lsn \in 0..(Len(log) - 1) /\ log[call[c].lsn + 1] = call[c].ev
        /\ ~call[c].ev.hvm
    BY <1>3 DEF CallsInv
  <2>3. call[c].lsn \in Indexable(0) /\ NoLsn < call[c].lsn
    BY <2>2 DEF Indexable, NoLsn
  <2>4. NoTimes[v] \in Counts /\ NoLsn \in Lsns
    BY DEF NoTimes, Counts, Lsns
  <2>5. Holds(ReplayedTimes(v, NoTimes[v], NoLsn), call[c].lsn)
    BY <2>3, <2>4, ReplayedHolds
  <2> QED BY <1>3, <1>5, <2>1, <2>5 DEF Holds
<1>8. CASE d # "rebuild"
  <2>1. UNCHANGED <<times, watermarks>>
    BY <1>5, <1>8 DEF Does
  <2>2. wm_file' = wm_file \/ wm_file' = watermarks
    BY DEF Does
  <2> QED BY <1>3, <1>5, <1>6, <2>1, <2>2 DEF Holds
<1> QED BY <1>7, <1>8

LEMMA AheadNext ==
  ASSUME LogKept, ShredQuiet, EngineInv, CallsInv, PlanInv, AheadInv, [Next]_vars
  PROVE  AheadInv'
<1> USE DEF EngineInv
<1>1. CASE UNCHANGED <<log, ram, disk, task, call>>
  BY <1>1 DEF AheadInv, Holds, ram, disk, task
<1>2. ASSUME NEW c \in Appenders, NEW key \in Keys \cup {NoKey}, NEW hvm \in BOOLEAN,
             Appending(c, key, hvm)
      PROVE  AheadInv'
  <2>1. /\ \A d \in Appenders : d # c => call'[d] = call[d]
        /\ IF hvm THEN call'[c] = Idle
           ELSE call'[c].at = "views" /\ call'[c].lsn = Len(log)
    BY <1>2, LoggedExtends DEF Appending
  <2>2. UNCHANGED <<times, watermarks, wm_file, scenario>>
    BY <1>2 DEF Appending, Logged, ram, disk, task
  <2>3. scenario.writers <= 1 => InFlight = {}
    BY <1>2, Starts DEF Appending
  <2>4. ASSUME scenario.writers <= 1, NEW d \in Appenders, NEW v \in Views, call'[d].at = "views"
        PROVE  watermarks'[v] < call'[d].lsn /\ wm_file'[v] < call'[d].lsn
    <3>1. d = c
      <4>1. ASSUME d # c
            PROVE  FALSE
        <5>1. call[d] = Idle
          BY <2>3, <2>4 DEF InFlight
        <5> QED BY <2>1, <2>4, <4>1, <5>1 DEF Idle
      <4> QED BY <4>1
    <3>2. call'[d].lsn = Len(log)
      BY <2>1, <2>4, <3>1 DEF Idle
    <3> QED BY <2>2, <3>2 DEF PlanInv
  <2> QED BY <2>2, <2>4 DEF AheadInv
<1>3. ASSUME NEW c \in Appenders, index_views(c) \/ index_attr(c)
      PROVE  AheadInv'
  <2>1. /\ c \in InFlight /\ scenario' = scenario /\ call'[c].at # "views"
        /\ \A d \in Appenders : d # c => call'[d] = call[d]
    <3>1. CASE index_views(c)
      <4>1. /\ call[c].at = "views" /\ call' = [call EXCEPT ![c].at = "attr"]
            /\ scenario' = scenario
        BY <3>1 DEF index_views, task
      <4> QED BY <4>1 DEF EngineTypeOK, Call, InFlight, Idle
    <3>2. CASE index_attr(c)
      <4>1. call[c].at = "attr" /\ call' = [call EXCEPT ![c] = Idle] /\ scenario' = scenario
        BY <3>2 DEF index_attr, task
      <4> QED BY <4>1 DEF EngineTypeOK, InFlight, Idle
    <3> QED BY <1>3, <3>1, <3>2
  <2>2. ASSUME scenario.writers <= 1, NEW d \in Appenders, call'[d].at = "views"
        PROVE  FALSE
    <3>1. d # c /\ call[d].at = "views"
      BY <2>1, <2>2
    <3>2. d \in InFlight
      BY <3>1 DEF InFlight, Idle
    <3> QED BY <2>1, <2>2, <3>1, <3>2 DEF CallsInv
  <2> QED BY <2>1, <2>2 DEF AheadInv
<1>4. ASSUME NEW o \in Maintenance, start(o)
      PROVE  AheadInv'
  BY <1>4 DEF start, AheadInv, Holds, ram, disk
<1>5. ASSUME NEW m \in {"normal", "skip"}, open(m)
      PROVE  AheadInv'
  <2>1. call' = call /\ InFlight = {}
    BY <1>5 DEF open, ErasureInv
  <2>2. \A c \in Appenders : call'[c].at = "idle"
    BY <2>1 DEF InFlight, Idle
  <2> QED BY <2>2 DEF AheadInv
<1>6. ASSUME NEW d \in Dos, Does(d)
      PROVE  AheadInv'
  BY <1>6, AheadTask
<1>7. CASE crash
  <2>1. \A c \in Appenders : call'[c].at = "idle"
    BY <1>7 DEF crash, Stopped, Idle
  <2> QED BY <2>1 DEF AheadInv
<1> QED BY <1>1, <1>2, <1>3, <1>4, <1>5, <1>6, <1>7, NextKinds

-----------------------------------------------------------------------------
(* Saving the views.                                                        *)

\* What a snapshot misses is above the watermarks, but for a checkpoint that
\* no crash can follow.
LEMMA SaveSound ==
  ASSUME CheckpointsSettled, SkipSavesNothing, EngineInv, CallsInv, PlanInv, LoadedInv, AheadInv,
         EffectOf("save"), NEW v \in Views
  PROVE  \/ \A lsn \in Indexable(0) : Holds(times[v], lsn)
         \/ op = "checkpoint" /\ scenario.crashAt = {}
         \/ /\ op \in {"checkpoint", "shutdown"}
            /\ UpTo(times[v], wm_file[v]) /\ UpTo(times[v], watermarks[v])
<1> USE DEF EngineInv
<1>1. /\ Head(todo) \in Left /\ Head(todo).do = "save" /\ "save" \in StepsOf(op)
      /\ mode # "down"
      /\ Step1("rebuild") \notin Left /\ Step1("catch_up") \notin Left
  BY AfterStep, Order DEF Dos
<1>2. op \in {"checkpoint", "shutdown", "shred", "open", "privacy_open"}
  BY <1>1 DEF StepsOf
<1>3. scenario \in Scenarios /\ mode \in {"normal", "skip"}
  BY <1>1 DEF EngineTypeOK
<1>4. ViewsLoaded
  <2>1. CASE mode = "normal"
    BY <1>1, <2>1 DEF ViewsLoaded
  <2>2. CASE mode = "skip"
    <3>1. "skip" \in scenario.boots
      BY <2>2 DEF PlanInv
    <3>2. op \notin {"checkpoint", "shutdown"}
      BY <1>3, <3>1 DEF SkipSavesNothing, PlanInv, Maintenance
    <3>3. op # "open"
      <4>1. Step1("reset_watermarks").do = "reset_watermarks" /\ Step1("open_attr").do = "open_attr"
        BY DoOf
      <4> QED BY <1>1, <2>2, <4>1 DEF PlanInv
    <3> QED BY <1>1, <1>2, <2>2, <3>2, <3>3 DEF ViewsLoaded
  <2> QED BY <1>3, <2>1, <2>2
<1>5. InFlight = {} => \A lsn \in Indexable(0) : Holds(times[v], lsn)
  <2>1. InFlight = {} => \A lsn : ~CallAt({"views"}, lsn)
    BY DEF InFlight, Idle, CallAt
  <2> QED BY <1>4, <2>1 DEF LoadedInv
<1>6. CASE op \notin {"checkpoint", "shutdown"}
  <2>1. InFlight = {}
    BY <1>2, <1>6 DEF CallsInv, TaskInv
  <2> QED BY <1>5, <2>1
<1>7. CASE op = "shutdown" \/ (op = "checkpoint" /\ scenario.crashAt # {})
  <2>1. op \in scenario.quiet \/ scenario.writers <= 1
    BY <1>3, <1>7 DEF CheckpointsSettled, PlanInv, Maintenance
  <2>2. CASE op \in scenario.quiet
    BY <1>5, <1>7, <2>2 DEF CallsInv
  <2>3. CASE scenario.writers <= 1
    <3>1. ASSUME NEW lsn \in Indexable(0), ~Holds(times[v], lsn)
          PROVE  wm_file[v] < lsn /\ watermarks[v] < lsn
      <4>1. PICK c \in Appenders : call[c].at = "views" /\ call[c].lsn = lsn
        BY <1>4, <3>1 DEF LoadedInv, CallAt
      <4> QED BY <2>3, <3>1, <4>1 DEF AheadInv
    <3>2. \A lsn \in Indexable(0) : lsn \in Nat /\ wm_file[v] \in Lsns /\ watermarks[v] \in Lsns
      BY LsnType DEF EngineTypeOK
    <3>3. /\ \A lsn \in Indexable(0) : lsn <= wm_file[v] => Holds(times[v], lsn)
          /\ \A lsn \in Indexable(0) : lsn <= watermarks[v] => Holds(times[v], lsn)
      BY <3>1, <3>2 DEF Lsns, NoLsn
    <3> QED BY <1>7, <3>3 DEF UpTo
  <2> QED BY <2>1, <2>2, <2>3
<1> QED BY <1>6, <1>7

\* A snapshot stays good as the log grows.
LEMMA UpToStays ==
  ASSUME EngineTypeOK, Extends, NEW t, NEW wm \in Lsns, wm < Len(log), UpTo(t, wm)
  PROVE  \A lsn \in Indexable(0)' : lsn <= wm => t[log'[lsn + 1].id] >= 1
<1>1. Len(log) \in Nat
  BY LogType
<1> SUFFICES ASSUME NEW lsn \in Indexable(0)', lsn <= wm PROVE t[log'[lsn + 1].id] >= 1
  OBVIOUS
<1>2. lsn # Len(log)
  BY <1>1 DEF Lsns, NoLsn
<1>3. lsn \in Indexable(0) /\ log'[lsn + 1] = log[lsn + 1]
  BY <1>2, LsnKept
<1> QED BY <1>3 DEF UpTo, Holds

LEMMA SavedStays ==
  ASSUME EngineTypeOK, PlanInv, Extends, NEW v \in Views, Saved(v),
         ckpt'[v] = ckpt[v], wm_file'[v] = wm_file[v]
  PROVE  Saved(v)'
<1>1. wm_file[v] \in Lsns /\ wm_file[v] < Len(log)
  BY DEF EngineTypeOK, PlanInv
<1>2. ckpt[v].present =>
        \A lsn \in Indexable(0)' : lsn <= wm_file[v] => ckpt[v].times[log'[lsn + 1].id] >= 1
  BY <1>1, UpToStays DEF Saved
<1> QED BY <1>2 DEF Saved, UpTo, Holds

\* What excuses a snapshot before a step still does after it.
LEMMA ExcusedStays ==
  ASSUME EngineInv, NEW d \in Dos, EffectOf(d), NEW v \in Views, Excused(v),
         Save(v) # Head(todo)
  PROVE  Excused(v)'
<1>1. /\ op' = op \/ (op' = "none" /\ Left' = {})
      /\ \A e : Step1(e) \in Left => e = d \/ Step1(e) \in Left'
      /\ Save(v) \in Left => Save(v) \in Left'
      /\ Left' \subseteq Left /\ d \in StepsOf(op)
  BY AfterStep DEF EngineInv
<1>2. /\ scenario' = scenario
      /\ marker' = (d = "mark" \/ (d # "unmark" /\ marker))
      /\ IF d = "exit" THEN mode' = "down" ELSE mode' = mode
  BY DEF EffectOf
<1>3. CASE /\ marker
           /\ mode = "down" \/ Save(v) \in Left
                \/ (op = "privacy_open" /\ Step1("rebuild") \in Left)
  <2>1. d = "unmark" => Save(v) \notin Left /\ Step1("rebuild") \notin Left /\ mode # "down"
    BY Order, AfterStep DEF EngineInv
  <2>2. marker'
    BY <1>2, <1>3, <2>1
  <2>3. mode = "down" => mode' = "down"
    BY <1>2
  <2>4. CASE op = "privacy_open" /\ Step1("rebuild") \in Left
    <3>1. CASE d = "rebuild"
      <4>1. Save(v) \in Sure(op)
        BY <2>4 DEF Sure, Saving
      <4> QED BY <2>2, <3>1, <4>1, Order DEF Excused, EngineInv
    <3>2. CASE d # "rebuild"
      BY <1>1, <2>2, <2>4, <3>2 DEF Excused
    <3> QED BY <3>1, <3>2
  <2> QED BY <1>1, <1>3, <2>2, <2>3, <2>4 DEF Excused
<1>4. CASE op = "open" /\ Step1("catch_up") \notin Left /\ Save(v) \in Left
  <2>1. op' = "open"
    BY <1>1, <1>4
  <2> QED BY <1>1, <1>4, <2>1 DEF Excused
<1>5. CASE /\ scenario.crashAt = {} /\ mode # "down" /\ Step1("catch_up") \notin Left
           /\ op = "shutdown" => Save(v) \in Left
  <2>1. d # "exit"
    <3>1. d = "exit" => op = "shutdown" /\ Save(v) \notin Left
      BY <1>1, Order DEF StepsOf, EngineInv
    <3> QED BY <1>5, <3>1
  <2> QED BY <1>1, <1>2, <1>5, <2>1 DEF Excused
<1> QED BY <1>3, <1>4, <1>5 DEF Excused

\* A snapshot and its watermark are written.
LEMMA SavedTask ==
  ASSUME BootsWhole, CheckpointsSettled, SkipSavesNothing, EngineInv, CallsInv, PlanInv, ViewsInv,
         Extends, NEW d \in Dos, Does(d)
  PROVE  SavedInv'
<1> USE DEF EngineInv
<1>1. EffectOf(d)
  BY DEF Does
<1>2. /\ Head(todo) \in Left /\ Head(todo).do = d /\ Left' \subseteq Left
      /\ d \in StepsOf(op) /\ (mode = "down" => d = "exit")
      /\ op' = op \/ (op' = "none" /\ Left' = {})
      /\ \A v : Save(v) \in Left => Save(v) = Head(todo) \/ Save(v) \in Left'
      /\ d # "save" => Head(todo) = Step1(d) /\ \A v : Save(v) # Head(todo)
  BY <1>1, AfterStep
<1>3. /\ scenario' = scenario /\ scenario \in Scenarios /\ marker \in BOOLEAN
      /\ marker' = (d = "mark" \/ (d # "unmark" /\ marker))
      /\ IF d = "exit" THEN mode' = "down" ELSE mode' = mode
  BY <1>1 DEF EffectOf, EngineTypeOK
<1>4. \A v \in Views : Saved(v) \/ Excused(v)
  BY DEF ViewsInv, SavedInv
<1>5. CASE d \notin {"save", "persist_watermarks"}
  <2>1. UNCHANGED <<ckpt, wm_file>>
    BY <1>5 DEF Does
  <2>2. ASSUME NEW v \in Views
        PROVE  Saved(v)' \/ Excused(v)'
    <3>1. Saved(v) => Saved(v)'
      BY <2>1, SavedStays
    <3>2. Excused(v) => Excused(v)'
      BY <1>1, <1>2, <1>5, ExcusedStays
    <3> QED BY <1>4, <3>1, <3>2
  <2> QED BY <2>2 DEF SavedInv
<1>6. CASE d = "persist_watermarks"
  <2>1. /\ ckpt' = ckpt /\ wm_file' = watermarks /\ log' = log /\ mode' = mode
        /\ mode # "down" /\ marker' = marker
        /\ \A v : Save(v) \in Left => Save(v) \in Left'
        /\ Step1("persist_watermarks") \in Left
    <3>1. ckpt' = ckpt /\ wm_file' = watermarks /\ log' = log
      BY <1>6 DEF Does
    <3>2. mode' = mode /\ mode # "down" /\ marker' = marker
      BY <1>2, <1>3, <1>6
    <3>3. /\ \A v : Save(v) \in Left => Save(v) \in Left'
          /\ Step1("persist_watermarks") \in Left
      BY <1>2, <1>6
    <3> QED BY <3>1, <3>2, <3>3
  <2>2. /\ Step1("rebuild") \notin Left' /\ Step1("catch_up") \notin Left'
    BY <1>1, <1>2, <1>6, Order
  <2>3. op \in {"checkpoint", "shutdown", "rebuild", "shred", "open", "privacy_open"}
    BY <1>2, <1>6 DEF StepsOf
  <2>4. ASSUME NEW v \in Views
        PROVE  Saved(v)' \/ Excused(v)'
    <3>1. CASE UpTo(ckpt[v].times, watermarks[v])
      BY <2>1, <3>1 DEF Saved, UpTo, Holds, Indexable
    <3>2. CASE op = "rebuild" \/ (op = "checkpoint" /\ scenario.crashAt = {})
      <4>1. scenario.crashAt = {}
        BY <1>3, <3>2 DEF BootsWhole, PlanInv, Maintenance
      <4>2. op' # "shutdown"
        BY <1>2, <3>2
      <4> QED BY <1>3, <2>1, <2>2, <4>1, <4>2 DEF Excused
    <3>3. CASE Checkpointing /\ ~UpTo(ckpt[v].times, watermarks[v])
      <4>1. Save(v) \in Left
        BY <2>1, <3>3 DEF ViewsInv, FreshInv
      <4>2. Save(v) \in Left' /\ op' = op
        BY <1>2, <2>1, <4>1
      <4>3. op \notin {"checkpoint", "shutdown"}
        <5>1. op \in {"checkpoint", "shutdown"} => \A x \in Left' : x.do # "save"
          BY <1>1, <1>6, StepTodo DEF EffectOf, TaskInv
        <5> QED BY <4>2, <5>1 DEF Save
      <4>4. CASE op = "open"
        BY <2>2, <4>2, <4>4 DEF Excused
      <4>5. CASE op \in {"shred", "privacy_open"}
        <5>1. "mark" # d /\ Step1("mark") \notin Left
          <6>1. Step1("mark") \notin Left'
            BY <1>1, <1>6, Order
          <6> QED BY <1>1, <1>6, <6>1, AfterStep
        <5>2. marker'
          BY <2>1, <4>5, <5>1 DEF PlanInv
        <5> QED BY <4>2, <5>2 DEF Excused
      <4> QED BY <2>3, <3>3, <4>3, <4>4, <4>5 DEF Checkpointing
    <3> QED BY <2>3, <3>1, <3>2, <3>3 DEF Checkpointing
  <2> QED BY <2>4 DEF SavedInv
<1>7. CASE d = "save"
  <2>1. PICK w : w = Head(todo).view
    OBVIOUS
  <2>2. PICK k : k = [present |-> TRUE, times |-> times[w], clear |-> w \in clear]
    OBVIOUS
  <2>3. /\ ckpt' = [ckpt EXCEPT ![w] = k] /\ UNCHANGED <<log, wm_file>> /\ mode' = mode
        /\ mode # "down"
    BY <1>2, <1>3, <1>7, <2>1, <2>2 DEF Does, save_view
  <2>4. ASSUME NEW v \in Views
        PROVE  Saved(v)' \/ Excused(v)'
    <3>1. CASE v = w
      <4>1. ckpt'[v].times = times[v] /\ EffectOf("save")
        BY <1>1, <1>7, <2>2, <2>3, <3>1 DEF EngineTypeOK
      <4>2. \/ \A lsn \in Indexable(0) : Holds(times[v], lsn)
            \/ op = "checkpoint" /\ scenario.crashAt = {}
            \/ UpTo(times[v], wm_file[v])
        BY <4>1, SaveSound DEF ViewsInv
      <4>3. CASE op = "checkpoint" /\ scenario.crashAt = {}
        <5>1. Step1("catch_up") \notin Left' /\ op' # "shutdown"
          BY <1>1, <1>2, <4>3, Order
        <5> QED BY <1>3, <2>3, <4>3, <5>1 DEF Excused
      <4>4. CASE UpTo(times[v], wm_file[v])
        BY <2>3, <4>1, <4>4 DEF Saved, UpTo, Holds, Indexable
      <4> QED BY <4>2, <4>3, <4>4 DEF UpTo
    <3>2. CASE v # w
      <4>1. ckpt'[v] = ckpt[v] /\ Save(v) # Head(todo)
        BY <2>1, <2>3, <3>2 DEF EngineTypeOK, Save
      <4>2. Saved(v) => Saved(v)'
        BY <2>3, <4>1, SavedStays
      <4>3. Excused(v) => Excused(v)'
        BY <1>1, <4>1, ExcusedStays
      <4> QED BY <1>4, <4>2, <4>3
    <3> QED BY <3>1, <3>2
  <2> QED BY <2>4 DEF SavedInv
<1> QED BY <1>5, <1>6, <1>7

LEMMA SavedNext ==
  ASSUME LogKept, ShredQuiet, BootsWhole, CheckpointsSettled, SkipSavesNothing,
         EngineInv, CallsInv, PlanInv, ViewsInv, [Next]_vars
  PROVE  SavedInv'
<1> USE DEF EngineInv
<1>1. Extends
  BY ExtendsNext
<1>2. \A v \in Views : Saved(v) \/ Excused(v)
  BY DEF ViewsInv, SavedInv
<1>3. ASSUME UNCHANGED <<ckpt, wm_file>>, \A v \in Views : Excused(v) => Excused(v)'
      PROVE  SavedInv'
  <2>1. \A v \in Views : Saved(v) => Saved(v)'
    BY <1>1, <1>3, SavedStays
  <2> QED BY <1>2, <1>3, <2>1 DEF SavedInv
<1>4. CASE UNCHANGED <<ckpt, wm_file, marker, task>>
  BY <1>3, <1>4 DEF Excused, Left, task
<1>5. \/ UNCHANGED <<log, ram, disk, task, call>>
      \/ \E c \in Appenders, key \in Keys \cup {NoKey}, hvm \in BOOLEAN : Appending(c, key, hvm)
      \/ \E c \in Appenders : index_views(c) \/ index_attr(c)
      => UNCHANGED <<ckpt, wm_file, marker, task>>
  BY DEF Appending, Logged, index_views, index_attr, disk
<1>6. ASSUME NEW o \in Maintenance, start(o)
      PROVE  SavedInv'
  <2>1. /\ op' = o /\ op = "none" /\ todo' = Program(o) /\ mode # "down"
        /\ UNCHANGED <<disk, mode, scenario>>
    BY <1>6 DEF start, Serving
  <2>2. Left = {}
    BY <2>1, NoSteps DEF TaskInv, Left
  <2>3. Step1("catch_up") \notin Left'
    <3>1. \A x \in Left' : x.do \in StepsOf(o)
      BY <2>1, ProgramTodo DEF Remaining, Left
    <3> QED BY <3>1, DoOf DEF StepsOf, Maintenance
  <2>4. o = "shutdown" => \A v \in Views : Save(v) \in Left'
    BY <2>1, ProgramTodo DEF Sure, Saving, Left
  <2>5. \A v \in Views : Excused(v) => Excused(v)'
    BY <2>1, <2>2, <2>3, <2>4 DEF Excused
  <2> QED BY <1>3, <2>1, <2>5 DEF disk
<1>7. ASSUME NEW m \in {"normal", "skip"}, open(m)
      PROVE  SavedInv'
  <2>1. /\ mode = "down" /\ op' = (IF marker THEN "privacy_open" ELSE "open")
        /\ todo' = (IF marker THEN OpenPrivacy(m) ELSE IF m = "skip" THEN OpenSkip ELSE OpenNormal)
        /\ UNCHANGED disk
    BY <1>7 DEF open
  <2>2. \A v : Save(v) \notin Left
    <3>1. \A x \in Left : x.do = "exit"
      BY <2>1 DEF TaskInv
    <3> QED BY <3>1 DEF Save
  <2>3. marker => \A v \in Views : Save(v) \in Left'
    BY <2>1, OpenPrivacySteps DEF Saving, Left
  <2>4. \A v \in Views : Excused(v) => Excused(v)'
    BY <2>1, <2>2, <2>3 DEF Excused, disk
  <2> QED BY <1>3, <2>1, <2>4 DEF disk
<1>8. ASSUME NEW d \in Dos, Does(d)
      PROVE  SavedInv'
  BY <1>1, <1>8, SavedTask
<1>9. CASE crash
  <2>1. /\ op \in scenario.crashAt /\ mode' = "down" /\ UNCHANGED <<disk, scenario>>
    BY <1>9 DEF crash, Stopped
  <2>2. op # "open" /\ scenario.crashAt # {}
    BY <2>1 DEF BootsWhole, EngineTypeOK
  <2>3. \A v \in Views : Excused(v) => Excused(v)'
    BY <2>1, <2>2 DEF Excused, disk
  <2> QED BY <1>3, <2>1, <2>3 DEF disk
<1> QED BY <1>4, <1>5, <1>6, <1>7, <1>8, <1>9, NextKinds

\* While a checkpoint or a shutdown has the watermarks to persist and a view
\* saved, the registry is locked.
LEMMA CheckpointLocks ==
  ASSUME TaskInv, op \in {"checkpoint", "shutdown"}, Step1("persist_watermarks") \in Left, ~Locked,
         NEW v \in Views
  PROVE  Save(v) \in Left
<1> SUFFICES ASSUME Save(v) \notin Left PROVE Locked
  OBVIOUS
<1>1. /\ todo \in Seq(Item) /\ TodoInv
      /\ \A x \in Left : \A y \in Sure(op) : Rank(x.do) < Rank(y.do) => y \in Left
  BY DEF TaskInv, TodoInv, Remaining, Listed, Left
<1>2. Save(v) \in Sure(op) /\ Step1("unlock") \in Sure(op) /\ Save(v).do = "save"
  BY DEF Sure, Saving, Save
<1>3. \A d : Step1(d).do = d
  BY DoOf
<1>4. Step1("unlock") \in Left
  BY <1>1, <1>2, <1>3, Ranks
<1>5. Pending("unlock")
  BY <1>3, <1>4 DEF Pending, Left, Items
<1>6. ASSUME Pending("lock")
      PROVE  FALSE
  <2>1. PICK x \in Left : x.do = "lock"
    BY <1>6 DEF Pending, Left, Items
  <2>2. Save(v) \in Left
    BY <1>1, <1>2, <2>1, Ranks
  <2> QED BY <2>2
<1> QED BY <1>5, <1>6 DEF Locked

LEMMA FreshKept ==
  ASSUME EngineTypeOK, PlanInv, FreshInv, Extends, UNCHANGED <<ckpt, watermarks>>,
         Checkpointing' /\ Step1("persist_watermarks") \in Left' =>
           /\ Checkpointing /\ Step1("persist_watermarks") \in Left
           /\ \A v \in Views : Save(v) \in Left => Save(v) \in Left'
  PROVE  FreshInv'
<1> SUFFICES ASSUME Checkpointing', Step1("persist_watermarks") \in Left', NEW v \in Views,
                    Save(v) \notin Left'
             PROVE  UpTo(ckpt[v].times, watermarks[v])'
  BY DEF FreshInv
<1>1. UpTo(ckpt[v].times, watermarks[v])
  BY DEF FreshInv
<1>2. watermarks[v] \in Lsns /\ watermarks[v] < Len(log)
  BY DEF EngineTypeOK, PlanInv
<1>3. \A lsn \in Indexable(0)' : lsn <= watermarks[v] => ckpt[v].times[log'[lsn + 1].id] >= 1
  BY <1>1, <1>2, UpToStays
<1> QED BY <1>3 DEF UpTo, Holds

LEMMA FreshTask ==
  ASSUME CheckpointsSettled, SkipSavesNothing, EngineInv, CallsInv, PlanInv, ViewsInv, Extends,
         NEW d \in Dos, Does(d)
  PROVE  FreshInv'
<1> USE DEF EngineInv
<1>1. EffectOf(d) /\ FreshInv
  BY DEF Does, ViewsInv
<1>2. /\ Head(todo) \in Left /\ Head(todo).do = d /\ Left' \subseteq Left
      /\ d \in StepsOf(op) /\ (mode = "down" => d = "exit")
      /\ op' = op \/ (op' = "none" /\ Left' = {})
      /\ \A v : Save(v) \in Left => Save(v) = Head(todo) \/ Save(v) \in Left'
      /\ d # "save" => Head(todo) = Step1(d) /\ \A v : Save(v) # Head(todo)
  BY <1>1, AfterStep
<1>3. SUFFICES ASSUME Checkpointing', Step1("persist_watermarks") \in Left'
               PROVE  FreshInv'
  BY DEF FreshInv
<1>4. /\ op' = op /\ scenario' = scenario /\ Step1("persist_watermarks") \in Left
      /\ d \in {"mark", "destroy_key", "lock", "rebuild", "catch_up", "reset_watermarks",
                "save", "persist_watermarks"}
  BY <1>1, <1>2, <1>3, Order DEF EffectOf
<1>5. Checkpointing
  BY <1>3, <1>4 DEF Checkpointing
<1>6. CASE d \in {"mark", "destroy_key", "lock", "persist_watermarks"}
  <2>1. UNCHANGED <<ckpt, watermarks>>
    BY <1>6 DEF Does
  <2> QED BY <1>1, <1>2, <1>4, <1>5, <1>6, <2>1, FreshKept
<1>7. CASE d = "rebuild"
  <2>1. op \in {"shred", "privacy_open"}
    BY <1>2, <1>5, <1>7 DEF StepsOf, Checkpointing
  <2>2. \A v \in Views : Save(v) \in Sure(op)
    BY <2>1 DEF Sure, Saving
  <2>3. \A v \in Views : Save(v) \in Left'
    BY <1>1, <1>7, <2>2, Order
  <2> QED BY <2>3 DEF FreshInv
<1>8. CASE d = "catch_up"
  <2>1. \A v \in Views : Save(v) \in Left
    BY <1>2, <1>8 DEF PlanInv
  <2>2. \A v \in Views : Save(v) \in Left'
    BY <1>2, <1>8, <2>1
  <2> QED BY <2>2 DEF FreshInv
<1>9. CASE d = "reset_watermarks"
  <2>1. op = "open" /\ mode # "down" /\ Step1("reset_watermarks") \in Left
    BY <1>2, <1>9 DEF StepsOf
  <2>2. mode = "skip"
    BY <2>1 DEF PlanInv, EngineTypeOK
  <2>3. Step1("persist_watermarks") \in {Step1("reset_watermarks"), Step1("open_attr")}
    BY <1>4, <2>1, <2>2 DEF PlanInv
  <2> QED BY <2>3 DEF Step1
<1>10. CASE d = "save"
  <2>1. PICK w : w = Head(todo).view
    OBVIOUS
  <2>2. PICK k : k = [present |-> TRUE, times |-> times[w], clear |-> w \in clear]
    OBVIOUS
  <2>3. ckpt' = [ckpt EXCEPT ![w] = k] /\ UNCHANGED <<log, watermarks>>
    BY <1>10, <2>1, <2>2 DEF Does, save_view
  <2>4. ASSUME NEW v \in Views, Save(v) \notin Left'
        PROVE  UpTo(ckpt[v].times, watermarks[v])'
    <3>1. CASE v = w
      <4>1. ckpt'[v].times = times[v] /\ EffectOf("save")
        BY <1>1, <1>10, <2>2, <2>3, <3>1 DEF EngineTypeOK
      <4>2. \/ \A lsn \in Indexable(0) : Holds(times[v], lsn)
            \/ op = "checkpoint" /\ scenario.crashAt = {}
            \/ UpTo(times[v], watermarks[v])
        BY <4>1, SaveSound DEF ViewsInv
      <4>3. UpTo(times[v], watermarks[v])
        BY <1>5, <4>2 DEF Checkpointing, UpTo
      <4> QED BY <2>3, <4>1, <4>3 DEF UpTo, Holds, Indexable
    <3>2. CASE v # w
      <4>1. ckpt'[v] = ckpt[v] /\ Save(v) # Head(todo)
        BY <2>1, <2>3, <3>2 DEF EngineTypeOK, Save
      <4>2. Save(v) \notin Left
        BY <1>2, <2>4, <4>1
      <4>3. UpTo(ckpt[v].times, watermarks[v])
        BY <1>1, <1>4, <1>5, <4>2 DEF FreshInv
      <4> QED BY <2>3, <4>1, <4>3 DEF UpTo, Holds, Indexable
    <3> QED BY <3>1, <3>2
  <2> QED BY <2>4 DEF FreshInv
<1> QED BY <1>4, <1>6, <1>7, <1>8, <1>9, <1>10

LEMMA FreshNext ==
  ASSUME LogKept, ShredQuiet, CheckpointsSettled, SkipSavesNothing,
         EngineInv, CallsInv, PlanInv, ViewsInv, [Next]_vars
  PROVE  FreshInv'
<1> USE DEF EngineInv
<1>1. Extends /\ FreshInv
  BY ExtendsNext DEF ViewsInv
<1>2. CASE UNCHANGED <<ckpt, watermarks, task>>
  BY <1>1, <1>2, FreshKept DEF Checkpointing, Left, task
<1>3. \/ UNCHANGED <<log, ram, disk, task, call>>
      \/ \E c \in Appenders, key \in Keys \cup {NoKey}, hvm \in BOOLEAN : Appending(c, key, hvm)
      \/ \E c \in Appenders : index_attr(c)
      => UNCHANGED <<ckpt, watermarks, task>>
  BY DEF Appending, Logged, index_attr, ram, disk
<1>4. ASSUME NEW c \in Appenders, index_views(c)
      PROVE  FreshInv'
  <2>1. c \in InFlight /\ ~Locked /\ UNCHANGED task
    BY <1>4 DEF index_views, InFlight, Idle
  <2>2. ASSUME Checkpointing, Step1("persist_watermarks") \in Left, NEW v \in Views
        PROVE  Save(v) \in Left
    <3>1. op \in {"checkpoint", "shutdown"}
      BY <2>1, <2>2 DEF Checkpointing, CallsInv, TaskInv
    <3> QED BY <2>1, <2>2, <3>1, CheckpointLocks
  <2> QED BY <2>1, <2>2 DEF FreshInv, Checkpointing, Left, task
<1>5. ASSUME NEW o \in Maintenance, start(o)
      PROVE  FreshInv'
  <2>1. op' = o /\ todo' = Program(o)
    BY <1>5 DEF start
  <2>2. o # "rebuild" => \A v \in Views : Save(v) \in Left'
    <3>1. o # "rebuild" => \A v \in Views : Save(v) \in Sure(o)
      BY DEF Sure, Saving, Maintenance
    <3> QED BY <2>1, <3>1, ProgramTodo DEF Left
  <2> QED BY <2>1, <2>2 DEF FreshInv, Checkpointing
<1>6. ASSUME NEW m \in {"normal", "skip"}, open(m)
      PROVE  FreshInv'
  <2>1. todo' = (IF marker THEN OpenPrivacy(m) ELSE IF m = "skip" THEN OpenSkip ELSE OpenNormal)
    BY <1>6 DEF open
  <2>2. CASE marker
    <3>1. \A v \in Views : Save(v) \in Left'
      BY <2>1, <2>2, OpenPrivacySteps DEF Saving, Left
    <3> QED BY <3>1 DEF FreshInv
  <2>3. CASE ~marker /\ m = "skip"
    <3>1. Left' = {Step1(d) : d \in {"reset_watermarks", "open_attr"}}
      BY <2>1, <2>3, OpenSkipSteps DEF Left
    <3>2. Step1("persist_watermarks") \notin Left'
      BY <3>1 DEF Step1
    <3> QED BY <3>2 DEF FreshInv
  <2>4. CASE ~marker /\ m # "skip"
    <3>1. \A v \in Views : Save(v) \in Left'
      BY <2>1, <2>4, OpenNormalSteps DEF Saving, Left
    <3> QED BY <3>1 DEF FreshInv
  <2> QED BY <2>2, <2>3, <2>4
<1>7. ASSUME NEW d \in Dos, Does(d)
      PROVE  FreshInv'
  BY <1>1, <1>7, FreshTask
<1>8. CASE crash
  <2>1. op' = "none"
    BY <1>8 DEF crash
  <2> QED BY <2>1 DEF FreshInv, Checkpointing
<1> QED BY <1>2, <1>3, <1>4, <1>5, <1>6, <1>7, <1>8, NextKinds

-----------------------------------------------------------------------------
(* The attribute index.                                                     *)

LEMMA AttrFromType ==
  ASSUME EngineTypeOK, NEW a, AttrTyped(a)
  PROVE  AttrFrom(a) \in 0..Len(log) /\ Len(log) \in Nat
BY LogType DEF AttrTyped, AttrFrom

\* A replay from where the index says it is complete makes it whole.
LEMMA AttrReplayedWhole ==
  ASSUME EngineTypeOK, NEW a, AttrTyped(a)
  PROVE  AttrTyped(AttrReplayed(a)) /\ (Resumable(a) => Whole(AttrReplayed(a)))
<1> DEFINE f == AttrFrom(a)
           S == Indexable(f)
           T == S \cup {a.wm}
<1>1. f \in 0..Len(log) /\ Len(log) \in Nat /\ a.wm \in 0..Len(log)
  BY AttrFromType DEF AttrTyped
<1>2. S \subseteq f..(Len(log) - 1)
  BY DEF Indexable
<1>3. AttrReplayed(a).posts = a.posts \cup {<<lsn, log[lsn + 1].key>> : lsn \in S}
  BY DEF AttrReplayed
<1>4. AttrReplayed(a).wm = CHOOSE w \in {a.wm} \cup S : \A lsn \in S \cup {a.wm} : lsn <= w
  BY DEF AttrReplayed
<1>5. \A lsn \in Indexable(0) : lsn < f \/ lsn \in S
  BY <1>1 DEF Indexable
<1>6. AttrReplayed(a).wm \in 0..Len(log)
  <2>1. S \subseteq 0..Len(log)
    BY <1>1, <1>2
  <2> HIDE DEF S, f
  <2>2. T \subseteq 0..Len(log) /\ T # {}
    BY <1>1, <2>1
  <2>3. IsFiniteSet(T) /\ T \subseteq Nat
    <3>1. IsFiniteSet(0..Len(log)) /\ 0..Len(log) \subseteq Nat
      BY <1>1, FS_Interval
    <3> QED BY <2>2, <3>1, FS_Subset
  <2>4. \E w \in T : \A lsn \in T : lsn <= w
    BY <2>2, <2>3, FiniteMax
  <2>5. \E w \in {a.wm} \cup S : \A lsn \in S \cup {a.wm} : lsn <= w
    BY <2>4
  <2>6. AttrReplayed(a).wm \in {a.wm} \cup S
    BY <1>4, <2>5
  <2> QED BY <2>2, <2>6
<1>7. ASSUME Resumable(a), NEW lsn \in Indexable(0)
      PROVE  Posted(AttrReplayed(a), lsn)
  <2>1. CASE lsn < f
    BY <1>3, <1>7, <2>1 DEF Resumable, Posted
  <2>2. CASE lsn \in S
    BY <1>3, <2>2 DEF Posted
  <2> QED BY <1>5, <2>1, <2>2
<1> QED BY <1>6, <1>7 DEF AttrTyped, Whole

LEMMA AttrAppliedPosts ==
  ASSUME NEW a, NEW lsn, NEW key, NEW plain
  PROVE  /\ AttrApplied(a, lsn, key, plain).posts = a.posts \cup {<<lsn, key>>}
         /\ AttrApplied(a, lsn, key, plain).wm \in {lsn, a.wm}
BY DEF AttrApplied

\* What an index can resume from, it still can when the log has grown.
LEMMA ResumableStays ==
  ASSUME EngineTypeOK, Extends, NEW a, AttrTyped(a), Resumable(a)
  PROVE  \A lsn \in Indexable(0)' : lsn < AttrFrom(a) => <<lsn, log'[lsn + 1].key>> \in a.posts
<1> SUFFICES ASSUME NEW lsn \in Indexable(0)', lsn < AttrFrom(a)
             PROVE  <<lsn, log'[lsn + 1].key>> \in a.posts
  OBVIOUS
<1>1. lsn # Len(log)
  BY AttrFromType
<1>2. lsn \in Indexable(0) /\ log'[lsn + 1] = log[lsn + 1]
  BY <1>1, LsnKept
<1> QED BY <1>2 DEF Resumable, Posted

LEMMA WholeResumable == \A a : Whole(a) => Resumable(a)
BY DEF Whole, Resumable

LEMMA EmptyResumable == Resumable(EmptyAttr)
<1>1. AttrFrom(EmptyAttr) = 0
  BY DEF AttrFrom, EmptyAttr
<1>2. \A lsn \in Indexable(0) : ~(lsn < 0)
  BY DEF Indexable
<1> QED BY <1>1, <1>2 DEF Resumable

LEMMA AttrOrder ==
  ASSUME TaskInv, NEW d \in Dos, EffectOf(d)
  PROVE  /\ d = "replay_attr" => Step1("open_attr") \notin Left
         /\ d = "swap_attr" => Step1("scan_attr") \notin Left
         /\ d = "save_attr" => Step1("replay_attr") \notin Left /\ Step1("open_attr") \notin Left
         /\ Step1("replay_attr") \in Left' =>
              d \notin {"replay_attr", "swap_attr", "receipt", "exit"}
              /\ op \in {"open", "privacy_open"}
         /\ Step1("swap_attr") \in Left' => d \notin {"swap_attr", "receipt", "exit"} /\ op = "shred"
<1>1. /\ Left' \subseteq Left
      /\ \A e : Step1(e) \in Left => Rank(d) <= Rank(e) /\ e \in StepsOf(op)
      /\ \A e : Step1(e) \in Left' => Precedes(d, e)
  BY AfterStep
<1>2. d = "replay_attr" => Step1("open_attr") \notin Left
  <2>1. d = "replay_attr" /\ Step1("open_attr") \in Left => 8 <= 7
    BY <1>1, Ranks
  <2> QED BY <2>1
<1>3. d = "swap_attr" => Step1("scan_attr") \notin Left
  <2>1. d = "swap_attr" /\ Step1("scan_attr") \in Left => 8 <= 7
    BY <1>1, Ranks
  <2> QED BY <2>1
<1>4. d = "save_attr" => Step1("replay_attr") \notin Left /\ Step1("open_attr") \notin Left
  <2>1. /\ d = "save_attr" /\ Step1("replay_attr") \in Left => 10 <= 8
        /\ d = "save_attr" /\ Step1("open_attr") \in Left => 10 <= 7
    BY <1>1, Ranks
  <2> QED BY <2>1
<1>5. ASSUME Step1("replay_attr") \in Left'
      PROVE  /\ d \notin {"replay_attr", "swap_attr", "receipt", "exit"}
             /\ op \in {"open", "privacy_open"}
  <2>1. Precedes(d, "replay_attr") /\ "replay_attr" \in StepsOf(op)
    BY <1>1, <1>5
  <2>2. op \in {"open", "privacy_open"}
    BY <2>1 DEF StepsOf
  <2>3. /\ ~Precedes("replay_attr", "replay_attr") /\ ~Precedes("swap_attr", "replay_attr")
        /\ ~Precedes("receipt", "replay_attr") /\ ~Precedes("exit", "replay_attr")
    BY Ranks DEF Precedes
  <2> QED BY <2>1, <2>2, <2>3
<1>6. ASSUME Step1("swap_attr") \in Left'
      PROVE  d \notin {"swap_attr", "receipt", "exit"} /\ op = "shred"
  <2>1. Precedes(d, "swap_attr") /\ "swap_attr" \in StepsOf(op)
    BY <1>1, <1>6
  <2>2. op = "shred"
    BY <2>1 DEF StepsOf
  <2>3. /\ ~Precedes("swap_attr", "swap_attr")
        /\ ~Precedes("receipt", "swap_attr") /\ ~Precedes("exit", "swap_attr")
    BY Ranks DEF Precedes
  <2> QED BY <2>1, <2>2, <2>3
<1> QED BY <1>2, <1>3, <1>4, <1>5, <1>6

\* What an append and the steps that extend the log do to an idle index.
LEMMA TypedStays ==
  ASSUME EngineTypeOK, Extends, NEW a, AttrTyped(a)
  PROVE  a.wm \in 0..Len(log')
BY LsnKept DEF Extends, AttrTyped

LEMMA AttrTypesNext ==
  ASSUME LogKept, EngineInv, CallsInv, AttrTypes, [Next]_vars
  PROVE  AttrTypes'
<1> USE DEF EngineInv
<1> DEFINE Ok(a) == a.wm \in 0..Len(log')
<1>1. Extends
  BY ExtendsNext
<1>2. Ok(attr) /\ Ok(attr_file) /\ Ok(rebuilt)
  BY <1>1, TypedStays DEF AttrTypes
<1>3. Ok(EmptyAttr) /\ AttrTyped(EmptyAttr)
  <2>1. EmptyAttr.wm = 0
    BY DEF EmptyAttr
  <2> QED BY <1>1, <2>1, LsnKept DEF AttrTyped
<1>4. \A w \in 0..Len(log) : w \in 0..Len(log')
  BY <1>1, LsnKept DEF Extends
<1>5. /\ Ok(AttrReplayed(EmptyAttr)) /\ Ok(AttrReplayed(attr))
  <2>1. AttrReplayed(attr).wm \in 0..Len(log) /\ AttrReplayed(EmptyAttr).wm \in 0..Len(log)
    BY <1>3, AttrReplayedWhole DEF AttrTypes, AttrTyped
  <2> QED BY <1>4, <2>1
<1>6. \A lsn, key, plain : lsn \in 0..Len(log) => Ok(AttrApplied(attr, lsn, key, plain))
  BY <1>2, <1>4, AttrAppliedPosts
<1>7. SUFFICES Ok(attr') /\ Ok(attr_file') /\ Ok(rebuilt')
  BY DEF AttrTypes, AttrTyped
<1> HIDE DEF Ok
<1>8. CASE UNCHANGED <<attr, attr_file, rebuilt>>
  BY <1>2, <1>8
<1>9. /\ UNCHANGED <<log, ram, disk, task, call>> => UNCHANGED <<attr, attr_file, rebuilt>>
      /\ (\E c \in Appenders, key \in Keys \cup {NoKey}, hvm \in BOOLEAN :
            Appending(c, key, hvm)) => UNCHANGED <<attr, attr_file, rebuilt>>
      /\ (\E c \in Appenders : index_views(c)) => UNCHANGED <<attr, attr_file, rebuilt>>
      /\ (\E o \in Maintenance : start(o)) => UNCHANGED <<attr, attr_file, rebuilt>>
      /\ (\E m \in {"normal", "skip"} : open(m)) => UNCHANGED <<attr, attr_file, rebuilt>>
  BY DEF Appending, Logged, index_views, start, open, ram, disk, task
<1>10. ASSUME NEW c \in Appenders, index_attr(c)
       PROVE  Ok(attr') /\ Ok(attr_file') /\ Ok(rebuilt')
  <2>1. /\ attr' = AttrApplied(attr, call[c].lsn, call[c].ev.key, call[c].clear)
        /\ call[c].at = "attr" /\ UNCHANGED <<attr_file, rebuilt>>
    BY <1>10 DEF index_attr, disk, task
  <2>2. call[c].lsn \in 0..Len(log)
    BY <2>1, LogType DEF CallsInv
  <2> QED BY <1>2, <1>6, <2>1, <2>2
<1>11. ASSUME NEW d \in Dos, Does(d)
       PROVE  Ok(attr') /\ Ok(attr_file') /\ Ok(rebuilt')
  <2>1. CASE d = "receipt"
    <3>1. receipt /\ UNCHANGED <<attr_file, rebuilt>>
      BY <1>11, <2>1 DEF Does
    <3>2. attr' = attr \/ attr' = AttrApplied(attr, Len(log), NoKey, FALSE)
      BY <3>1, ReceiptExtends
    <3>3. Len(log) \in 0..Len(log)
      BY LogType
    <3> QED BY <1>2, <1>6, <3>1, <3>2, <3>3
  <2>2. CASE d = "replay_attr"
    <3>1. /\ attr' = AttrReplayed(attr) /\ rebuilt' = rebuilt
          /\ attr_file' = attr_file \/ attr_file' = attr'
      BY <1>11, <2>2 DEF Does, replay_attr
    <3> QED BY <1>2, <1>5, <3>1
  <2>3. CASE d = "scan_attr"
    <3>1. attr' = attr /\ rebuilt' = AttrReplayed(EmptyAttr) /\ attr_file' = rebuilt'
      BY <1>11, <2>3 DEF Does, scan_attr
    <3> QED BY <1>2, <1>5, <3>1
  <2>4. CASE d \in {"open_attr", "swap_attr", "save_attr", "exit"}
    <3>1. /\ attr' \in {attr, attr_file, rebuilt, EmptyAttr}
          /\ attr_file' \in {attr, attr_file} /\ rebuilt' \in {rebuilt, EmptyAttr}
      BY <1>11, <2>4 DEF Does, Stopped
    <3> QED BY <1>2, <1>3, <3>1
  <2>5. CASE d \notin {"receipt", "replay_attr", "scan_attr", "open_attr", "swap_attr",
                       "save_attr", "exit"}
    <3>1. UNCHANGED <<attr, attr_file, rebuilt>>
      BY <1>11, <2>5 DEF Does
    <3> QED BY <1>8, <3>1
  <2> QED BY <2>1, <2>2, <2>3, <2>4, <2>5
<1>12. CASE crash
  <2>1. attr' = EmptyAttr /\ rebuilt' = EmptyAttr /\ attr_file' = attr_file
    BY <1>12 DEF crash, Stopped, disk
  <2> QED BY <1>2, <1>3, <2>1
<1> QED BY <1>8, <1>9, <1>10, <1>11, <1>12, NextKinds

\* Which operation the steps on the index belong to.
LEMMA LeftOps ==
  ASSUME TaskInv
  PROVE  /\ Step1("open_attr") \in Left => op = "open"
         /\ Step1("replay_attr") \in Left => op \in {"open", "privacy_open"}
         /\ Step1("swap_attr") \in Left => op = "shred"
<1>1. \A e : Step1(e) \in Left => e \in StepsOf(op)
  <2>1. \A x \in Left : x.do \in StepsOf(op)
    BY DEF TaskInv, TodoInv, Remaining, Left
  <2> QED BY <2>1, DoOf
<1>2. /\ "open_attr" \in StepsOf(op) => op = "open"
      /\ "replay_attr" \in StepsOf(op) => op \in {"open", "privacy_open"}
      /\ "swap_attr" \in StepsOf(op) => op = "shred"
  BY DEF StepsOf
<1> QED BY <1>1, <1>2

\* The index of a server that serves is loaded.
LEMMA ServingLoaded ==
  ASSUME TaskInv, mode = "normal", op \notin {"open", "privacy_open"}
  PROVE  AttrLoaded
BY LeftOps DEF AttrLoaded

LEMMA PostedStays ==
  ASSUME NEW a, NEW b, a.posts \subseteq b.posts, NEW lsn, Posted(a, lsn),
         log'[lsn + 1] = log[lsn + 1]
  PROVE  <<lsn, log'[lsn + 1].key>> \in b.posts
BY DEF Posted

\* A step that leaves the index, and the calls that are on their way to it.
LEMMA ReachedKept ==
  ASSUME AttrReached, UNCHANGED <<log, attr>>, AttrLoaded' => AttrLoaded,
         \A c \in Appenders : call[c].at # "idle" =>
           call'[c].at \in {"views", "attr"} /\ call'[c].lsn = call[c].lsn
  PROVE  AttrReached'
<1>1. Indexable(0)' = Indexable(0)
  BY DEF Indexable
<1>2. ASSUME NEW lsn, CallAt({"views", "attr"}, lsn)
      PROVE  CallAt({"views", "attr"}, lsn)'
  BY <1>2 DEF CallAt
<1>3. \A lsn : Posted(attr, lsn)' <=> Posted(attr, lsn)
  BY DEF Posted
<1> QED BY <1>1, <1>2, <1>3 DEF AttrReached

LEMMA ReachedAppend ==
  ASSUME EngineTypeOK, AttrReached, NEW c \in Appenders, NEW key \in Keys \cup {NoKey},
         NEW hvm \in BOOLEAN, Appending(c, key, hvm)
  PROVE  AttrReached'
<1>1. /\ Extends /\ Len(log') = Len(log) + 1
      /\ log'[Len(log) + 1] = [id |-> nextId + 1, key |-> key, hvm |-> hvm]
      /\ \A d \in Appenders : d # c => call'[d] = call[d]
      /\ IF hvm THEN call'[c] = Idle
         ELSE /\ call'[c].at = "views" /\ call'[c].lsn = Len(log)
              /\ call'[c].ev = log'[Len(log) + 1] /\ call'[c] # Idle
  BY LoggedExtends DEF Appending
<1>2. call[c].at = "idle" /\ attr' = attr /\ UNCHANGED task
  BY DEF Appending, MayStart, Logged, Idle, ram
<1>3. AttrLoaded' => AttrLoaded
  BY <1>2 DEF AttrLoaded, Left, task
<1>4. ASSUME AttrLoaded, NEW lsn \in Indexable(0)'
      PROVE  <<lsn, log'[lsn + 1].key>> \in attr'.posts \/ CallAt({"views", "attr"}, lsn)'
  <2>1. CASE lsn \in Indexable(0) /\ log'[lsn + 1] = log[lsn + 1]
    <3>1. CASE Posted(attr, lsn)
      BY <1>2, <2>1, <3>1, PostedStays
    <3>2. CASE CallAt({"views", "attr"}, lsn)
      <4>1. PICK d \in Appenders : call[d].at \in {"views", "attr"} /\ call[d].lsn = lsn
        BY <3>2 DEF CallAt
      <4>2. call'[d] = call[d]
        BY <1>1, <1>2, <4>1
      <4> QED BY <4>1, <4>2 DEF CallAt
    <3> QED BY <1>4, <2>1, <3>1, <3>2 DEF AttrReached
  <2>2. CASE lsn = Len(log) /\ ~log'[Len(log) + 1].hvm
    <3>1. ~hvm
      BY <1>1, <2>2
    <3>2. call'[c].at = "views" /\ call'[c].lsn = lsn
      BY <1>1, <2>2, <3>1
    <3> QED BY <3>2 DEF CallAt
  <2> QED BY <1>1, <2>1, <2>2, LsnKept
<1> QED BY <1>3, <1>4, ZenonT(40) DEF AttrReached, Posted

\* A call that ends has entered its episode.
LEMMA ReachedIndex ==
  ASSUME EngineTypeOK, CallsInv, AttrReached, NEW c \in Appenders, index_attr(c)
  PROVE  AttrReached'
<1>1. /\ call[c].at = "attr" /\ UNCHANGED <<log, task>>
      /\ attr' = AttrApplied(attr, call[c].lsn, call[c].ev.key, call[c].clear)
      /\ call' = [call EXCEPT ![c] = Idle]
  BY DEF index_attr
<1>2. attr'.posts = attr.posts \cup {<<call[c].lsn, call[c].ev.key>>}
  BY <1>1, AttrAppliedPosts
<1>3. \A d \in Appenders : d # c => call'[d] = call[d]
  BY <1>1 DEF EngineTypeOK
<1>4. AttrLoaded' => AttrLoaded
  BY <1>1 DEF AttrLoaded, Left, task
<1>5. log[call[c].lsn + 1] = call[c].ev
  BY <1>1 DEF CallsInv
<1>6. ASSUME AttrLoaded, NEW lsn \in Indexable(0)
      PROVE  <<lsn, log[lsn + 1].key>> \in attr'.posts \/ CallAt({"views", "attr"}, lsn)'
  <2>1. CASE Posted(attr, lsn)
    BY <1>2, <2>1 DEF Posted
  <2>2. CASE CallAt({"views", "attr"}, lsn)
    <3>1. PICK d \in Appenders : call[d].at \in {"views", "attr"} /\ call[d].lsn = lsn
      BY <2>2 DEF CallAt
    <3>2. CASE d = c
      BY <1>2, <1>5, <3>1, <3>2
    <3>3. CASE d # c
      BY <1>3, <3>1, <3>3 DEF CallAt
    <3> QED BY <3>2, <3>3
  <2> QED BY <1>6, <2>1, <2>2 DEF AttrReached
<1>7. Indexable(0)' = Indexable(0) /\ log' = log
  BY <1>1 DEF Indexable
<1> QED BY <1>4, <1>6, <1>7 DEF AttrReached, Posted

LEMMA ReachedTask ==
  ASSUME EngineInv, PlanInv, AttrInv, NEW d \in Dos, Does(d)
  PROVE  AttrReached'
<1> USE DEF EngineInv, AttrInv
<1>1. EffectOf(d)
  BY DEF Does
<1>2. SUFFICES ASSUME AttrLoaded' PROVE AttrReached'
  BY DEF AttrReached
<1>3. d # "exit" /\ mode = "normal" /\ mode' = mode /\ call' = call
  BY <1>1, <1>2 DEF EffectOf, AttrLoaded
<1>4. /\ \A e : Step1(e) \in Left => e = d \/ Step1(e) \in Left'
      /\ d # "save" => Step1(d) \in Left
      /\ d = "replay_attr" => Step1("open_attr") \notin Left
      /\ d = "swap_attr" => Step1("scan_attr") \notin Left
  BY <1>1, AfterStep, AttrOrder
<1>5. d # "open_attr"
  <2>1. d = "open_attr" => Step1("replay_attr") \in Left
    BY <1>3, <1>4 DEF PlanInv
  <2>2. Step1("replay_attr") \notin Left'
    BY <1>2 DEF AttrLoaded
  <2> QED BY <1>4, <2>1, <2>2
<1>6. ASSUME Whole(attr')
      PROVE  log' = log => AttrReached'
  BY <1>6 DEF AttrReached, Whole, Posted, Indexable
<1>7. CASE d = "replay_attr"
  <2>1. attr' = AttrReplayed(attr) /\ log' = log
    BY <1>7 DEF Does, replay_attr
  <2>2. Resumable(attr) /\ AttrTyped(attr)
    BY <1>4, <1>7 DEF AttrSteps, AttrTypes
  <2>3. Whole(attr')
    BY <2>1, <2>2, AttrReplayedWhole
  <2> QED BY <1>6, <2>1, <2>3
<1>8. CASE d = "swap_attr"
  <2>1. attr' = rebuilt /\ log' = log
    BY <1>8 DEF Does
  <2>2. Whole(rebuilt)
    BY <1>4, <1>8 DEF AttrSteps
  <2> QED BY <1>6, <2>1, <2>2
<1>9. ASSUME d \notin {"replay_attr", "swap_attr"}
      PROVE  AttrLoaded
  BY <1>2, <1>3, <1>4, <1>5, <1>9 DEF AttrLoaded
<1>10. CASE UNCHANGED <<log, attr>> /\ AttrLoaded
  <2>1. \A c \in Appenders : call[c].at # "idle" => call[c].at \in {"views", "attr"}
    BY DEF EngineTypeOK, Call
  <2> QED BY <1>3, <1>10, <2>1, ReachedKept
<1>11. CASE d = "receipt"
  <2>1. \/ UNCHANGED <<log, attr>>
        \/ /\ Extends /\ Len(log') = Len(log) + 1 /\ log'[Len(log) + 1].key = NoKey
           /\ attr'.posts = attr.posts \cup {<<Len(log), NoKey>>}
    <3>1. receipt
      BY <1>11 DEF Does
    <3>2. \/ UNCHANGED <<log, attr>>
          \/ /\ Extends /\ Len(log') = Len(log) + 1
             /\ log'[Len(log) + 1] = [id |-> nextId + 1, key |-> NoKey, hvm |-> FALSE]
             /\ attr' = AttrApplied(attr, Len(log), NoKey, FALSE)
      BY <3>1, ReceiptExtends
    <3>3. attr' = AttrApplied(attr, Len(log), NoKey, FALSE) =>
            attr'.posts = attr.posts \cup {<<Len(log), NoKey>>}
      BY DEF AttrApplied
    <3>4. log'[Len(log) + 1] = [id |-> nextId + 1, key |-> NoKey, hvm |-> FALSE] =>
            log'[Len(log) + 1].key = NoKey
      OBVIOUS
    <3> QED BY <3>2, <3>3, <3>4
  <2>2. ASSUME Extends, Len(log') = Len(log) + 1, log'[Len(log) + 1].key = NoKey,
               attr'.posts = attr.posts \cup {<<Len(log), NoKey>>}, NEW lsn \in Indexable(0)'
        PROVE  <<lsn, log'[lsn + 1].key>> \in attr'.posts \/ CallAt({"views", "attr"}, lsn)'
    <3>2. CASE lsn \in Indexable(0) /\ log'[lsn + 1] = log[lsn + 1]
      <4>1. Posted(attr, lsn) \/ CallAt({"views", "attr"}, lsn)
        BY <1>9, <1>11, <3>2 DEF AttrReached
      <4>2. Posted(attr, lsn) => <<lsn, log'[lsn + 1].key>> \in attr'.posts
        BY <2>2, <3>2 DEF Posted
      <4>3. CallAt({"views", "attr"}, lsn) => CallAt({"views", "attr"}, lsn)'
        BY <1>3 DEF CallAt
      <4> QED BY <4>1, <4>2, <4>3
    <3>3. CASE lsn = Len(log)
      BY <2>2, <3>3
    <3> QED BY <2>2, <3>2, <3>3, LsnKept
  <2>3. CASE UNCHANGED <<log, attr>>
    BY <1>9, <1>10, <1>11, <2>3
  <2> QED BY <2>1, <2>2, <2>3, ZenonT(40) DEF AttrReached, Posted
<1>12. CASE d \notin {"replay_attr", "swap_attr", "receipt"}
  <2>1. UNCHANGED <<log, attr>>
    BY <1>3, <1>5, <1>12 DEF Does
  <2> QED BY <1>9, <1>10, <1>12, <2>1
<1> QED BY <1>7, <1>8, <1>11, <1>12

LEMMA ReachedNext ==
  ASSUME EngineInv, CallsInv, PlanInv, AttrInv, [Next]_vars
  PROVE  AttrReached'
<1> USE DEF EngineInv, AttrInv
<1>1. \A c \in Appenders : call[c].at # "idle" => call[c].at \in {"views", "attr"}
  BY DEF EngineTypeOK, Call
<1>2. CASE UNCHANGED <<log, ram, disk, task, call>>
  BY <1>1, <1>2, ReachedKept DEF AttrLoaded, Left, ram, task
<1>3. ASSUME NEW c \in Appenders, NEW key \in Keys \cup {NoKey}, NEW hvm \in BOOLEAN,
             Appending(c, key, hvm)
      PROVE  AttrReached'
  BY <1>3, ReachedAppend
<1>4. ASSUME NEW c \in Appenders, index_views(c)
      PROVE  AttrReached'
  <2>1. /\ call[c].at = "views" /\ call' = [call EXCEPT ![c].at = "attr"]
        /\ UNCHANGED <<log, attr, task>>
    BY <1>4 DEF index_views
  <2>2. \A d \in Appenders :
          call'[d] = call[d] \/ (call'[d].at = "attr" /\ call'[d].lsn = call[d].lsn)
    BY <2>1 DEF EngineTypeOK, Call
  <2> QED BY <1>1, <2>1, <2>2, ReachedKept DEF AttrLoaded, Left, task
<1>5. ASSUME NEW c \in Appenders, index_attr(c)
      PROVE  AttrReached'
  BY <1>5, ReachedIndex
<1>6. ASSUME NEW o \in Maintenance, start(o)
      PROVE  AttrReached'
  <2>1. op = "none" /\ UNCHANGED <<log, attr, mode, call>>
    BY <1>6 DEF start, ram
  <2>2. AttrLoaded' => AttrLoaded
    BY <2>1, ServingLoaded DEF AttrLoaded
  <2> QED BY <1>1, <2>1, <2>2, ReachedKept
<1>7. ASSUME NEW m \in {"normal", "skip"}, open(m)
      PROVE  AttrReached'
  <2>1. /\ mode' = m
        /\ todo' = (IF marker THEN OpenPrivacy(m) ELSE IF m = "skip" THEN OpenSkip ELSE OpenNormal)
    BY <1>7 DEF open
  <2>2. m # "skip" => Step1("replay_attr") \in Left'
    BY <2>1, OpenPrivacySteps, OpenNormalSteps DEF Left
  <2> QED BY <2>1, <2>2 DEF AttrReached, AttrLoaded
<1>8. ASSUME NEW d \in Dos, Does(d)
      PROVE  AttrReached'
  BY <1>8, ReachedTask
<1>9. CASE crash
  <2>1. mode' = "down"
    BY <1>9 DEF crash, Stopped
  <2> QED BY <2>1 DEF AttrReached, AttrLoaded
<1> QED BY <1>2, <1>3, <1>4, <1>5, <1>6, <1>7, <1>8, <1>9, NextKinds

\* One writer is ahead of where the index can be resumed from.
LEMMA AttrAheadNext ==
  ASSUME ShredQuiet, EngineInv, CallsInv, AttrInv, [Next]_vars
  PROVE  AttrAhead'
<1> USE DEF EngineInv, AttrInv
<1>1. AttrFrom(attr) \in 0..Len(log) /\ Len(log) \in Nat
  BY AttrFromType DEF AttrTypes
<1>2. CASE UNCHANGED <<log, ram, disk, task, call>>
  BY <1>2 DEF AttrAhead, AttrFrom, ram, task
<1>3. ASSUME NEW c \in Appenders, NEW key \in Keys \cup {NoKey}, NEW hvm \in BOOLEAN,
             Appending(c, key, hvm)
      PROVE  AttrAhead'
  <2>1. /\ \A d \in Appenders : d # c => call'[d] = call[d]
        /\ IF hvm THEN call'[c] = Idle
           ELSE call'[c].at = "views" /\ call'[c].lsn = Len(log)
    BY <1>3, LoggedExtends DEF Appending
  <2>2. UNCHANGED <<attr, scenario>>
    BY <1>3 DEF Appending, Logged, ram, task
  <2>3. scenario.writers <= 1 => InFlight = {}
    BY <1>3, Starts DEF Appending
  <2>4. ASSUME scenario.writers <= 1, NEW d \in Appenders, call'[d].at # "idle"
        PROVE  AttrFrom(attr) <= call'[d].lsn
    <3>1. d = c
      <4>1. ASSUME d # c
            PROVE  FALSE
        <5>1. call[d] = Idle
          BY <2>3, <2>4 DEF InFlight
        <5> QED BY <2>1, <2>4, <4>1, <5>1 DEF Idle
      <4> QED BY <4>1
    <3>2. call'[d].lsn = Len(log)
      BY <2>1, <2>4, <3>1 DEF Idle
    <3> QED BY <1>1, <3>2
  <2> QED BY <2>2, <2>4 DEF AttrAhead, AttrFrom
<1>4. ASSUME NEW c \in Appenders, index_views(c)
      PROVE  AttrAhead'
  <2>1. /\ call[c].at = "views" /\ call' = [call EXCEPT ![c].at = "attr"]
        /\ UNCHANGED <<attr, task>>
    BY <1>4 DEF index_views
  <2>2. \A d \in Appenders : call'[d].at # "idle" =>
          call[d].at # "idle" /\ call'[d].lsn = call[d].lsn
    BY <2>1 DEF EngineTypeOK, Call
  <2> QED BY <2>1, <2>2 DEF AttrAhead, AttrFrom, task
<1>5. ASSUME NEW c \in Appenders, index_attr(c)
      PROVE  AttrAhead'
  <2>1. call[c].at = "attr" /\ call' = [call EXCEPT ![c] = Idle] /\ scenario' = scenario
    BY <1>5 DEF index_attr, task
  <2>2. ASSUME scenario.writers <= 1, NEW d \in Appenders, call'[d].at # "idle"
        PROVE  FALSE
    <3>1. d # c /\ call'[d] = call[d]
      BY <2>1, <2>2 DEF EngineTypeOK, Idle
    <3>2. c \in InFlight /\ d \in InFlight
      BY <2>1, <2>2, <3>1 DEF InFlight, Idle
    <3> QED BY <2>2, <3>1, <3>2 DEF CallsInv
  <2> QED BY <2>1, <2>2 DEF AttrAhead
<1>6. ASSUME NEW o \in Maintenance, start(o)
      PROVE  AttrAhead'
  BY <1>6 DEF start, AttrAhead, AttrFrom, ram
<1>7. ASSUME \A c \in Appenders : call'[c].at = "idle"
      PROVE  AttrAhead'
  BY <1>7 DEF AttrAhead
<1>8. ASSUME NEW m \in {"normal", "skip"}, open(m)
      PROVE  AttrAhead'
  <2>1. call' = call /\ InFlight = {}
    BY <1>8 DEF open, ErasureInv
  <2> QED BY <1>7, <2>1 DEF InFlight, Idle
<1>9. ASSUME NEW d \in Dos, Does(d)
      PROVE  AttrAhead'
  <2>1. EffectOf(d) /\ d \in StepsOf(op)
    BY <1>9, AfterStep DEF Does
  <2>2. CASE d = "exit"
    BY <1>7, <2>1, <2>2 DEF EffectOf, Idle
  <2>3. CASE d # "exit"
    <3>1. scenario' = scenario /\ call' = call
      BY <2>1, <2>3 DEF EffectOf
    <3>2. ASSUME NEW c \in Appenders, call[c].at # "idle"
          PROVE  attr' = attr
      <4>1. c \in InFlight
        BY <3>2 DEF InFlight, Idle
      <4>2. op \notin {"open", "privacy_open", "shred"}
        BY <4>1 DEF CallsInv, TaskInv
      <4>3. d \notin {"open_attr", "replay_attr", "swap_attr", "receipt"}
        BY <2>1, <4>2 DEF StepsOf
      <4> QED BY <1>9, <2>3, <4>3 DEF Does
    <3> QED BY <3>1, <3>2 DEF AttrAhead, AttrFrom
  <2> QED BY <2>2, <2>3
<1>10. CASE crash
  BY <1>7, <1>10 DEF crash, Stopped, Idle
<1> QED BY <1>2, <1>3, <1>4, <1>5, <1>6, <1>8, <1>9, <1>10, NextKinds

\* What the steps that are left will make of the index.
LEMMA EmptyResumableNext == Resumable(EmptyAttr)'
<1>1. AttrFrom(EmptyAttr) = 0
  BY DEF AttrFrom, EmptyAttr
<1>2. \A lsn \in Indexable(0)' : ~(lsn < 0)
  BY DEF Indexable
<1> QED BY <1>1, <1>2 DEF Resumable, AttrFrom, EmptyAttr

LEMMA StepsTask ==
  ASSUME EngineInv, AttrInv, NEW d \in Dos, Does(d)
  PROVE  AttrSteps'
<1> USE DEF EngineInv, AttrInv
<1>1. EffectOf(d)
  BY DEF Does
<1>2. /\ \A e : Step1(e) \in Left => e = d \/ Step1(e) \in Left'
      /\ d # "save" => Step1(d) \in Left
      /\ Left' \subseteq Left /\ d \in StepsOf(op)
      /\ op' = op \/ (op' = "none" /\ Left' = {})
      /\ mode = "down" => d = "exit"
  BY <1>1, AfterStep
<1>3. /\ d = "replay_attr" => Step1("open_attr") \notin Left
      /\ Step1("replay_attr") \in Left' =>
           d \notin {"replay_attr", "swap_attr", "receipt", "exit"}
      /\ Step1("swap_attr") \in Left' => d \notin {"swap_attr", "receipt", "exit"}
  BY <1>1, AttrOrder
<1>4. IF d = "exit" THEN mode' = "down" ELSE mode' = mode
  BY <1>1 DEF EffectOf
<1>5. /\ AttrTyped(attr) /\ AttrTyped(EmptyAttr)
      /\ Resumable(attr_file) \/ AttrExcused
  BY LogType DEF AttrTypes, AttrTyped, EmptyAttr, AttrSaved
<1>6. ASSUME log' = log
      PROVE  /\ attr' = attr /\ Resumable(attr) => Resumable(attr)'
             /\ rebuilt' = rebuilt /\ Whole(rebuilt) => Whole(rebuilt)'
             /\ attr' = attr_file /\ Resumable(attr_file) => Resumable(attr)'
  BY <1>6 DEF Resumable, Whole, Posted, AttrFrom, Indexable
<1>7. ASSUME Step1("replay_attr") \in Left', Step1("open_attr") \notin Left'
      PROVE  Resumable(attr)'
  <2>1. log' = log /\ d \notin {"replay_attr", "swap_attr", "receipt", "exit"}
    BY <1>3, <1>7 DEF Does
  <2>2. CASE d = "open_attr"
    <3>1. attr' = attr_file /\ ~AttrExcused
      BY <1>2, <2>2 DEF Does, AttrExcused
    <3> QED BY <1>5, <1>6, <2>1, <3>1
  <2>3. CASE d # "open_attr"
    <3>1. attr' = attr
      BY <2>1, <2>3 DEF Does
    <3>2. Resumable(attr)
      BY <1>2, <1>7, <2>3 DEF AttrSteps
    <3> QED BY <1>6, <2>1, <3>1, <3>2
  <2> QED BY <2>2, <2>3
<1>8. ASSUME Step1("swap_attr") \in Left', Step1("scan_attr") \notin Left'
      PROVE  Whole(rebuilt)'
  <2>1. log' = log /\ d \notin {"swap_attr", "receipt", "exit"}
    BY <1>3, <1>8 DEF Does
  <2>2. CASE d = "scan_attr"
    <3>1. rebuilt' = AttrReplayed(EmptyAttr)
      BY <2>2 DEF Does, scan_attr
    <3>2. Whole(AttrReplayed(EmptyAttr))
      BY <1>5, AttrReplayedWhole, EmptyResumable
    <3> QED BY <2>1, <3>1, <3>2 DEF Whole, Posted, Indexable
  <2>3. CASE d # "scan_attr"
    <3>1. rebuilt' = rebuilt
      BY <2>1, <2>3 DEF Does
    <3>2. Whole(rebuilt)
      BY <1>2, <1>8, <2>3 DEF AttrSteps
    <3> QED BY <1>6, <2>1, <3>1, <3>2
  <2> QED BY <2>2, <2>3
<1>9. ASSUME mode' = "down" \/ (op' = "privacy_open" /\ mode' = "skip")
      PROVE  Resumable(attr)'
  <2>1. CASE d = "exit"
    <3>1. attr' = EmptyAttr
      BY <2>1 DEF Does, Stopped
    <3> QED BY <3>1, EmptyResumableNext DEF Resumable, Posted, AttrFrom
  <2>2. CASE d # "exit"
    <3>1. op = "privacy_open" /\ mode = "skip"
      BY <1>2, <1>4, <1>9, <2>2
    <3>2. d \notin {"open_attr", "swap_attr", "receipt"} /\ Resumable(attr)
      BY <1>2, <3>1 DEF StepsOf, AttrSteps
    <3>3. log' = log
      BY <3>2 DEF Does
    <3>4. CASE d = "replay_attr"
      <4>1. attr' = AttrReplayed(attr)
        BY <3>4 DEF Does, replay_attr
      <4>2. Whole(AttrReplayed(attr))
        BY <1>5, <3>2, AttrReplayedWhole
      <4> QED BY <3>3, <4>1, <4>2 DEF Whole, Resumable, Posted, Indexable
    <3>5. CASE d # "replay_attr"
      <4>1. attr' = attr
        BY <2>2, <3>2, <3>5 DEF Does
      <4> QED BY <1>6, <3>2, <3>3, <4>1
    <3> QED BY <3>4, <3>5
  <2> QED BY <2>1, <2>2
<1> QED BY <1>7, <1>8, <1>9 DEF AttrSteps

LEMMA StepsNext ==
  ASSUME ShredQuiet, EngineInv, CallsInv, AttrInv, [Next]_vars
  PROVE  AttrSteps'
<1> USE DEF EngineInv, AttrInv
<1>1. CASE UNCHANGED <<log, ram, disk, task, call>>
  BY <1>1 DEF AttrSteps, Resumable, Whole, Posted, AttrFrom, Indexable, Left, ram, task
<1>2. ASSUME UNCHANGED task, mode # "down", op \notin {"open", "privacy_open", "shred"}
      PROVE  AttrSteps'
  <2>1. Step1("replay_attr") \notin Left' /\ Step1("swap_attr") \notin Left'
    BY <1>2, LeftOps DEF Left, task
  <2> QED BY <1>2, <2>1 DEF AttrSteps, task
<1>3. ASSUME NEW c \in Appenders, NEW key \in Keys \cup {NoKey}, NEW hvm \in BOOLEAN,
             Appending(c, key, hvm)
      PROVE  AttrSteps'
  <2>1. UNCHANGED task
    BY <1>3 DEF Appending, Logged
  <2>2. mode # "down" /\ op \notin {"open", "privacy_open", "shred"}
    BY <1>3, Starts DEF Appending
  <2> QED BY <1>2, <2>1, <2>2
<1>4. ASSUME NEW c \in Appenders, index_views(c) \/ index_attr(c)
      PROVE  AttrSteps'
  <2>1. UNCHANGED task /\ c \in InFlight
    BY <1>4 DEF index_views, index_attr, InFlight, Idle
  <2>2. mode # "down" /\ op \notin {"open", "privacy_open", "shred"}
    BY <2>1 DEF ErasureInv, CallsInv, TaskInv
  <2> QED BY <1>2, <2>1, <2>2
<1>5. ASSUME NEW o \in Maintenance, start(o)
      PROVE  AttrSteps'
  <2>1. mode' # "down" /\ op' = o /\ todo' = Program(o)
    BY <1>5 DEF start, Serving
  <2>2. \A e : Step1(e) \in Left' => e \in StepsOf(o)
    <3>1. \A x \in Left' : x.do \in StepsOf(o)
      BY <2>1, ProgramTodo DEF Remaining, Left
    <3> QED BY <3>1, DoOf
  <2>3. Step1("replay_attr") \notin Left' /\ (Step1("swap_attr") \in Left' => o = "shred")
    BY <2>2 DEF StepsOf, Maintenance
  <2>4. o = "shred" => Step1("scan_attr") \in Left'
    BY <2>1, ProgramTodo DEF Sure, Left
  <2> QED BY <2>1, <2>3, <2>4 DEF AttrSteps, Maintenance
<1>6. ASSUME NEW m \in {"normal", "skip"}, open(m)
      PROVE  AttrSteps'
  <2>1. /\ mode = "down" /\ UNCHANGED <<log, attr>>
        /\ todo' = (IF marker THEN OpenPrivacy(m) ELSE IF m = "skip" THEN OpenSkip ELSE OpenNormal)
    BY <1>6 DEF open
  <2>2. Resumable(attr)'
    BY <2>1 DEF AttrSteps, Resumable, Posted, AttrFrom, Indexable
  <2>3. Step1("swap_attr") \notin Left'
    <3>1. \A x \in Left' : x.do \in StepsOf(IF marker THEN "privacy_open" ELSE "open")
      BY <2>1, OpenTodo DEF Remaining, Left
    <3> QED BY <3>1, DoOf DEF StepsOf
  <2> QED BY <2>2, <2>3 DEF AttrSteps
<1>7. ASSUME NEW d \in Dos, Does(d)
      PROVE  AttrSteps'
  BY <1>7, StepsTask
<1>8. CASE crash
  <2>1. attr' = EmptyAttr /\ todo' = <<>>
    BY <1>8 DEF crash, Stopped
  <2>2. Left' = {}
    BY <2>1, NoSteps DEF Left
  <2>3. Resumable(attr)'
    BY <2>1, EmptyResumableNext DEF Resumable, Posted, AttrFrom
  <2> QED BY <2>2, <2>3 DEF AttrSteps
<1> QED BY <1>1, <1>3, <1>4, <1>5, <1>6, <1>7, <1>8, NextKinds

\* What an index that is saved misses is at or above its watermark, but for a
\* checkpoint that no crash can follow.
LEMMA AttrSaveSound ==
  ASSUME CheckpointsSettled, SkipSavesNothing, EngineInv, CallsInv, PlanInv, AttrInv,
         EffectOf("save_attr")
  PROVE  Resumable(attr) \/ (op = "checkpoint" /\ scenario.crashAt = {})
<1> USE DEF EngineInv, AttrInv
<1>1. "save_attr" \in Dos
  BY DEF Dos
<1>2. /\ "save_attr" \in StepsOf(op) /\ mode # "down"
      /\ Step1("replay_attr") \notin Left /\ Step1("open_attr") \notin Left
  BY <1>1, AfterStep, AttrOrder
<1>3. op \in {"checkpoint", "shutdown", "privacy_open"} /\ scenario \in Scenarios
  BY <1>2 DEF StepsOf, EngineTypeOK
<1>4. CASE mode = "skip"
  <2>1. op \notin {"checkpoint", "shutdown"}
    BY <1>3, <1>4 DEF SkipSavesNothing, PlanInv, Maintenance
  <2> QED BY <1>3, <1>4, <2>1 DEF AttrSteps
<1>5. CASE mode = "normal"
  <2>1. \A lsn \in Indexable(0) : Posted(attr, lsn) \/ CallAt({"views", "attr"}, lsn)
    BY <1>2, <1>5 DEF AttrReached, AttrLoaded
  <2>2. CASE InFlight = {}
    <3>1. \A lsn : ~CallAt({"views", "attr"}, lsn)
      BY <2>2 DEF CallAt, InFlight, Idle
    <3> QED BY <2>1, <3>1 DEF Resumable
  <2>3. CASE /\ op = "shutdown" \/ (op = "checkpoint" /\ scenario.crashAt # {})
             /\ op \notin scenario.quiet
    <3>1. scenario.writers <= 1
      BY <1>3, <2>3 DEF CheckpointsSettled, PlanInv, Maintenance
    <3>2. ASSUME NEW lsn \in Indexable(0), lsn < AttrFrom(attr), CallAt({"views", "attr"}, lsn)
          PROVE  FALSE
      <4>1. PICK c \in Appenders : call[c].at \in {"views", "attr"} /\ call[c].lsn = lsn
        BY <3>2 DEF CallAt
      <4>2. AttrFrom(attr) <= lsn
        BY <3>1, <4>1 DEF AttrAhead
      <4>3. AttrFrom(attr) \in Nat /\ lsn \in Nat
        BY AttrFromType, LsnType DEF AttrTypes
      <4> QED BY <3>2, <4>2, <4>3
    <3> QED BY <2>1, <3>2 DEF Resumable
  <2> QED BY <1>3, <2>2, <2>3 DEF CallsInv
<1> QED BY <1>2, <1>4, <1>5 DEF EngineTypeOK

LEMMA AttrSavedTask ==
  ASSUME CheckpointsSettled, SkipSavesNothing, EngineInv, CallsInv, PlanInv, AttrInv, Extends,
         NEW d \in Dos, Does(d)
  PROVE  AttrSaved'
<1> USE DEF EngineInv, AttrInv
<1>1. EffectOf(d)
  BY DEF Does
<1>2. /\ \A e : Step1(e) \in Left => e = d \/ Step1(e) \in Left'
      /\ d # "save" => Step1(d) \in Left
      /\ Left' \subseteq Left /\ d \in StepsOf(op)
      /\ op' = op \/ (op' = "none" /\ Left' = {})
      /\ mode = "down" => d = "exit"
      /\ d = "replay_attr" => Step1("open_attr") \notin Left
  BY <1>1, AfterStep, AttrOrder
<1>3. scenario' = scenario /\ IF d = "exit" THEN mode' = "down" ELSE mode' = mode
  BY <1>1 DEF EffectOf
<1>4. AttrTyped(attr_file) /\ AttrTyped(attr) /\ AttrTyped(EmptyAttr)
  BY LogType DEF AttrTypes, AttrTyped, EmptyAttr
<1>5. CASE d \notin {"replay_attr", "scan_attr", "save_attr"}
  <2>1. attr_file' = attr_file
    BY <1>5 DEF Does
  <2>2. CASE Resumable(attr_file)
    <3>1. \A lsn \in Indexable(0)' :
            lsn < AttrFrom(attr_file) => <<lsn, log'[lsn + 1].key>> \in attr_file.posts
      BY <1>4, <2>2, ResumableStays
    <3> QED BY <2>1, <3>1 DEF AttrSaved, Resumable, Posted, AttrFrom
  <2>3. CASE AttrExcused
    <3>1. d # "exit"
      <4>1. d = "exit" => op = "shutdown" /\ Step1("save_attr") \notin Left
        BY <1>1, <1>2, Order DEF StepsOf
      <4> QED BY <2>3, <4>1 DEF AttrExcused
    <3>2. AttrExcused'
      BY <1>2, <1>3, <1>5, <2>3, <3>1 DEF AttrExcused
    <3> QED BY <3>2 DEF AttrSaved
  <2> QED BY <2>2, <2>3 DEF AttrSaved
<1>6. CASE d = "replay_attr"
  <2>1. /\ attr' = AttrReplayed(attr) /\ log' = log
        /\ attr_file' = IF log = <<>> THEN attr_file ELSE attr'
    BY <1>6 DEF Does, replay_attr
  <2>2. CASE log = <<>>
    <3>1. Indexable(0)' = {}
      BY <2>1, <2>2 DEF Indexable
    <3> QED BY <3>1 DEF AttrSaved, Resumable
  <2>3. CASE log # <<>>
    <3>1. attr_file' = AttrReplayed(attr)
      BY <2>1, <2>3
    <3>2. Resumable(attr)
      BY <1>2, <1>6 DEF AttrSteps
    <3>3. Whole(AttrReplayed(attr))
      BY <1>4, <3>2, AttrReplayedWhole
    <3> QED BY <2>1, <3>1, <3>3 DEF AttrSaved, Whole, Resumable, Posted, Indexable
  <2> QED BY <2>2, <2>3
<1>7. CASE d = "scan_attr"
  <2>1. attr_file' = AttrReplayed(EmptyAttr) /\ log' = log
    BY <1>7 DEF Does, scan_attr
  <2>2. Whole(AttrReplayed(EmptyAttr))
    BY <1>4, AttrReplayedWhole, EmptyResumable
  <2> QED BY <2>1, <2>2 DEF AttrSaved, Whole, Resumable, Posted, Indexable
<1>8. CASE d = "save_attr"
  <2>1. attr_file' = attr /\ log' = log /\ EffectOf("save_attr")
    BY <1>1, <1>8 DEF Does
  <2>2. Resumable(attr) \/ (op = "checkpoint" /\ scenario.crashAt = {})
    BY <2>1, AttrSaveSound
  <2>3. CASE Resumable(attr)
    BY <2>1, <2>3 DEF AttrSaved, Resumable, Posted, AttrFrom, Indexable
  <2>4. CASE op = "checkpoint" /\ scenario.crashAt = {}
    <3>1. Step1("open_attr") \notin Left
      BY <2>4, LeftOps
    <3>2. mode' # "down"
      BY <1>2, <1>3, <1>8
    <3>3. AttrExcused'
      BY <1>2, <1>3, <2>4, <3>1, <3>2 DEF AttrExcused
    <3> QED BY <3>3 DEF AttrSaved
  <2> QED BY <2>2, <2>3, <2>4
<1> QED BY <1>5, <1>6, <1>7, <1>8

LEMMA AttrSavedNext ==
  ASSUME LogKept, CheckpointsSettled, SkipSavesNothing, EngineInv, CallsInv, PlanInv, AttrInv,
         [Next]_vars
  PROVE  AttrSaved'
<1> USE DEF EngineInv, AttrInv
<1>1. Extends
  BY ExtendsNext
<1>2. ASSUME attr_file' = attr_file, AttrExcused => AttrExcused'
      PROVE  AttrSaved'
  <2>1. CASE Resumable(attr_file)
    <3>1. \A lsn \in Indexable(0)' :
            lsn < AttrFrom(attr_file) => <<lsn, log'[lsn + 1].key>> \in attr_file.posts
      BY <1>1, <2>1, ResumableStays DEF AttrTypes
    <3> QED BY <1>2, <3>1 DEF AttrSaved, Resumable, Posted, AttrFrom
  <2> QED BY <1>2, <2>1 DEF AttrSaved
<1>3. CASE attr_file' = attr_file /\ UNCHANGED task
  BY <1>2, <1>3 DEF AttrExcused, Left, task
<1>4. \/ UNCHANGED <<log, ram, disk, task, call>>
      \/ \E c \in Appenders, key \in Keys \cup {NoKey}, hvm \in BOOLEAN : Appending(c, key, hvm)
      \/ \E c \in Appenders : index_views(c) \/ index_attr(c)
      => attr_file' = attr_file /\ UNCHANGED task
  BY DEF Appending, Logged, index_views, index_attr, disk
<1>5. ASSUME NEW o \in Maintenance, start(o)
      PROVE  AttrSaved'
  <2>1. /\ op' = o /\ todo' = Program(o) /\ mode' = mode /\ attr_file' = attr_file
        /\ scenario' = scenario
    BY <1>5 DEF start, disk
  <2>2. Step1("open_attr") \notin Left'
    <3>1. \A x \in Left' : x.do \in StepsOf(o)
      BY <2>1, ProgramTodo DEF Remaining, Left
    <3> QED BY <3>1, DoOf DEF StepsOf, Maintenance
  <2>3. o = "shutdown" => Step1("save_attr") \in Left'
    BY <2>1, ProgramTodo DEF Sure, Left
  <2>4. AttrExcused => AttrExcused'
    BY <2>1, <2>2, <2>3 DEF AttrExcused
  <2> QED BY <1>2, <2>1, <2>4
<1>6. ASSUME NEW m \in {"normal", "skip"}, open(m)
      PROVE  AttrSaved'
  <2>1. mode = "down" /\ attr_file' = attr_file
    BY <1>6 DEF open, disk
  <2> QED BY <1>2, <2>1 DEF AttrExcused
<1>7. ASSUME NEW d \in Dos, Does(d)
      PROVE  AttrSaved'
  BY <1>1, <1>7, AttrSavedTask
<1>8. CASE crash
  <2>1. op \in scenario.crashAt /\ attr_file' = attr_file
    BY <1>8 DEF crash, Stopped, disk
  <2> QED BY <1>2, <2>1 DEF AttrExcused
<1> QED BY <1>3, <1>4, <1>5, <1>6, <1>7, <1>8, NextKinds

LEMMA OneLonger ==
  ASSUME EngineTypeOK, Extends
  PROVE  \A i \in 1..Len(log') :
           i \in 1..Len(log) \/ (Len(log') = Len(log) + 1 /\ i = Len(log) + 1)
<1>1. Len(log) \in Nat /\ Len(log') \in Nat
  BY LsnKept
<1>2. Len(log) <= Len(log') /\ Len(log') <= Len(log) + 1
  BY DEF Extends
<1> QED BY <1>1, <1>2

\* An idempotency key is in the log once.
LEMMA KeysGrow ==
  ASSUME EngineTypeOK, EngineTypeOK', Extends, KeysInv,
         Len(log') = Len(log) + 1 =>
           /\ log'[Len(log) + 1].hvm => log'[Len(log) + 1].key = NoKey
           /\ log'[Len(log) + 1].key # NoKey =>
                \A i \in 1..Len(log) : log[i].key # log'[Len(log) + 1].key
  PROVE  KeysInv'
<1>1. /\ Len(log) \in Nat /\ DOMAIN log = 1..Len(log) /\ DOMAIN log' = 1..Len(log')
      /\ Len(log') \in Nat
  <2>1. log \in Seq(Entry) /\ log' \in Seq(Entry)
    BY DEF EngineTypeOK
  <2> QED BY <2>1, LenProperties
<1>2. \A i \in 1..Len(log) : log'[i] = log[i]
  BY DEF Extends
<1>3. \A i \in 1..Len(log') :
        i \in 1..Len(log) \/ (Len(log') = Len(log) + 1 /\ i = Len(log) + 1)
  BY OneLonger
<1>4. \A i \in 1..Len(log') : log'[i].hvm => log'[i].key = NoKey
  BY <1>2, <1>3 DEF KeysInv
<1>5. ASSUME NEW i \in 1..Len(log), Len(log') = Len(log) + 1,
             log'[i].key = log'[Len(log) + 1].key, log'[i].key # NoKey
      PROVE  FALSE
  <2>1. log[i].key = log'[Len(log) + 1].key /\ log'[Len(log) + 1].key # NoKey
    BY <1>2, <1>5
  <2>2. \A k \in 1..Len(log) : log[k].key # log'[Len(log) + 1].key
    BY <1>5, <2>1
  <2> QED BY <2>1, <2>2
<1>6. ASSUME NEW i \in 1..Len(log'), NEW j \in 1..Len(log'),
             log'[i].key = log'[j].key, log'[i].key # NoKey
      PROVE  i = j
  <2>1. CASE i \in 1..Len(log) /\ j \in 1..Len(log)
    BY <1>1, <1>2, <1>6, <2>1, ZenonT(40) DEF KeysInv, KeyOnce
  <2>2. CASE i \in 1..Len(log) /\ j \notin 1..Len(log)
    <3>1. Len(log') = Len(log) + 1 /\ j = Len(log) + 1
      BY <1>3, <2>2
    <3> QED BY <1>5, <1>6, <2>2, <3>1
  <2>3. CASE i \notin 1..Len(log) /\ j \in 1..Len(log)
    <3>1. Len(log') = Len(log) + 1 /\ i = Len(log) + 1
      BY <1>3, <2>3
    <3>2. log'[j].key = log'[i].key /\ log'[j].key # NoKey
      BY <1>6
    <3> QED BY <1>5, <2>3, <3>1, <3>2
  <2>4. CASE i \notin 1..Len(log) /\ j \notin 1..Len(log)
    BY <1>3, <2>4
  <2> QED BY <2>1, <2>2, <2>3, <2>4
<1> QED BY <1>1, <1>4, <1>6, ZenonT(40) DEF KeysInv, KeyOnce

\* The key of an idempotent append is new: an episode that has it would be
\* posted, or its caller would hold the idempotency lock.
LEMMA KeyIsNew ==
  ASSUME SkipHasNoKeys, EngineInv, CallsInv, PlanInv, AttrInv, NEW c \in Appenders,
         NEW key \in Keys, NEW hvm \in BOOLEAN, Appending(c, key, hvm), key # NoKey,
         NEW i \in 1..Len(log), log[i].key = key
  PROVE  FALSE
<1> USE DEF EngineInv, AttrInv
<1>1. key \in scenario.keys /\ IdempotencyFree /\ KeyLsns(key) = {} /\ Serving
  BY DEF Appending, MayStart
<1>2. scenario \in Scenarios /\ mode \in {"down", "normal", "skip"}
  BY DEF EngineTypeOK
<1>3. mode = "normal"
  BY <1>1, <1>2 DEF PlanInv, SkipHasNoKeys, Serving
<1>4. AttrLoaded
  BY <1>1, <1>3, ServingLoaded DEF Serving
<1>5. PICK lsn : lsn = i - 1
  OBVIOUS
<1>6. lsn \in Indexable(0) /\ log[lsn + 1] = log[i]
  <2>1. ~log[i].hvm
    BY DEF KeysInv
  <2> QED BY <1>5, <2>1, LogType DEF Indexable
<1>7. CASE Posted(attr, lsn)
  <2>1. <<lsn, key>> \in attr.posts
    BY <1>6, <1>7 DEF Posted
  <2>2. lsn \in KeyLsns(key)
    BY <2>1 DEF KeyLsns
  <2> QED BY <1>1, <2>2
<1>8. CASE CallAt({"views", "attr"}, lsn)
  <2>1. PICK d \in Appenders : call[d].at \in {"views", "attr"} /\ call[d].lsn = lsn
    BY <1>8 DEF CallAt
  <2>2. call[d].ev.key = key
    BY <1>6, <2>1 DEF CallsInv
  <2> QED BY <1>1, <2>2 DEF IdempotencyFree
<1> QED BY <1>4, <1>6, <1>7, <1>8 DEF AttrReached

LEMMA KeysNext ==
  ASSUME LogKept, ShredQuiet, SkipHasNoKeys, EngineInv, CallsInv, PlanInv, AttrInv, [Next]_vars
  PROVE  KeysInv'
<1> USE DEF AttrInv
<1>1. Extends /\ EngineTypeOK /\ EngineTypeOK' /\ Len(log) \in Nat
  BY ExtendsNext, TypeStep, LogType DEF EngineInv
<1>2. CASE log' = log
  BY <1>1, <1>2, KeysGrow
<1>3. ASSUME NEW c \in Appenders, NEW key \in Keys \cup {NoKey}, NEW hvm \in BOOLEAN,
             Appending(c, key, hvm)
      PROVE  KeysInv'
  <2>1. log'[Len(log) + 1] = [id |-> nextId + 1, key |-> key, hvm |-> hvm]
    BY <1>1, <1>3, LoggedExtends DEF Appending
  <2>2. log'[Len(log) + 1].key = key /\ log'[Len(log) + 1].hvm = hvm
    BY <2>1
  <2>3. key # NoKey => ~hvm
    BY <1>3 DEF Appending
  <2>4. key # NoKey => \A i \in 1..Len(log) : log[i].key # key
    BY <1>3, KeyIsNew
  <2> QED BY <1>1, <2>2, <2>3, <2>4, KeysGrow
<1>4. CASE receipt
  <2>1. \/ log' = log
        \/ log'[Len(log) + 1] = [id |-> nextId + 1, key |-> NoKey, hvm |-> FALSE]
    BY <1>1, <1>4, ReceiptExtends
  <2>2. CASE log'[Len(log) + 1] = [id |-> nextId + 1, key |-> NoKey, hvm |-> FALSE]
    <3>1. log'[Len(log) + 1].key = NoKey
      BY <2>2
    <3> QED BY <1>1, <3>1, KeysGrow
  <2> QED BY <1>2, <2>1, <2>2
<1>5. CASE crash
  <2>1. PICK n \in synced..Len(log) : log' = SubSeq(log, 1, n)
    BY <1>5 DEF crash
  <2>2. synced \in 0..Len(log) /\ log \in Seq(Entry)
    BY <1>1 DEF EngineTypeOK
  <2>3. n \in 0..Len(log)
    BY <1>1, <2>2
  <2>4. Len(log') = n
    BY <2>1, <2>2, <2>3, PrefixType
  <2> QED BY <1>1, <2>3, <2>4, KeysGrow
<1>6. \/ UNCHANGED <<log, ram, disk, task, call>>
      \/ \E c \in Appenders : index_views(c)
      \/ \E c \in Appenders : index_attr(c)
      \/ \E o \in Maintenance : start(o)
      \/ \E m \in {"normal", "skip"} : open(m)
      => log' = log
  BY DEF index_views, index_attr, start, open
<1>7. ASSUME NEW d \in Dos, Does(d)
      PROVE  log' = log \/ receipt
  BY <1>7 DEF Does
<1> QED BY <1>1, <1>2, <1>3, <1>4, <1>5, <1>6, <1>7, NextKinds

-----------------------------------------------------------------------------
(* The theorem.                                                             *)

LEMMA EngineStart == Init => EngineInv
<1> SUFFICES ASSUME Init PROVE EngineInv
  OBVIOUS
<1>1. EngineTypeOK
  <2>1. Idle \in Call /\ Idle.at = "idle"
    BY DEF Idle, Call, Lsns, NoLsn, NoKey
  <2>2. /\ NoTimes \in [Views -> Counts] /\ NoWatermarks \in [Views -> Lsns]
        /\ NoCkpt \in CkptOf /\ EmptyAttr.clear \in BOOLEAN
    BY DEF NoTimes, NoWatermarks, NoCkpt, CkptOf, Counts, Lsns, EmptyAttr
  <2>3. <<>> \in Seq(Entry) /\ 0 \in 0..Len(<<>>)
    OBVIOUS
  <2> QED BY <2>1, <2>2, <2>3 DEF Init, EngineTypeOK
<1>2. TaskInv
  <2>1. TodoInv /\ Left = {}
    BY NoSteps DEF Init, TodoInv, Remaining, Left
  <2> QED BY <2>1 DEF Init, TaskInv
<1>3. ErasureInv
  BY DEF Init, ErasureInv, EmptyAttr, InFlight
<1>4. SourceInv
  <2>1. \A v \in Views, id \in Ids : ~(times[v][id] > 0) /\ ~(ckpt[v].times[id] > 0)
    BY DEF Init, NoTimes, NoCkpt
  <2>2. \A c \in Appenders : call[c].at = "idle"
    BY DEF Init, Idle
  <2>3. synced = Len(log)
    BY DEF Init
  <2> QED BY <2>1, <2>2, <2>3 DEF SourceInv
<1> QED BY <1>1, <1>2, <1>3, <1>4 DEF EngineInv

LEMMA EngineStep ==
  ASSUME LogKept, ShredQuiet, EngineInv, [Next]_vars
  PROVE  EngineInv'
BY TypeStep, TaskInvNext, ErasureNext, SourceNext DEF EngineInv

LEMMA EngineHolds == EngineInv => NothingLeftOver
<1> SUFFICES ASSUME EngineInv PROVE NothingLeftOver
  OBVIOUS
<1>1. NothingExtra
  BY LogType DEF EngineInv, SourceInv, NothingExtra, HasId
<1>2. ErasureComplete
  BY DEF EngineInv, ErasureInv, ErasureComplete
<1> QED BY <1>1, <1>2 DEF NothingLeftOver

\* Once the marker of a crypto-shred is gone the derived state, in memory and
\* on disk, holds nothing that was read under the dropped key, at whatever
\* step the shred or the boot that repeats it was interrupted (engine.rs
\* shred, open_with_boot), and whatever the log keeps of its unsynced tail.
THEOREM ErasureIsComplete ==
  ASSUME ShredQuiet
  PROVE  Spec => []ErasureComplete
<1> DEFINE Inv == EngineTypeOK /\ TaskInv /\ ErasureInv
<1>1. Init => Inv
  BY EngineStart DEF EngineInv
<1>2. Inv /\ [Next]_vars => Inv'
  BY TypeStep, TaskInvNext, ErasureNext
<1>3. Inv => ErasureComplete
  BY DEF ErasureInv, ErasureComplete
<1> QED BY <1>1, <1>2, <1>3, PTL DEF Spec

\* Besides, with a log that loses nothing, the views hold no episode that is
\* not in the log (ViewRegistry::catch_up, rebuild and checkpoint).
THEOREM DerivedStateClean ==
  ASSUME LogKept, ShredQuiet
  PROVE  Spec => []NothingLeftOver
<1>1. EngineInv /\ [Next]_vars => EngineInv'
  BY EngineStep
<1> QED BY EngineStart, <1>1, EngineHolds, PTL DEF Spec

ViewsInvAll == EngineInv /\ CallsInv /\ PlanInv /\ ViewsInv

LEMMA ViewsStart == Init => ViewsInvAll
<1> SUFFICES ASSUME Init PROVE ViewsInvAll
  OBVIOUS
<1>1. EngineInv
  BY EngineStart
<1>2. Left = {} /\ Len(log) = 0 /\ mode = "down" /\ op = "none" /\ ~marker
  BY NoSteps DEF Init, Left
<1>3. (\A c \in Appenders : call[c] = Idle) /\ Idle.at = "idle"
  BY DEF Init, Idle
<1>4. CallsInv
  BY <1>2, <1>3 DEF CallsInv, InFlight
<1>5. \A v \in Views : watermarks[v] = NoLsn /\ wm_file[v] = NoLsn /\ ~ckpt[v].present
  BY DEF Init, NoWatermarks, NoCkpt
<1>6. PlanInv
  BY <1>2, <1>5 DEF PlanInv, Maintenance, NoLsn
<1>7. LoadedInv /\ AheadInv /\ SavedInv /\ FreshInv
  BY <1>2, <1>3, <1>5 DEF LoadedInv, ViewsLoaded, AheadInv, SavedInv, Saved, FreshInv
<1> QED BY <1>1, <1>4, <1>6, <1>7 DEF ViewsInvAll, ViewsInv

LEMMA ViewsStep ==
  ASSUME LogKept, ShredQuiet, BootsWhole, CheckpointsSettled, SkipSavesNothing,
         ViewsInvAll, [Next]_vars
  PROVE  ViewsInvAll'
<1> USE DEF ViewsInvAll
<1>1. EngineInv'
  BY EngineStep
<1>2. CallsInv' /\ PlanInv'
  BY CallsNext, PlanNext
<1>3. LoadedInv' /\ AheadInv'
  BY LoadedNext, AheadNext DEF ViewsInv
<1>4. SavedInv' /\ FreshInv'
  BY SavedNext, FreshNext
<1> QED BY <1>1, <1>2, <1>3, <1>4 DEF ViewsInv

LEMMA ViewsHold == ViewsInvAll => ViewsComplete
<1> SUFFICES ASSUME ViewsInvAll, Serving, mode = "normal", NEW v \in Views,
                    NEW id \in Indexed({"views"})
             PROVE  times[v][id] >= 1
  BY DEF ViewsComplete
<1>1. Step1("catch_up") \notin Left
  <2>1. ASSUME Step1("catch_up") \in Left
        PROVE  FALSE
    <3>1. Step1("catch_up").do \in StepsOf(op)
      BY <2>1 DEF ViewsInvAll, EngineInv, TaskInv, TodoInv, Remaining, Left
    <3> QED BY <3>1, DoOf DEF StepsOf, Serving
  <2> QED BY <2>1
<1>2. ViewsLoaded
  BY <1>1 DEF ViewsLoaded, Serving
<1>3. PICK lsn \in Indexable(0) : id = log[lsn + 1].id
  BY DEF Indexed
<1>4. id \notin Waiting({"views"})
  BY DEF Indexed
<1>5. ~CallAt({"views"}, lsn)
  <2>1. ASSUME NEW c \in Appenders, call[c].at = "views", call[c].lsn = lsn
        PROVE  FALSE
    <3>1. call[c].ev.id = id
      BY <1>3, <2>1 DEF ViewsInvAll, CallsInv
    <3> QED BY <1>4, <2>1, <3>1 DEF Waiting
  <2> QED BY <2>1 DEF CallAt
<1>6. Holds(times[v], lsn)
  BY <1>2, <1>5 DEF ViewsInvAll, ViewsInv, LoadedInv
<1> QED BY <1>3, <1>6 DEF Holds

\* A server that serves has every episode of its log in every view, but those
\* a caller is about to apply, whatever checkpoints, crypto-shreds, crashes and
\* boots went before (Engine::open_with_boot, checkpoint_views, shred).
THEOREM ViewsAreComplete ==
  ASSUME LogKept, ShredQuiet, BootsWhole, CheckpointsSettled, SkipSavesNothing
  PROVE  Spec => []ViewsComplete
<1>1. ViewsInvAll /\ [Next]_vars => ViewsInvAll'
  BY ViewsStep
<1> QED BY ViewsStart, <1>1, ViewsHold, PTL DEF Spec

AttrInvAll == EngineInv /\ CallsInv /\ PlanInv /\ AttrInv

LEMMA AttrStart == Init => AttrInvAll
<1> SUFFICES ASSUME Init PROVE AttrInvAll
  OBVIOUS
<1>1. EngineInv /\ CallsInv /\ PlanInv
  BY ViewsStart DEF ViewsInvAll
<1>2. /\ Left = {} /\ Len(log) = 0 /\ log = <<>> /\ mode = "down" /\ Indexable(0) = {}
      /\ attr = EmptyAttr /\ attr_file = EmptyAttr /\ rebuilt = EmptyAttr
  BY NoSteps DEF Init, Left, Indexable
<1>3. \A c \in Appenders : call[c].at = "idle"
  BY DEF Init, Idle
<1>4. AttrTypes
  BY <1>2 DEF AttrTypes, AttrTyped, EmptyAttr
<1>5. AttrReached /\ AttrAhead
  BY <1>2, <1>3 DEF AttrReached, AttrAhead
<1>6. AttrSteps /\ AttrSaved
  BY <1>2, EmptyResumable DEF AttrSteps, AttrSaved
<1>7. KeysInv
  BY <1>2 DEF KeysInv, KeyOnce
<1> QED BY <1>1, <1>4, <1>5, <1>6, <1>7 DEF AttrInvAll, AttrInv

LEMMA AttrStep ==
  ASSUME LogKept, ShredQuiet, CheckpointsSettled, SkipSavesNothing, SkipHasNoKeys,
         AttrInvAll, [Next]_vars
  PROVE  AttrInvAll'
<1> USE DEF AttrInvAll
<1>1. EngineInv'
  BY EngineStep
<1>2. CallsInv' /\ PlanInv'
  BY CallsNext, PlanNext
<1>3. AttrTypes'
  BY AttrTypesNext DEF AttrInv
<1>4. AttrReached' /\ AttrAhead'
  BY ReachedNext, AttrAheadNext
<1>5. AttrSteps' /\ AttrSaved'
  BY StepsNext, AttrSavedNext
<1>6. KeysInv'
  BY KeysNext
<1> QED BY <1>1, <1>2, <1>3, <1>4, <1>5, <1>6 DEF AttrInv

LEMMA AttrHolds == AttrInvAll => AttrExact
<1> SUFFICES ASSUME AttrInvAll PROVE AttrExact
  OBVIOUS
<1>1. KeyOnce
  BY DEF AttrInvAll, AttrInv, KeysInv
<1>2. ASSUME Serving, mode = "normal", NEW lsn \in Indexable(0)
      PROVE  \/ log[lsn + 1].id \in Waiting({"views", "attr"})
             \/ <<lsn, log[lsn + 1].key>> \in attr.posts
  <2>1. AttrLoaded
    BY <1>2, ServingLoaded DEF AttrInvAll, EngineInv, Serving
  <2>2. Posted(attr, lsn) \/ CallAt({"views", "attr"}, lsn)
    BY <1>2, <2>1 DEF AttrInvAll, AttrInv, AttrReached
  <2>3. CASE CallAt({"views", "attr"}, lsn)
    <3>1. PICK c \in Appenders : call[c].at \in {"views", "attr"} /\ call[c].lsn = lsn
      BY <2>3 DEF CallAt
    <3>2. call[c].ev = log[lsn + 1]
      BY <3>1 DEF AttrInvAll, CallsInv
    <3> QED BY <3>1, <3>2 DEF Waiting
  <2> QED BY <2>2, <2>3 DEF Posted
<1> QED BY <1>1, <1>2 DEF AttrExact, AttrComplete

\* A server that serves finds every episode of its log through the attribute
\* index, but those a caller is about to enter, and an idempotency key is in
\* the log at most once: what append_idempotent answers from the index is the
\* truth, whatever retries, shreds, crashes and boots went before
\* (Engine::append_idempotent, AttrIndex::open, Engine::shred).
THEOREM AttrIsExact ==
  ASSUME LogKept, ShredQuiet, CheckpointsSettled, SkipSavesNothing, SkipHasNoKeys
  PROVE  Spec => []AttrExact
<1>1. AttrInvAll /\ [Next]_vars => AttrInvAll'
  BY AttrStep
<1> QED BY AttrStart, <1>1, AttrHolds, PTL DEF Spec
=============================================================================
