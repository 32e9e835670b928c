---------------------------- MODULE ScreenProofs ----------------------------
(* The services behind the screen are safe, for every number of outputs,       *)
(* applications, notifications, requests, hotplugs, sleeps and restarts.  The  *)
(* sections are laid out as those of MachineProofs: a service has its          *)
(* variables' names for the registers it uses, and an invariant, IInv of its   *)
(* module, that every action keeps.                                            *)
EXTENDS ScreenServices, FiniteSetTheorems, SequenceTheorems, TLAPS

-----------------------------------------------------------------------------
(* Popup decks (PopupDecks).                                                  *)

\* The variables of PopupDecks.
active == r1
dnd == r2
policies == r3
leases == r4
sharing == r5
cards == r6
screens == r7
observer == r8
lastId == r9
hushed == r10
ended == r11
envd == r12
USE DEF active, dnd, policies, leases, sharing, cards, screens, observer, lastId, hushed, ended, envd

\* The popups count their decks as the standard module does.
LEMMA PopupsCount == \A S : (Popups!IsFiniteSet(S) <=> IsFiniteSet(S)) /\ Popups!Cardinality(S) = Cardinality(S)
BY DEF Popups!IsFiniteSet, IsFiniteSet, Popups!Cardinality, Cardinality

LEMMA PopupsLeastNat ==
  ASSUME NEW T, T \subseteq Nat, T # {}
  PROVE  \E x \in T : \A y \in T : x <= y
<1> DEFINE R == {p \in Nat \X Nat : p[1] < p[2]}
<1>1. IsWellFoundedOn(R, Nat)
  <2>1. OpToRel(<, Nat) = R
    BY DEF OpToRel
  <2> QED
    BY <2>1, NatLessThanWellFounded
<1>2. PICK x \in T : \A y \in T : ~ (<<y, x>> \in R)
  <2> HIDE DEF R
  <2> QED
    BY <1>1, WFMin
<1>3. ASSUME NEW y \in T PROVE x <= y
  <2>1. <<y, x>> \notin R /\ <<y, x>> \in Nat \X Nat
    BY <1>2
  <2>2. ~ (y < x)
    BY <2>1
  <2> QED
    BY <2>2
<1> QED
  BY <1>3

\* Among finitely many notifications there is a newest one.
LEMMA PopupsNewestOne ==
  ASSUME NEW k \in Nat, NEW S, S \subseteq 1..k, S # {}
  PROVE  \E n \in S : \A j \in S : j <= n
<1> DEFINE D == {d \in Nat : k - d \in S}
<1>1. PICK n \in S : TRUE
  OBVIOUS
<1>2. k - n \in D /\ D \subseteq Nat
  <2>1. k - n \in Nat /\ k - (k - n) = n
    BY <1>1
  <2> QED
    BY <1>1, <2>1
<1>3. PICK d \in D : \A e \in D : d <= e
  <2> HIDE DEF D
  <2> QED
    BY <1>2, PopupsLeastNat
<1>4. k - d \in S /\ d \in Nat
  BY <1>3
<1>5. \A j \in S : k - j \in D
  OBVIOUS
<1>6. \A j \in S : j \in Nat /\ d <= k - j
  <2>1. \A j \in S : d <= k - j
    <3> HIDE DEF D
    <3> QED
      BY <1>3, <1>5
  <2> QED
    BY <2>1
<1>7. \A j \in S : j <= k - d
  BY <1>4, <1>6
<1> QED
  BY <1>4, <1>7

\* Decks::project deals at most MaxDecks decks to a monitor: the applications are
\* ranked by their newest notifications, and no two have the same rank.
LEMMA PopupsStackedFew ==
  ASSUME Popups!DecksConstantsOK, NEW notes, NEW ids, NEW last \in Nat, ids \subseteq 1..last
  PROVE  /\ IsFiniteSet(Popups!Stacked(notes, ids))
         /\ Cardinality(Popups!Stacked(notes, ids)) <= Decks
<1> DEFINE apps == {notes[n].app : n \in ids}
           new(a) == Popups!Newest(notes, ids, a)
           above(a) == {b \in apps : new(b) > new(a)}
           S == Popups!Stacked(notes, ids)
<1>1. IsFiniteSet(apps)
  <2> DEFINE f == [n \in ids |-> notes[n].app]
  <2>1. IsFiniteSet(1..last)
    BY FS_Interval
  <2>2. IsFiniteSet(ids)
    BY <2>1, FS_Subset
  <2>3. f \in Surjection(ids, apps)
    BY DEF Surjection
  <2> QED
    BY <2>2, <2>3, FS_Surjection
<1>2. ASSUME NEW a \in apps PROVE new(a) \in ids /\ notes[new(a)].app = a
  <2> DEFINE mine == {n \in ids : notes[n].app = a}
  <2>1. \E n \in mine : \A j \in mine : j <= n
    <3>1. mine # {} /\ mine \subseteq 1..last
      OBVIOUS
    <3> QED
      BY <3>1, PopupsNewestOne
  <2>2. \E n \in ids : notes[n].app = a /\ \A j \in ids : notes[j].app = a => j <= n
    BY <2>1
  <2> QED
    BY <2>2 DEF Popups!Newest
<1>3. \A a \in apps : IsFiniteSet(above(a)) /\ Cardinality(above(a)) \in Nat
  BY <1>1, FS_Subset, FS_CardinalityType
<1>4. S = {a \in apps : Cardinality(above(a)) < Decks}
  BY PopupsCount DEF Popups!Stacked
<1> HIDE DEF new
<1>11. \A a \in apps : new(a) \in Nat /\ notes[new(a)].app = a
  <2> TAKE a \in apps
  <2>1. new(a) \in ids /\ notes[new(a)].app = a
    BY <1>2
  <2>2. ids \subseteq Nat
    OBVIOUS
  <2> HIDE DEF apps
  <2> QED
    BY <2>1, <2>2
<1> HIDE DEF apps
<1>5. ASSUME NEW a \in apps, NEW b \in apps, new(b) > new(a)
      PROVE  Cardinality(above(b)) # Cardinality(above(a))
  <2>1. new(a) \in Nat /\ new(b) \in Nat /\ \A c \in apps : new(c) \in Nat
    BY <1>11
  <2>2. above(b) \subseteq above(a)
    BY <2>1, <1>5
  <2>3. b \in above(a) /\ b \notin above(b)
    BY <2>1, <1>5
  <2> QED
    BY <2>2, <2>3, <1>3, FS_Subset
<1>6. ASSUME NEW a \in S, NEW b \in S, a # b
      PROVE  Cardinality(above(a)) # Cardinality(above(b))
  <2>1. a \in apps /\ b \in apps
    BY <1>4
  <2>2. new(a) # new(b) /\ new(a) \in Nat /\ new(b) \in Nat
    BY <2>1, <1>6, <1>11
  <2>3. new(a) > new(b) \/ new(b) > new(a)
    BY <2>2
  <2> QED
    BY <2>1, <2>3, <1>5
<1>7. IsFiniteSet(0..(Decks - 1)) /\ Cardinality(0..(Decks - 1)) = Decks
  BY FS_Interval DEF Popups!DecksConstantsOK
<1> DEFINE rank == [a \in S |-> Cardinality(above(a))]
<1> HIDE DEF above
<1>8. \A a \in S : Cardinality(above(a)) \in 0..(Decks - 1)
  <2> HIDE DEF S
  <2> QED
    BY <1>3, <1>4 DEF Popups!DecksConstantsOK
<1>9. rank \in Injection(S, 0..(Decks - 1))
  <2>1. rank \in [S -> 0..(Decks - 1)]
    BY <1>8
  <2>2. \A a, b \in S : rank[a] = rank[b] => a = b
    BY <1>6
  <2> HIDE DEF rank
  <2> QED
    BY <2>1, <2>2 DEF Injection, IsInjective
<1> HIDE DEF rank, S
<1>10. IsFiniteSet(S) /\ Cardinality(S) <= Decks
  BY <1>7, <1>9, FS_Injection
<1> QED
  BY <1>10 DEF S

\* Moving a notification to the focused output changes nothing else of it.
LEMMA PopupsRoutedNotes ==
  ASSUME NEW notes, NEW last, Popups!Notes(notes, last), screens.focus \in PopupMonitors \union {Popups!None}
  PROVE  /\ Popups!Notes(Popups!Routed(notes), last) /\ DOMAIN Popups!Routed(notes) = DOMAIN notes
         /\ \A n \in DOMAIN notes :
             /\ Popups!Routed(notes)[n].visible = notes[n].visible /\ Popups!Routed(notes)[n].version = notes[n].version
             /\ Popups!Routed(notes)[n].app = notes[n].app
<1>1. \A n \in DOMAIN notes : notes[n] \in Popups!Note
  BY DEF Popups!Notes
<1>2. DOMAIN Popups!Routed(notes) = DOMAIN notes
  BY DEF Popups!Routed
<1>3. ASSUME NEW n \in DOMAIN notes
      PROVE  /\ Popups!Routed(notes)[n] \in Popups!Note
             /\ Popups!Routed(notes)[n].visible = notes[n].visible /\ Popups!Routed(notes)[n].version = notes[n].version
             /\ Popups!Routed(notes)[n].app = notes[n].app
  BY <1>1 DEF Popups!Routed, Popups!Note
<1>4. Popups!Routed(notes) \in [DOMAIN notes -> Popups!Note]
  BY <1>3 DEF Popups!Routed
<1> QED
  BY <1>2, <1>3, <1>4 DEF Popups!Notes

\* What a card that is published rests on: an old card of a frozen monitor, or a
\* notification dealt to a monitor that nobody reads.
LEMMA PopupsProjected ==
  ASSUME NEW notes, NEW shown, NEW reading, NEW c \in Popups!project(notes, shown, reading)
  PROVE  \/ c \in cards /\ c.monitor \in DOMAIN reading /\ c.id \in shown /\ notes[c.id].monitor = c.monitor
         \/ \E n \in shown :
              /\ notes[n].monitor \in (PopupMonitors \union {Popups!None}) \ DOMAIN reading
              /\ notes[n].app \in Popups!Stacked(notes, {k \in shown : notes[k].monitor = notes[n].monitor})
              /\ c = [monitor |-> notes[n].monitor, app |-> notes[n].app, id |-> n, version |-> notes[n].version]
<1> DEFINE of(m) == {k \in shown : notes[k].monitor = m}
<1>1. CASE c \in {d \in cards : Popups!Freeze(d.monitor, reading) /\ d.id \in shown /\ notes[d.id].monitor = d.monitor}
  BY <1>1 DEF Popups!Freeze
<1>2. CASE \E m \in {k \in PopupMonitors \union {Popups!None} : ~Popups!Freeze(k, reading)} :
              c \in {[monitor |-> m, app |-> notes[n].app, id |-> n, version |-> notes[n].version] :
                     n \in {k \in of(m) : notes[k].app \in Popups!Stacked(notes, of(m))}}
  <2>1. PICK m \in {k \in PopupMonitors \union {Popups!None} : ~Popups!Freeze(k, reading)} :
              c \in {[monitor |-> m, app |-> notes[n].app, id |-> n, version |-> notes[n].version] :
                     n \in {k \in of(m) : notes[k].app \in Popups!Stacked(notes, of(m))}}
    BY <1>2
  <2>2. PICK n \in {k \in of(m) : notes[k].app \in Popups!Stacked(notes, of(m))} :
              c = [monitor |-> m, app |-> notes[n].app, id |-> n, version |-> notes[n].version]
    BY <2>1
  <2>3. n \in shown /\ notes[n].monitor = m /\ notes[n].app \in Popups!Stacked(notes, of(m))
    BY <2>2
  <2>4. m \in (PopupMonitors \union {Popups!None}) \ DOMAIN reading
    BY <2>1 DEF Popups!Freeze
  <2>5. of(m) = of(notes[n].monitor)
    BY <2>3
  <2> QED
    BY <2>2, <2>3, <2>4, <2>5
<1> QED
  BY <1>1, <1>2 DEF Popups!project

LEMMA PopupsEligibleOnes ==
  ASSUME NEW notes, NEW share, NEW rules, NEW quiet, NEW n \in Popups!Eligible(notes, share, rules, quiet)
  PROVE  n \in DOMAIN notes /\ notes[n].visible /\ ~Popups!silenced(rules[notes[n].app]) /\ ~Popups!suppressed(share)
BY DEF Popups!Eligible

\* publish_summary keeps the invariant, whatever the handler did before, if what
\* was hidden for good stays hidden and versions do not fall.
LEMMA PopupsPublished ==
  ASSUME Popups!DecksConstantsOK, Popups!ShapeInv, Popups!CardsInv, Popups!HushedInv, Popups!PlacesInv,
         NEW notes, NEW share \in Popups!Sharing, NEW rules \in [PopupApps -> Popups!Policy], NEW quiet, NEW reading,
         NEW arrived, NEW hidden,
         Popups!publish_summary(notes, share, rules, quiet, reading, arrived, hidden),
         screens' = screens, lastId' \in 0..PopupIds, Popups!Notes(notes, lastId'),
         \A n \in hidden : n \in DOMAIN notes /\ ~notes[n].visible,
         \A n \in (hushed \intersect DOMAIN notes) \ arrived : ~notes[n].visible,
         \A n \in DOMAIN notes \intersect DOMAIN active : active[n].version <= notes[n].version
  PROVE  Popups!ShapeInv' /\ Popups!CardsInv' /\ Popups!HushedInv' /\ Popups!PlacesInv'
<1> DEFINE routed == Popups!Routed(notes)
           shown == Popups!Eligible(routed, share, rules, quiet)
<1>1. /\ active' = routed /\ sharing' = share /\ policies' = rules
      /\ cards' = Popups!project(routed, shown, reading)
      /\ hushed' = ((hushed \intersect DOMAIN notes) \ arrived) \union hidden
  BY DEF Popups!publish_summary
<1>2. /\ Popups!Notes(routed, lastId') /\ DOMAIN routed = DOMAIN notes
      /\ \A n \in DOMAIN notes : /\ routed[n].visible = notes[n].visible /\ routed[n].version = notes[n].version
                               /\ routed[n].app = notes[n].app
  BY PopupsRoutedNotes DEF Popups!ShapeInv
<1>3. \A n \in DOMAIN routed : routed[n] \in Popups!Note /\ n \in 1..lastId' /\ n \in Nat
  BY <1>2 DEF Popups!Notes
<1>4. \A n \in shown : /\ n \in DOMAIN routed /\ routed[n].visible /\ ~Popups!silenced(rules[routed[n].app])
                      /\ ~Popups!suppressed(share)
  BY PopupsEligibleOnes
<1> HIDE DEF routed, shown
<1>5. ASSUME NEW c \in cards'
      PROVE  \/ c \in cards /\ c.monitor \in DOMAIN reading /\ c.id \in shown /\ routed[c.id].monitor = c.monitor
             \/ \E n \in shown :
                  /\ routed[n].monitor \in (PopupMonitors \union {Popups!None}) \ DOMAIN reading
                  /\ routed[n].app \in Popups!Stacked(routed, {k \in shown : routed[k].monitor = routed[n].monitor})
                  /\ c = [monitor |-> routed[n].monitor, app |-> routed[n].app, id |-> n, version |-> routed[n].version]
  <2>1. c \in Popups!project(routed, shown, reading)
    BY <1>1, <1>5
  <2> QED
    BY <2>1, PopupsProjected, SMTT(60)
<1>6. ASSUME NEW c \in cards'
      PROVE  /\ c \in [monitor : PopupMonitors \union {Popups!None}, app : PopupApps, id : Nat, version : Nat]
             /\ c.id \in shown /\ c.version <= routed[c.id].version /\ routed[c.id].monitor = c.monitor
  <2>1. CASE c \in cards /\ c.id \in shown /\ routed[c.id].monitor = c.monitor
    <3>1. /\ c \in [monitor : PopupMonitors \union {Popups!None}, app : PopupApps, id : Nat, version : Nat]
          /\ c.id \in DOMAIN active /\ c.version <= active[c.id].version /\ active[c.id].version \in Nat
      BY <2>1 DEF Popups!ShapeInv, Popups!CardsInv, Popups!Notes, Popups!Note
    <3>2. c.id \in DOMAIN notes /\ routed[c.id].version = notes[c.id].version
      BY <1>2, <1>4, <2>1
    <3>3. active[c.id].version <= routed[c.id].version /\ routed[c.id].version \in Nat
      BY <1>2, <1>3, <3>1, <3>2 DEF Popups!Note
    <3>4. c.version \in Nat
      BY <3>1
    <3> QED
      BY <2>1, <3>1, <3>3, <3>4
  <2>2. CASE \E n \in shown :
              c = [monitor |-> routed[n].monitor, app |-> routed[n].app, id |-> n, version |-> routed[n].version]
    <3>1. PICK n \in shown :
              c = [monitor |-> routed[n].monitor, app |-> routed[n].app, id |-> n, version |-> routed[n].version]
      BY <2>2
    <3>2. routed[n] \in Popups!Note /\ n \in Nat
      BY <1>3, <1>4
    <3> QED
      BY <3>1, <3>2 DEF Popups!Note
  <2> QED
    BY <1>5, <2>1, <2>2
<1>7. Popups!ShapeInv'
  <2>1. Popups!Notes(active, lastId)'
    BY <1>1, <1>2 DEF Popups!Notes
  <2> QED
    BY <1>1, <1>6, <2>1 DEF Popups!ShapeInv
<1>8. Popups!CardsInv'
  BY <1>1, <1>4, <1>6 DEF Popups!CardsInv
<1>9. Popups!HushedInv'
  <2>1. \A n \in hushed' : n \in DOMAIN notes /\ ~notes[n].visible
    BY <1>1
  <2> QED
    BY <1>1, <1>2, <2>1 DEF Popups!HushedInv
<1>10. Popups!PlacesInv'
  <2> SUFFICES ASSUME NEW m \in PopupMonitors
               PROVE  LET apps == {c.app : c \in {d \in cards' : d.monitor = m}}
                      IN  IsFiniteSet(apps) /\ Cardinality(apps) <= Decks
    BY PopupsCount DEF Popups!PlacesInv
  <2> DEFINE apps == {c.app : c \in {d \in cards' : d.monitor = m}}
             old == {c.app : c \in {d \in cards : d.monitor = m}}
             mine == {k \in shown : routed[k].monitor = m}
  <2>1. CASE m \in DOMAIN reading
    <3>1. ASSUME NEW c \in cards', c.monitor = m PROVE c \in cards
      <4>1. ASSUME NEW n \in shown, routed[n].monitor \notin DOMAIN reading,
                   c = [monitor |-> routed[n].monitor, app |-> routed[n].app, id |-> n, version |-> routed[n].version]
            PROVE  FALSE
        BY <2>1, <3>1, <4>1
      <4> QED
        BY <1>5, <4>1
    <3>2. apps \in SUBSET old
      BY <3>1
    <3>3. IsFiniteSet(old) /\ Cardinality(old) <= Decks
      BY PopupsCount DEF Popups!PlacesInv
    <3> HIDE DEF apps, old
    <3>4. IsFiniteSet(apps) /\ Cardinality(apps) <= Cardinality(old)
      BY <3>2, <3>3, FS_Subset
    <3>5. Cardinality(apps) \in Nat /\ Cardinality(old) \in Nat
      BY <3>3, <3>4, FS_CardinalityType
    <3>6. Cardinality(apps) <= Decks
      BY <3>3, <3>4, <3>5 DEF Popups!DecksConstantsOK
    <3> QED
      BY <3>4, <3>6 DEF apps
  <2>2. CASE m \notin DOMAIN reading
    <3>1. \A c \in cards' : c.monitor = m => c.app \in Popups!Stacked(routed, mine)
      <4> SUFFICES ASSUME NEW c \in cards', c.monitor = m
                   PROVE  c.app \in Popups!Stacked(routed, mine)
        OBVIOUS
      <4>1. PICK n \in shown :
              /\ routed[n].app \in Popups!Stacked(routed, {k \in shown : routed[k].monitor = routed[n].monitor})
              /\ c = [monitor |-> routed[n].monitor, app |-> routed[n].app, id |-> n, version |-> routed[n].version]
        BY <1>5, <2>2
      <4>2. routed[n].monitor = m /\ c.app = routed[n].app
        BY <4>1
      <4> QED
        BY <4>1, <4>2
    <3>2. mine \subseteq 1..lastId' /\ lastId' \in Nat
      BY <1>3, <1>4
    <3> HIDE DEF mine
    <3>3. IsFiniteSet(Popups!Stacked(routed, mine)) /\ Cardinality(Popups!Stacked(routed, mine)) <= Decks
      BY <3>2, PopupsStackedFew
    <3>4. apps \in SUBSET Popups!Stacked(routed, mine)
      BY <3>1
    <3> HIDE DEF apps
    <3>5. IsFiniteSet(apps) /\ Cardinality(apps) <= Cardinality(Popups!Stacked(routed, mine))
      BY <3>3, <3>4, FS_Subset
    <3>6. Cardinality(apps) \in Nat /\ Cardinality(Popups!Stacked(routed, mine)) \in Nat
      BY <3>3, <3>5, FS_CardinalityType
    <3>7. Cardinality(apps) <= Decks
      BY <3>3, <3>5, <3>6 DEF Popups!DecksConstantsOK
    <3> QED
      BY <3>5, <3>7 DEF apps
  <2> QED
    BY <2>1, <2>2
<1> QED
  BY <1>7, <1>8, <1>9, <1>10

\* A publication takes nothing from a monitor that is read and adds nothing to it,
\* if the handler keeps what may be seen there visible or hides it for good.
LEMMA PopupsPublishedFrozen ==
  ASSUME Popups!ShapeInv, Popups!CardsInv,
         NEW notes, NEW share, NEW rules, NEW quiet, NEW reading, NEW arrived, NEW hidden,
         Popups!publish_summary(notes, share, rules, quiet, reading, arrived, hidden),
         Popups!Notes(notes, lastId'),
         \A n \in (DOMAIN notes \intersect DOMAIN active) \ hushed' :
            active[n].visible /\ active[n].monitor \in DOMAIN reading
            /\ ~Popups!silenced(policies[active[n].app]) /\ ~Popups!suppressed(share)
            => notes[n].visible /\ ~Popups!silenced(rules[notes[n].app])
  PROVE  Popups!FrozenWhileRead
<1> DEFINE routed == Popups!Routed(notes)
           shown == Popups!Eligible(routed, share, rules, quiet)
<1>1. /\ active' = routed /\ sharing' = share /\ policies' = rules /\ dnd' = quiet /\ leases' = reading
      /\ cards' = Popups!project(routed, shown, reading)
  BY DEF Popups!publish_summary
<1>2. /\ DOMAIN routed = DOMAIN notes
      /\ \A n \in DOMAIN notes : routed[n].visible = notes[n].visible /\ routed[n].app = notes[n].app
  BY PopupsRoutedNotes DEF Popups!ShapeInv
<1> HIDE DEF routed, shown
<1>5. ASSUME NEW c \in Popups!project(routed, shown, reading)
      PROVE  \/ c \in cards /\ c.monitor \in DOMAIN reading /\ c.id \in shown /\ routed[c.id].monitor = c.monitor
             \/ \E n \in shown :
                  /\ routed[n].monitor \in (PopupMonitors \union {Popups!None}) \ DOMAIN reading
                  /\ routed[n].app \in Popups!Stacked(routed, {k \in shown : routed[k].monitor = routed[n].monitor})
                  /\ c = [monitor |-> routed[n].monitor, app |-> routed[n].app, id |-> n, version |-> routed[n].version]
  BY ONLY <1>5, PopupsProjected
<1> SUFFICES ASSUME NEW m \in DOMAIN leases \intersect DOMAIN leases'
             PROVE  /\ \A c \in cards' : c.monitor = m => c \in cards
                    /\ \A c \in cards :
                        /\ c.monitor = m /\ c.id \in DOMAIN active' \ hushed'
                        /\ active'[c.id].monitor = m /\ active'[c.id].snoozed = Popups!None /\ active'[c.id].app = c.app
                        /\ ~Popups!suppressed(sharing') /\ (~dnd'.on \/ policies'[c.app].bypass)
                        => c \in cards'
  BY DEF Popups!FrozenWhileRead, Popups!suppressed
<1>3. ASSUME NEW c \in cards', c.monitor = m PROVE c \in cards
  <2>1. \/ c \in cards /\ c.monitor \in DOMAIN reading /\ c.id \in shown /\ routed[c.id].monitor = c.monitor
        \/ \E n \in shown :
              /\ routed[n].monitor \in (PopupMonitors \union {Popups!None}) \ DOMAIN reading
              /\ routed[n].app \in Popups!Stacked(routed, {k \in shown : routed[k].monitor = routed[n].monitor})
              /\ c = [monitor |-> routed[n].monitor, app |-> routed[n].app, id |-> n, version |-> routed[n].version]
    <3>1. c \in Popups!project(routed, shown, reading)
      BY <1>1, <1>3
    <3> QED
      BY <3>1, <1>5
  <2>2. ASSUME NEW n \in shown, routed[n].monitor \notin DOMAIN reading,
               c = [monitor |-> routed[n].monitor, app |-> routed[n].app, id |-> n, version |-> routed[n].version]
        PROVE  FALSE
    BY <1>1, <1>3, <2>2
  <2> QED
    BY <2>1, <2>2
<1>4. ASSUME NEW c \in cards,
             c.monitor = m, c.id \in DOMAIN active' \ hushed',
             active'[c.id].monitor = m, active'[c.id].snoozed = Popups!None, active'[c.id].app = c.app,
             ~Popups!suppressed(sharing'), ~dnd'.on \/ policies'[c.app].bypass
      PROVE  c \in cards'
  <2>1. /\ c.id \in DOMAIN active /\ active[c.id].visible /\ active[c.id].monitor = m
        /\ ~Popups!silenced(policies[active[c.id].app])
    BY <1>4 DEF Popups!CardsInv
  <2>2. c.id \in DOMAIN notes /\ m \in DOMAIN reading /\ ~Popups!suppressed(share)
    BY <1>1, <1>2, <1>4 DEF Popups!suppressed
  <2>3. notes[c.id].visible /\ ~Popups!silenced(rules[notes[c.id].app])
    BY <1>4, <2>1, <2>2
  <2>4. routed[c.id].visible /\ ~Popups!silenced(rules[routed[c.id].app])
    BY <1>2, <2>2, <2>3
  <2>5. c.id \in shown
    BY <1>1, <1>2, <1>4, <2>2, <2>4 DEF Popups!Eligible, shown
  <2> QED
    BY <1>1, <1>4, <2>2, <2>5 DEF Popups!project, Popups!Freeze
<1> QED
  BY <1>3, <1>4

-----------------------------------------------------------------------------
(* The steps. *)

LEMMA PopupsInitHolds == ASSUME Popups!DecksConstantsOK, Popups!DecksInit PROVE Popups!DecksIInv
<1>1. Popups!ShapeInv
  <2>1. (CHOOSE m \in PopupMonitors : TRUE) \in PopupMonitors
    BY DEF Popups!DecksConstantsOK
  <2>2. Popups!Notes(active, lastId)
    BY DEF Popups!DecksInit, Popups!Notes, Popups!Nobody
  <2>3. policies \in [PopupApps -> Popups!Policy] /\ sharing \in Popups!Sharing
    BY DEF Popups!DecksInit, Popups!Policy, Popups!NoPolicy, Popups!Sharing, Popups!Deadlines
  <2> QED
    BY <2>1, <2>2, <2>3 DEF Popups!DecksInit, Popups!ShapeInv, Popups!DecksConstantsOK
<1>2. Popups!CardsInv /\ Popups!HushedInv
  BY DEF Popups!DecksInit, Popups!CardsInv, Popups!HushedInv
<1>3. Popups!PlacesInv
  <2>1. IsFiniteSet({}) /\ Cardinality({}) = 0
    BY FS_EmptySet
  <2>2. \A m \in PopupMonitors : {c.app : c \in {d \in cards : d.monitor = m}} = {}
    BY DEF Popups!DecksInit
  <2> QED
    BY <2>1, <2>2, PopupsCount DEF Popups!PlacesInv, Popups!DecksConstantsOK
<1>4. Popups!ObserverInv
  BY DEF Popups!DecksInit, Popups!ObserverInv, Popups!Observer, Popups!Owed, Popups!Falls, Popups!Applied, Popups!Heard, Popups!Told, Popups!None, Popups!Nothing
<1> QED
  BY <1>1, <1>2, <1>3, <1>4 DEF Popups!DecksIInv

\* The observation under way is not the concern of a handler that leaves sharing on
\* or off.
LEMMA PopupsObserverStays ==
  ASSUME Popups!ObserverInv, observer' = observer, ended' = ended, sharing'.active = sharing.active
  PROVE  Popups!ObserverInv'
BY DEF Popups!ObserverInv, Popups!Owed, Popups!Observer, Popups!Applied, Popups!Heard, Popups!Told, Popups!Falls

\* What a handler of the engine owes to what it publishes: versions do not fall,
\* what was hidden for good stays hidden, and what may be seen where somebody reads
\* stays visible or is hidden for good.
PopupsHonest(notes, share, rules, reading, arrived, hidden) ==
    /\ share \in Popups!Sharing /\ rules \in [PopupApps -> Popups!Policy]
    /\ lastId' \in 0..PopupIds /\ Popups!Notes(notes, lastId')
    /\ \A n \in hidden : n \in DOMAIN notes /\ ~notes[n].visible
    /\ \A n \in DOMAIN notes \intersect DOMAIN active :
        /\ active[n].version <= notes[n].version
        /\ n \in arrived \/ active[n].visible \/ ~notes[n].visible
        /\ n \in hidden
           \/ (active[n].visible /\ active[n].monitor \in DOMAIN reading
               /\ ~Popups!silenced(policies[active[n].app]) /\ ~Popups!suppressed(share)
               => notes[n].visible /\ ~Popups!silenced(rules[notes[n].app]))

LEMMA PopupsHandled ==
  ASSUME Popups!DecksConstantsOK, Popups!DecksIInv, Popups!ObserverInv', screens' = screens,
         NEW notes, NEW share, NEW rules, NEW quiet, NEW reading, NEW arrived, NEW hidden,
         Popups!publish_summary(notes, share, rules, quiet, reading, arrived, hidden),
         PopupsHonest(notes, share, rules, reading, arrived, hidden)
  PROVE  Popups!DecksIInv' /\ Popups!FrozenWhileRead
<1>1. \A n \in (hushed \intersect DOMAIN notes) \ arrived : ~notes[n].visible
  BY DEF Popups!DecksIInv, Popups!HushedInv, PopupsHonest
<1>2. \A n \in DOMAIN notes \intersect DOMAIN active : active[n].version <= notes[n].version
  BY DEF PopupsHonest
<1>3. Popups!ShapeInv' /\ Popups!CardsInv' /\ Popups!HushedInv' /\ Popups!PlacesInv'
  <2>1. /\ share \in Popups!Sharing /\ rules \in [PopupApps -> Popups!Policy] /\ lastId' \in 0..PopupIds /\ Popups!Notes(notes, lastId')
        /\ \A n \in hidden : n \in DOMAIN notes /\ ~notes[n].visible
    BY DEF PopupsHonest
  <2> QED
    BY <1>1, <1>2, <2>1, PopupsPublished DEF Popups!DecksIInv
<1>4. hidden \subseteq hushed'
  BY DEF Popups!publish_summary
<1>5. Popups!FrozenWhileRead
  <2>1. \A n \in (DOMAIN notes \intersect DOMAIN active) \ hushed' :
            active[n].visible /\ active[n].monitor \in DOMAIN reading
            /\ ~Popups!silenced(policies[active[n].app]) /\ ~Popups!suppressed(share)
            => notes[n].visible /\ ~Popups!silenced(rules[notes[n].app])
    BY <1>4 DEF PopupsHonest
  <2>2. Popups!Notes(notes, lastId')
    BY DEF PopupsHonest
  <2> QED
    BY <2>1, <2>2, PopupsPublishedFrozen DEF Popups!DecksIInv
<1> QED
  BY <1>3, <1>5 DEF Popups!DecksIInv

LEMMA PopupsNotesAre ==
  ASSUME Popups!ShapeInv
  PROVE  /\ lastId \in 0..PopupIds /\ DOMAIN active \subseteq 1..lastId
         /\ \A n \in DOMAIN active : active[n] \in Popups!Note
         /\ policies \in [PopupApps -> Popups!Policy] /\ sharing \in Popups!Sharing
BY DEF Popups!ShapeInv, Popups!Notes

LEMMA PopupsNotesKept ==
  ASSUME Popups!ShapeInv, NEW notes, DOMAIN notes \subseteq DOMAIN active, lastId' = lastId,
         notes = [n \in DOMAIN notes |-> notes[n]], \A n \in DOMAIN notes : notes[n] \in Popups!Note
  PROVE  Popups!Notes(notes, lastId') /\ lastId' \in 0..PopupIds
BY DEF Popups!ShapeInv, Popups!Notes

LEMMA PopupsNotifyKeeps ==
  ASSUME Popups!DecksConstantsOK, Popups!DecksIInv, NEW id \in 1..PopupIds, NEW app \in PopupApps, NEW timeout \in Popups!Timeouts,
         Popups!notify(id, app, timeout)
  PROVE  Popups!DecksIInv' /\ Popups!FrozenWhileRead
<1> DEFINE new == Popups!upsert(id, app, timeout)
           notes == Popups!With(active, id, new)
           quiet == Popups!suppressed(sharing) \/ Popups!silenced(policies[app])
           hidden == IF quiet THEN {id} ELSE {}
<1>1. /\ Popups!publish_summary(notes, sharing, policies, dnd, leases, {id}, hidden)
      /\ id \in DOMAIN active \/ (id = lastId + 1 /\ id <= PopupIds)
      /\ lastId' = IF id > lastId THEN id ELSE lastId
      /\ screens' = screens /\ observer' = observer /\ ended' = ended
  BY DEF Popups!notify
<1>2. /\ lastId \in 0..PopupIds /\ DOMAIN active \subseteq 1..lastId /\ \A n \in DOMAIN active : active[n] \in Popups!Note
      /\ policies \in [PopupApps -> Popups!Policy] /\ sharing \in Popups!Sharing /\ screens.focus \in PopupMonitors \union {Popups!None}
  BY PopupsNotesAre DEF Popups!DecksIInv, Popups!ShapeInv
<1>3. /\ DOMAIN notes = DOMAIN active \union {id} /\ notes[id] = new
      /\ notes = [n \in DOMAIN notes |-> notes[n]]
      /\ \A n \in DOMAIN active : n # id => notes[n] = active[n]
  BY DEF Popups!With
<1>4. quiet \in BOOLEAN /\ new.visible = ~quiet /\ new.app = app
  BY DEF Popups!upsert, Popups!QuietArrival, Popups!suppressed, Popups!silenced
<1>5. new \in Popups!Note
  <2>1. timeout.toast \in Popups!Deadlines /\ timeout.expires \in Popups!Deadlines /\ Popups!None \in Popups!Deadlines
    BY DEF Popups!Timeouts, Popups!Deadlines
  <2>2. id \in DOMAIN active => active[id].monitor \in PopupMonitors \union {Popups!None} /\ active[id].version + 1 \in Nat
    BY <1>2 DEF Popups!Note
  <2>3. Popups!QuietArrival(app) \in BOOLEAN
    BY DEF Popups!QuietArrival, Popups!suppressed, Popups!silenced
  <2>4. (~Popups!QuietArrival(app)) \in BOOLEAN
    BY <2>3
  <2> HIDE DEF new
  <2>5. new = [app |-> app,
               monitor |-> IF id \in DOMAIN active THEN active[id].monitor ELSE screens.focus,
               version |-> IF id \in DOMAIN active THEN active[id].version + 1 ELSE 0,
               visible |-> ~Popups!QuietArrival(app), toast |-> timeout.toast, expires |-> timeout.expires, snoozed |-> Popups!None]
    BY DEF Popups!upsert, new
  <2> QED
    BY <1>2, <2>1, <2>2, <2>4, <2>5 DEF Popups!Note
<1>6. id \in DOMAIN active => active[id].version <= new.version
  BY <1>2 DEF Popups!upsert, Popups!Note
<1>7. lastId' \in 0..PopupIds /\ DOMAIN notes \subseteq 1..lastId'
  BY <1>1, <1>2, <1>3 DEF Popups!DecksConstantsOK
<1> HIDE DEF notes, new, quiet
<1>8. Popups!Notes(notes, lastId')
  <2>1. \A n \in DOMAIN notes : notes[n] \in Popups!Note
    BY <1>2, <1>3, <1>5
  <2> QED
    BY <1>3, <1>7, <2>1 DEF Popups!Notes
<1>9. \A n \in hidden : n \in DOMAIN notes /\ ~notes[n].visible
  BY <1>3, <1>4
<1>10. ASSUME NEW n \in DOMAIN notes \intersect DOMAIN active
       PROVE  /\ active[n].version <= notes[n].version
              /\ n \in {id} \/ active[n].visible \/ ~notes[n].visible
              /\ n \in hidden
                 \/ (active[n].visible /\ active[n].monitor \in DOMAIN leases
                     /\ ~Popups!silenced(policies[active[n].app]) /\ ~Popups!suppressed(sharing)
                     => notes[n].visible /\ ~Popups!silenced(policies[notes[n].app]))
  <2>1. CASE n = id
    <3>1. notes[n] = new /\ active[n].version <= notes[n].version
      BY <1>3, <1>6, <2>1
    <3>2. n \in hidden \/ (notes[n].visible /\ ~Popups!silenced(policies[notes[n].app]))
      BY <1>4, <2>1, <3>1 DEF quiet
    <3> QED
      BY <2>1, <3>1, <3>2
  <2>2. CASE n # id
    <3>1. notes[n] = active[n] /\ active[n].version \in Nat /\ active[n].visible \in BOOLEAN
      BY <1>2, <1>3, <2>2 DEF Popups!Note
    <3> QED
      BY <3>1
  <2> QED
    BY <2>1, <2>2
<1>11. Popups!ObserverInv'
  BY <1>1, PopupsObserverStays DEF Popups!DecksIInv, Popups!publish_summary
<1>12. policies \in [PopupApps -> Popups!Policy] /\ sharing \in Popups!Sharing
  BY <1>2
<1> HIDE DEF hidden
<1>20. PopupsHonest(notes, sharing, policies, leases, {id}, hidden)
  BY <1>7, <1>8, <1>9, <1>10, <1>12 DEF PopupsHonest
<1> QED
  BY <1>1, <1>11, <1>20, PopupsHandled

LEMMA PopupsDismissKeeps ==
  ASSUME Popups!DecksConstantsOK, Popups!DecksIInv, NEW ids, Popups!dismiss(ids)
  PROVE  Popups!DecksIInv' /\ Popups!FrozenWhileRead
<1> DEFINE notes == Popups!Without(ids)
<1>1. /\ Popups!publish_summary(notes, sharing, policies, dnd, leases, {}, {})
      /\ screens' = screens /\ observer' = observer /\ ended' = ended /\ lastId' = lastId
  BY DEF Popups!dismiss
<1>2. /\ \A n \in DOMAIN active : active[n] \in Popups!Note
      /\ policies \in [PopupApps -> Popups!Policy] /\ sharing \in Popups!Sharing
  BY PopupsNotesAre DEF Popups!DecksIInv
<1>3. /\ DOMAIN notes \subseteq DOMAIN active /\ notes = [n \in DOMAIN notes |-> notes[n]]
      /\ \A n \in DOMAIN notes : notes[n] = active[n]
  BY DEF Popups!Without
<1> HIDE DEF notes
<1>4. Popups!Notes(notes, lastId') /\ lastId' \in 0..PopupIds
  <2>1. \A n \in DOMAIN notes : notes[n] \in Popups!Note
    BY <1>2, <1>3
  <2> QED
    BY <1>1, <1>3, <2>1, PopupsNotesKept DEF Popups!DecksIInv
<1>5. \A n \in DOMAIN notes \intersect DOMAIN active :
         notes[n] = active[n] /\ active[n].version \in Nat /\ active[n].visible \in BOOLEAN
  BY <1>2, <1>3 DEF Popups!Note
<1>6. Popups!ObserverInv'
  BY <1>1, PopupsObserverStays DEF Popups!DecksIInv, Popups!publish_summary
<1>7. ASSUME NEW n \in DOMAIN notes \intersect DOMAIN active
       PROVE  /\ active[n].version <= notes[n].version
              /\ n \in {} \/ active[n].visible \/ ~notes[n].visible
              /\ n \in {}
                 \/ (active[n].visible /\ active[n].monitor \in DOMAIN leases
                     /\ ~Popups!silenced(policies[active[n].app]) /\ ~Popups!suppressed(sharing)
                     => notes[n].visible /\ ~Popups!silenced(policies[notes[n].app]))
  BY <1>5
<1>8. policies \in [PopupApps -> Popups!Policy] /\ sharing \in Popups!Sharing
  BY <1>2
<1>20. PopupsHonest(notes, sharing, policies, leases, {}, {})
  BY <1>4, <1>7, <1>8 DEF PopupsHonest
<1> QED
  BY <1>1, <1>6, <1>20, PopupsHandled

\* Handlers that leave the notifications as they are.
LEMMA PopupsSameNotes ==
  ASSUME Popups!DecksConstantsOK, Popups!DecksIInv,
         NEW share \in Popups!Sharing, share.active = sharing.active, NEW quiet, NEW reading,
         Popups!publish_summary(active, share, policies, quiet, reading, {}, {}),
         UNCHANGED <<screens, observer, lastId, ended>>
  PROVE  Popups!DecksIInv' /\ Popups!FrozenWhileRead
<1>1. /\ \A n \in DOMAIN active : active[n] \in Popups!Note
      /\ policies \in [PopupApps -> Popups!Policy] /\ Popups!Notes(active, lastId') /\ lastId' \in 0..PopupIds
  BY PopupsNotesAre DEF Popups!DecksIInv, Popups!ShapeInv
<1>2. \A n \in DOMAIN active : active[n].version \in Nat /\ active[n].visible \in BOOLEAN
  BY <1>1 DEF Popups!Note
<1>3. Popups!ObserverInv'
  BY PopupsObserverStays DEF Popups!DecksIInv, Popups!publish_summary
<1>4. ASSUME NEW n \in DOMAIN active \intersect DOMAIN active
       PROVE  /\ active[n].version <= active[n].version
              /\ n \in {} \/ active[n].visible \/ ~active[n].visible
              /\ n \in {}
                 \/ (active[n].visible /\ active[n].monitor \in DOMAIN reading
                     /\ ~Popups!silenced(policies[active[n].app]) /\ ~Popups!suppressed(share)
                     => active[n].visible /\ ~Popups!silenced(policies[active[n].app]))
  BY <1>2
<1>20. PopupsHonest(active, share, policies, reading, {}, {})
  BY <1>1, <1>4 DEF PopupsHonest
<1> QED
  BY <1>3, <1>20, PopupsHandled

LEMMA PopupsSnoozeKeeps ==
  ASSUME Popups!DecksConstantsOK, Popups!DecksIInv, NEW id, Popups!snooze(id)
  PROVE  Popups!DecksIInv' /\ Popups!FrozenWhileRead
<1> DEFINE notes == [active EXCEPT ![id].snoozed = Popups!Later, ![id].version = @ + 1, ![id].visible = TRUE,
                                   ![id].toast = Popups!Later, ![id].expires = IF @ = Popups!None THEN Popups!None ELSE Popups!Later]
<1>1. /\ Popups!publish_summary(notes, sharing, policies, dnd, leases, {id}, {})
      /\ screens' = screens /\ observer' = observer /\ ended' = ended /\ lastId' = lastId
      /\ id \in DOMAIN active
  BY DEF Popups!snooze
<1>2. /\ \A n \in DOMAIN active : active[n] \in Popups!Note
      /\ policies \in [PopupApps -> Popups!Policy] /\ sharing \in Popups!Sharing
  BY PopupsNotesAre DEF Popups!DecksIInv
<1>3. active \in [DOMAIN active -> Popups!Note]
  BY DEF Popups!DecksIInv, Popups!ShapeInv, Popups!Notes
<1>4. /\ DOMAIN notes = DOMAIN active /\ notes = [n \in DOMAIN notes |-> notes[n]]
      /\ \A n \in DOMAIN notes : n # id => notes[n] = active[n]
  BY <1>3
<1>5. /\ notes[id] \in Popups!Note /\ notes[id].visible /\ notes[id].app = active[id].app
      /\ notes[id].version = active[id].version + 1
  BY <1>1, <1>2, <1>3 DEF Popups!Note, Popups!Deadlines
<1> HIDE DEF notes
<1>6. Popups!Notes(notes, lastId') /\ lastId' \in 0..PopupIds
  <2>1. \A n \in DOMAIN notes : notes[n] \in Popups!Note
    BY <1>2, <1>4, <1>5
  <2> QED
    BY <1>1, <1>4, <2>1, PopupsNotesKept DEF Popups!DecksIInv
<1>7. \A n \in DOMAIN notes \intersect DOMAIN active :
         /\ active[n].version <= notes[n].version
         /\ n \in {id} \/ active[n].visible \/ ~notes[n].visible
         /\ active[n].visible => notes[n].visible
         /\ notes[n].app = active[n].app
  <2> TAKE n \in DOMAIN notes \intersect DOMAIN active
  <2>1. active[n].version \in Nat /\ active[n].visible \in BOOLEAN
    BY <1>2 DEF Popups!Note
  <2> QED
    BY <1>4, <1>5, <2>1
<1>8. Popups!ObserverInv'
  BY <1>1, PopupsObserverStays DEF Popups!DecksIInv, Popups!publish_summary
<1>9. ASSUME NEW n \in DOMAIN notes \intersect DOMAIN active
       PROVE  /\ active[n].version <= notes[n].version
              /\ n \in {id} \/ active[n].visible \/ ~notes[n].visible
              /\ n \in {}
                 \/ (active[n].visible /\ active[n].monitor \in DOMAIN leases
                     /\ ~Popups!silenced(policies[active[n].app]) /\ ~Popups!suppressed(sharing)
                     => notes[n].visible /\ ~Popups!silenced(policies[notes[n].app]))
  <2>1. notes[n].app = active[n].app /\ (active[n].visible => notes[n].visible)
        /\ (n \in {id} \/ active[n].visible \/ ~notes[n].visible) /\ active[n].version <= notes[n].version
    BY <1>7
  <2> QED
    BY <2>1
<1>20. PopupsHonest(notes, sharing, policies, leases, {id}, {})
  BY <1>2, <1>6, <1>9 DEF PopupsHonest
<1> QED
  BY <1>1, <1>8, <1>20, PopupsHandled

LEMMA PopupsHushed ==
  ASSUME Popups!ShapeInv, NEW ids
  PROVE  LET notes == Popups!Hush(active, ids)
         IN  /\ DOMAIN notes = DOMAIN active /\ notes = [n \in DOMAIN notes |-> notes[n]]
             /\ \A n \in DOMAIN active :
                 /\ notes[n] \in Popups!Note /\ notes[n].version = active[n].version /\ notes[n].app = active[n].app
                 /\ n \notin ids => notes[n] = active[n]
                 /\ n \in ids => ~notes[n].visible
                 /\ active[n].version \in Nat /\ active[n].visible \in BOOLEAN
<1>1. \A n \in DOMAIN active : active[n] \in Popups!Note
  BY PopupsNotesAre
<1>2. DOMAIN Popups!Hush(active, ids) = DOMAIN active
  BY DEF Popups!Hush
<1>3. ASSUME NEW n \in DOMAIN active
      PROVE  /\ n \in ids => Popups!Hush(active, ids)[n] = [active[n] EXCEPT !.visible = FALSE, !.toast = Popups!None]
             /\ n \notin ids => Popups!Hush(active, ids)[n] = active[n]
  BY DEF Popups!Hush
<1>4. Popups!Hush(active, ids) = [n \in DOMAIN Popups!Hush(active, ids) |-> Popups!Hush(active, ids)[n]]
  BY DEF Popups!Hush
<1>5. ASSUME NEW n \in DOMAIN active
      PROVE  /\ Popups!Hush(active, ids)[n] \in Popups!Note /\ Popups!Hush(active, ids)[n].version = active[n].version
             /\ Popups!Hush(active, ids)[n].app = active[n].app
             /\ n \in ids => ~Popups!Hush(active, ids)[n].visible
             /\ active[n].version \in Nat /\ active[n].visible \in BOOLEAN
  <2> DEFINE old == active[n] new == Popups!Hush(active, ids)[n]
  <2>1. old \in Popups!Note /\ (new = old \/ new = [old EXCEPT !.visible = FALSE, !.toast = Popups!None])
    BY <1>1, <1>3
  <2>2. n \in ids => new = [old EXCEPT !.visible = FALSE, !.toast = Popups!None]
    BY <1>3
  <2> HIDE DEF old, new
  <2>3. /\ new \in Popups!Note /\ new.version = old.version /\ new.app = old.app
        /\ n \in ids => ~new.visible
        /\ old.version \in Nat /\ old.visible \in BOOLEAN
    BY <2>1, <2>2 DEF Popups!Note, Popups!Deadlines
  <2> QED
    BY <2>3 DEF old, new
<1> QED
  BY <1>2, <1>3, <1>4, <1>5

LEMMA PopupsPolicyKeeps ==
  ASSUME Popups!DecksConstantsOK, Popups!DecksIInv, NEW app \in PopupApps, NEW policy \in Popups!Policy, Popups!set_app_policy(app, policy)
  PROVE  Popups!DecksIInv' /\ Popups!FrozenWhileRead
<1> DEFINE mine == IF Popups!silenced(policy) THEN {n \in DOMAIN active : active[n].app = app} ELSE {}
           notes == Popups!Hush(active, mine)
           rules == [policies EXCEPT ![app] = policy]
<1>1. /\ Popups!publish_summary(notes, sharing, rules, dnd, leases, {}, mine)
      /\ screens' = screens /\ observer' = observer /\ ended' = ended /\ lastId' = lastId
  BY DEF Popups!set_app_policy
<1>2. policies \in [PopupApps -> Popups!Policy] /\ sharing \in Popups!Sharing /\ \A n \in DOMAIN active : active[n].app \in PopupApps
  BY PopupsNotesAre DEF Popups!DecksIInv, Popups!Note
<1>3. /\ DOMAIN notes = DOMAIN active /\ notes = [n \in DOMAIN notes |-> notes[n]]
      /\ \A n \in DOMAIN active :
          /\ notes[n] \in Popups!Note /\ notes[n].version = active[n].version /\ notes[n].app = active[n].app
          /\ n \notin mine => notes[n] = active[n]
          /\ n \in mine => ~notes[n].visible
          /\ active[n].version \in Nat /\ active[n].visible \in BOOLEAN
  <2> HIDE DEF mine
  <2> QED
    BY PopupsHushed DEF Popups!DecksIInv
<1>4. rules \in [PopupApps -> Popups!Policy]
  BY <1>2
<1>5. \A n \in DOMAIN active : n \notin mine /\ ~Popups!silenced(policies[active[n].app]) => ~Popups!silenced(rules[active[n].app])
  BY <1>2
<1>6. mine \subseteq DOMAIN active
  OBVIOUS
<1> HIDE DEF notes, rules, mine
<1>7. Popups!Notes(notes, lastId') /\ lastId' \in 0..PopupIds
  BY <1>1, <1>3, PopupsNotesKept DEF Popups!DecksIInv
<1>8. Popups!ObserverInv'
  BY <1>1, PopupsObserverStays DEF Popups!DecksIInv, Popups!publish_summary
<1>9. \A n \in mine : n \in DOMAIN notes /\ ~notes[n].visible
  BY <1>3, <1>6
<1>10. ASSUME NEW n \in DOMAIN notes \intersect DOMAIN active
       PROVE  /\ active[n].version <= notes[n].version
              /\ n \in {} \/ active[n].visible \/ ~notes[n].visible
              /\ n \in mine
                 \/ (active[n].visible /\ active[n].monitor \in DOMAIN leases
                     /\ ~Popups!silenced(policies[active[n].app]) /\ ~Popups!suppressed(sharing)
                     => notes[n].visible /\ ~Popups!silenced(rules[notes[n].app]))
  BY <1>3, <1>5
<1>20. PopupsHonest(notes, sharing, rules, leases, {}, mine)
  BY <1>2, <1>4, <1>7, <1>9, <1>10 DEF PopupsHonest
<1> QED
  BY <1>1, <1>8, <1>20, PopupsHandled

LEMMA PopupsReleasedNotes ==
  ASSUME Popups!ShapeInv, NEW monitors, NEW due
  PROVE  LET notes == Popups!Released(active, monitors, due)
         IN  /\ DOMAIN notes = DOMAIN active /\ notes = [n \in DOMAIN notes |-> notes[n]]
             /\ \A n \in DOMAIN active :
                 /\ notes[n] \in Popups!Note /\ notes[n].version = active[n].version /\ notes[n].app = active[n].app
                 /\ notes[n].visible = active[n].visible /\ notes[n].monitor = active[n].monitor
                 /\ active[n].version \in Nat /\ active[n].visible \in BOOLEAN
<1>1. \A n \in DOMAIN active : active[n] \in Popups!Note
  BY PopupsNotesAre
<1>2. DOMAIN Popups!Released(active, monitors, due) = DOMAIN active
  BY DEF Popups!Released
<1>3. Popups!Released(active, monitors, due) = [n \in DOMAIN Popups!Released(active, monitors, due) |-> Popups!Released(active, monitors, due)[n]]
  BY DEF Popups!Released
<1>4. ASSUME NEW n \in DOMAIN active
      PROVE  LET new == Popups!Released(active, monitors, due)[n]
             IN  /\ new \in Popups!Note /\ new.version = active[n].version /\ new.app = active[n].app
                 /\ new.visible = active[n].visible /\ new.monitor = active[n].monitor
                 /\ active[n].version \in Nat /\ active[n].visible \in BOOLEAN
  <2> DEFINE old == active[n] new == Popups!Released(active, monitors, due)[n]
  <2>1. old \in Popups!Note /\ (new = old \/ new = [old EXCEPT !.toast = Popups!Later])
    BY <1>1 DEF Popups!Released
  <2> HIDE DEF old, new
  <2>2. /\ new \in Popups!Note /\ new.version = old.version /\ new.app = old.app
        /\ new.visible = old.visible /\ new.monitor = old.monitor
        /\ old.version \in Nat /\ old.visible \in BOOLEAN
    BY <2>1 DEF Popups!Note, Popups!Deadlines
  <2> QED
    BY <2>2 DEF old, new
<1> QED
  BY <1>2, <1>3, <1>4

LEMMA PopupsDndKeeps ==
  ASSUME Popups!DecksConstantsOK, Popups!DecksIInv, NEW on, NEW until, Popups!set_dnd(on, until)
  PROVE  Popups!DecksIInv' /\ Popups!FrozenWhileRead
<1>1. sharing \in Popups!Sharing
  BY DEF Popups!DecksIInv, Popups!ShapeInv
<1>2. /\ Popups!publish_summary(active, sharing, policies, [on |-> on, until |-> until], leases, {}, {})
      /\ UNCHANGED <<screens, observer, lastId, ended>>
  BY DEF Popups!set_dnd
<1> QED
  BY <1>1, <1>2, PopupsSameNotes

LEMMA PopupsSharingSnoozeKeeps ==
  ASSUME Popups!DecksConstantsOK, Popups!DecksIInv, NEW minutes \in BOOLEAN, Popups!snooze_sharing(minutes)
  PROVE  Popups!DecksIInv' /\ Popups!FrozenWhileRead
<1>1. Popups!snoozed(sharing, minutes) \in Popups!Sharing /\ Popups!snoozed(sharing, minutes).active = sharing.active
  BY DEF Popups!DecksIInv, Popups!ShapeInv, Popups!Sharing, Popups!snoozed, Popups!Deadlines
<1>2. /\ Popups!publish_summary(active, Popups!snoozed(sharing, minutes), policies, dnd, leases, {}, {})
      /\ UNCHANGED <<screens, observer, lastId, ended>>
  BY DEF Popups!snooze_sharing
<1> QED
  BY <1>1, <1>2, PopupsSameNotes

LEMMA PopupsRoutesKeep ==
  ASSUME Popups!DecksConstantsOK, Popups!DecksIInv, Popups!run_routes
  PROVE  Popups!DecksIInv' /\ Popups!FrozenWhileRead
<1>1. sharing \in Popups!Sharing
  BY DEF Popups!DecksIInv, Popups!ShapeInv
<1>2. /\ Popups!publish_summary(active, sharing, policies, dnd, leases, {}, {})
      /\ UNCHANGED <<screens, observer, lastId, ended>>
  BY DEF Popups!run_routes
<1> QED
  BY <1>1, <1>2, PopupsSameNotes

LEMMA PopupsReadingKeeps ==
  ASSUME Popups!DecksConstantsOK, Popups!DecksIInv, NEW m, NEW reading \in BOOLEAN, Popups!set_reading(m, reading)
  PROVE  Popups!DecksIInv' /\ Popups!FrozenWhileRead
<1>1. sharing \in Popups!Sharing /\ policies \in [PopupApps -> Popups!Policy]
  BY DEF Popups!DecksIInv, Popups!ShapeInv
<1>2. CASE reading
  <2>1. /\ Popups!publish_summary(active, sharing, policies, dnd, Popups!With(leases, m, Popups!Later), {}, {})
        /\ UNCHANGED <<screens, observer, lastId, ended>>
    BY <1>2 DEF Popups!set_reading
  <2> QED
    BY <1>1, <2>1, PopupsSameNotes
<1>3. CASE ~reading
  <2>1. PICK due : /\ Popups!publish_summary(Popups!Released(active, {m} \intersect DOMAIN leases, due), sharing, policies, dnd,
                                      [k \in DOMAIN leases \ {m} |-> leases[k]], {}, {})
                   /\ UNCHANGED <<screens, observer, lastId, ended>>
    BY <1>3 DEF Popups!set_reading
  <2> DEFINE notes == Popups!Released(active, {m} \intersect DOMAIN leases, due)
             left == [k \in DOMAIN leases \ {m} |-> leases[k]]
  <2>2. /\ DOMAIN notes = DOMAIN active /\ notes = [n \in DOMAIN notes |-> notes[n]]
        /\ \A n \in DOMAIN active :
            /\ notes[n] \in Popups!Note /\ notes[n].version = active[n].version /\ notes[n].app = active[n].app
            /\ notes[n].visible = active[n].visible /\ notes[n].monitor = active[n].monitor
            /\ active[n].version \in Nat /\ active[n].visible \in BOOLEAN
    <3>1. Popups!ShapeInv
      BY DEF Popups!DecksIInv
    <3> QED
      BY ONLY <3>1, PopupsReleasedNotes
  <2> HIDE DEF notes, left
  <2>3. Popups!Notes(notes, lastId') /\ lastId' \in 0..PopupIds
    BY <2>1, <2>2, PopupsNotesKept DEF Popups!DecksIInv
  <2>4. PopupsHonest(notes, sharing, policies, left, {}, {})
    BY <1>1, <2>2, <2>3 DEF PopupsHonest
  <2>5. Popups!ObserverInv'
    BY <2>1, PopupsObserverStays DEF Popups!DecksIInv, Popups!publish_summary
  <2>6. Popups!publish_summary(notes, sharing, policies, dnd, left, {}, {}) /\ screens' = screens
    BY <2>1 DEF notes, left
  <2> QED
    BY <2>4, <2>5, <2>6, PopupsHandled
<1> QED
  BY <1>2, <1>3

\* The outputs and PipeWire's observer touch nothing the engine shows.
LEMMA PopupsOutsideKeeps ==
  ASSUME Popups!DecksIInv, Popups!ObserverInv', screens'.focus \in PopupMonitors \union {Popups!None},
         UNCHANGED <<active, policies, leases, sharing, cards, lastId, hushed>>
  PROVE  Popups!DecksIInv' /\ Popups!FrozenWhileRead
<1>1. Popups!ShapeInv'
  BY DEF Popups!DecksIInv, Popups!ShapeInv, Popups!Notes
<1>2. Popups!CardsInv' /\ Popups!HushedInv' /\ Popups!PlacesInv'
  BY DEF Popups!DecksIInv, Popups!CardsInv, Popups!HushedInv, Popups!PlacesInv, Popups!suppressed
<1>3. Popups!FrozenWhileRead
  BY DEF Popups!FrozenWhileRead
<1> QED
  BY <1>1, <1>2, <1>3 DEF Popups!DecksIInv

LEMMA PopupsOutputsKeep ==
  ASSUME Popups!DecksIInv, Popups!Hotplug
  PROVE  Popups!DecksIInv' /\ Popups!FrozenWhileRead
<1>1. Popups!ObserverInv'
  BY PopupsObserverStays DEF Popups!DecksIInv, Popups!Hotplug
<1>2. screens'.focus \in PopupMonitors \union {Popups!None}
  BY DEF Popups!Hotplug
<1> QED
  BY <1>1, <1>2, PopupsOutsideKeeps DEF Popups!Hotplug

LEMMA PopupsObserverMoves ==
  ASSUME Popups!DecksIInv, Popups!ShareChanges \/ Popups!ObserverLost \/ Popups!observe_pipewire \/ Popups!TakeObservation
  PROVE  Popups!DecksIInv' /\ Popups!FrozenWhileRead
<1>1. sharing.active \in BOOLEAN /\ sharing' = sharing
  BY DEF Popups!DecksIInv, Popups!ShapeInv, Popups!Sharing, Popups!ShareChanges, Popups!ObserverLost, Popups!observe_pipewire, Popups!TakeObservation
<1>6. observer \in Popups!Observer /\ ended \in Nat
  BY DEF Popups!DecksIInv, Popups!ObserverInv
<1>7. Popups!Owed <= ended
  BY DEF Popups!DecksIInv, Popups!ObserverInv
<1>2. CASE Popups!ShareChanges
  <2>3. observer' \in Popups!Observer
    BY <1>6, <1>2 DEF Popups!ShareChanges, Popups!Observer, Popups!Send, Popups!Seen
  <2>4. /\ observer'.shares = ~observer.shares /\ observer'.taken = observer.taken
        /\ ended' = IF observer.shares THEN ended + 1 ELSE ended
        /\ \/ observer'.fresh /\ observer'.channel = IF observer.shares THEN "no" ELSE "yes"
           \/ observer'.fresh = observer.fresh /\ observer'.channel = observer.channel
    BY <1>6, <1>2 DEF Popups!ShareChanges, Popups!Observer, Popups!Send, Popups!Seen
  <2>1. Popups!ObserverInv'
    <3>1. Popups!Owed' <= ended' /\ ended' \in Nat
      BY <1>1, <1>6, <1>7, <2>3, <2>4 DEF Popups!Owed, Popups!Observer, Popups!Applied, Popups!Heard, Popups!Told, Popups!Falls, Popups!None, Popups!Nothing
    <3> QED
      BY <2>3, <3>1 DEF Popups!ObserverInv
  <2>2. screens'.focus \in PopupMonitors \union {Popups!None}
    BY <1>2 DEF Popups!DecksIInv, Popups!ShapeInv, Popups!ShareChanges
  <2> QED
    BY <1>2, <2>1, <2>2, PopupsOutsideKeeps DEF Popups!ShareChanges
<1>3. CASE Popups!ObserverLost
  <2>3. observer' \in Popups!Observer
    BY <1>6, <1>3 DEF Popups!ObserverLost, Popups!Observer, Popups!Send, Popups!Seen
  <2>4. /\ observer'.shares = observer.shares /\ observer'.taken = observer.taken /\ ended' = ended
        /\ observer'.fresh /\ observer'.channel = Popups!None
    BY <1>6, <1>3 DEF Popups!ObserverLost, Popups!Observer, Popups!Send, Popups!Seen
  <2>1. Popups!ObserverInv'
    <3>1. Popups!Owed' <= ended' /\ ended' \in Nat
      BY <1>1, <1>6, <1>7, <2>3, <2>4 DEF Popups!Owed, Popups!Observer, Popups!Applied, Popups!Heard, Popups!Told, Popups!Falls, Popups!None, Popups!Nothing
    <3> QED
      BY <2>3, <3>1 DEF Popups!ObserverInv
  <2>2. screens'.focus \in PopupMonitors \union {Popups!None}
    BY <1>3 DEF Popups!DecksIInv, Popups!ShapeInv, Popups!ObserverLost
  <2> QED
    BY <1>3, <2>1, <2>2, PopupsOutsideKeeps DEF Popups!ObserverLost
<1>4. CASE Popups!observe_pipewire
  <2>3. observer' \in Popups!Observer
    BY <1>6, <1>4 DEF Popups!observe_pipewire, Popups!Observer, Popups!Send, Popups!Seen
  <2>4. /\ observer'.shares = observer.shares /\ observer'.taken = observer.taken /\ ended' = ended
        /\ observer'.fresh /\ observer'.channel = IF observer.shares THEN "yes" ELSE "no"
    BY <1>6, <1>4 DEF Popups!observe_pipewire, Popups!Observer, Popups!Send, Popups!Seen
  <2>1. Popups!ObserverInv'
    <3>1. Popups!Owed' <= ended' /\ ended' \in Nat
      BY <1>1, <1>6, <1>7, <2>3, <2>4 DEF Popups!Owed, Popups!Observer, Popups!Applied, Popups!Heard, Popups!Told, Popups!Falls, Popups!None, Popups!Nothing
    <3> QED
      BY <2>3, <3>1 DEF Popups!ObserverInv
  <2>2. screens'.focus \in PopupMonitors \union {Popups!None}
    BY <1>4 DEF Popups!DecksIInv, Popups!ShapeInv, Popups!observe_pipewire
  <2> QED
    BY <1>4, <2>1, <2>2, PopupsOutsideKeeps DEF Popups!observe_pipewire
<1>5. CASE Popups!TakeObservation
  <2>3. observer' \in Popups!Observer
    BY <1>6, <1>5 DEF Popups!TakeObservation, Popups!Observer, Popups!Send, Popups!Seen
  <2>4. /\ observer'.shares = observer.shares /\ observer'.taken = observer.channel /\ ended' = ended
        /\ ~observer'.fresh /\ observer.fresh /\ observer.taken = Popups!Nothing
    BY <1>6, <1>5 DEF Popups!TakeObservation, Popups!Observer, Popups!Send, Popups!Seen
  <2>1. Popups!ObserverInv'
    <3>1. Popups!Owed' <= ended' /\ ended' \in Nat
      BY <1>1, <1>6, <1>7, <2>3, <2>4 DEF Popups!Owed, Popups!Observer, Popups!Applied, Popups!Heard, Popups!Told, Popups!Falls, Popups!None, Popups!Nothing
    <3> QED
      BY <2>3, <3>1 DEF Popups!ObserverInv
  <2>2. screens'.focus \in PopupMonitors \union {Popups!None}
    BY <1>5 DEF Popups!DecksIInv, Popups!ShapeInv, Popups!TakeObservation
  <2> QED
    BY <1>5, <2>1, <2>2, PopupsOutsideKeeps DEF Popups!TakeObservation
<1> QED
  BY <1>2, <1>3, <1>4, <1>5

LEMMA PopupsObservationKeeps ==
  ASSUME Popups!DecksConstantsOK, Popups!DecksIInv, Popups!observe_sharing
  PROVE  Popups!DecksIInv' /\ Popups!FrozenWhileRead /\ Popups!EndsTruly
<1> DEFINE share == Popups!observe(sharing, observer.taken)
           all == IF Popups!suppressed(share) THEN DOMAIN active ELSE {}
           notes == Popups!Hush(active, all)
<1>1. /\ Popups!publish_summary(notes, share, policies, dnd, leases, {}, all)
      /\ ended' = IF sharing.active /\ ~share.active /\ ended > 0 THEN ended - 1 ELSE ended
      /\ observer' = [observer EXCEPT !.taken = Popups!Nothing]
      /\ screens' = screens /\ lastId' = lastId
  BY DEF Popups!observe_sharing
<1>2. sharing \in Popups!Sharing /\ policies \in [PopupApps -> Popups!Policy] /\ observer \in Popups!Observer /\ ended \in Nat /\ Popups!Owed <= ended
  BY DEF Popups!DecksIInv, Popups!ShapeInv, Popups!ObserverInv
<1>3. share \in Popups!Sharing /\ share.active = Popups!Applied
  BY <1>2 DEF Popups!observe, Popups!Sharing, Popups!Applied, Popups!Told
<1>4. /\ DOMAIN notes = DOMAIN active /\ notes = [n \in DOMAIN notes |-> notes[n]]
      /\ \A n \in DOMAIN active :
          /\ notes[n] \in Popups!Note /\ notes[n].version = active[n].version /\ notes[n].app = active[n].app
          /\ n \notin all => notes[n] = active[n]
          /\ n \in all => ~notes[n].visible
          /\ active[n].version \in Nat /\ active[n].visible \in BOOLEAN
  <2>1. Popups!ShapeInv
    BY DEF Popups!DecksIInv
  <2> HIDE DEF all
  <2> QED
    BY ONLY <2>1, PopupsHushed
<1>5. all \subseteq DOMAIN active
  OBVIOUS
<1> HIDE DEF notes, all, share
<1>6. Popups!Notes(notes, lastId') /\ lastId' \in 0..PopupIds
  BY <1>1, <1>4, PopupsNotesKept DEF Popups!DecksIInv
<1>7. PopupsHonest(notes, share, policies, leases, {}, all)
  BY <1>2, <1>3, <1>4, <1>5, <1>6 DEF PopupsHonest
<1>8. sharing' = share
  BY <1>1 DEF Popups!publish_summary
<1>9. Popups!ObserverInv'
  <2>1. observer' \in Popups!Observer
    BY <1>1, <1>2 DEF Popups!Observer
  <2>2. /\ observer'.shares = observer.shares /\ observer'.taken = Popups!Nothing
        /\ observer'.fresh = observer.fresh /\ observer'.channel = observer.channel
    BY <1>1, <1>2 DEF Popups!Observer
  <2>3. Popups!Applied' = share.active /\ Popups!Heard' = Popups!Heard
    BY <1>2, <1>3, <1>8, <2>2 DEF Popups!Applied, Popups!Heard, Popups!Told, Popups!Nothing, Popups!Sharing, Popups!Observer
  <2>4. Popups!Owed = Popups!Falls(sharing.active, share.active) + Popups!Falls(share.active, Popups!Heard) + Popups!Falls(Popups!Heard, observer.shares)
    BY <1>3 DEF Popups!Owed
  <2>5. Popups!Owed' = Popups!Falls(share.active, share.active) + Popups!Falls(share.active, Popups!Heard) + Popups!Falls(Popups!Heard, observer.shares)
    BY <1>8, <2>2, <2>3 DEF Popups!Owed
  <2>6. Popups!Owed' <= ended' /\ ended' \in Nat
    BY <1>1, <1>2, <2>4, <2>5 DEF Popups!Falls
  <2> QED
    BY <2>1, <2>6 DEF Popups!ObserverInv
<1>10. Popups!EndsTruly
  BY <1>2, <1>3, <1>8 DEF Popups!EndsTruly, Popups!Owed, Popups!Falls
<1>11. Popups!DecksIInv' /\ Popups!FrozenWhileRead
  BY <1>1, <1>7, <1>9, PopupsHandled
<1> QED
  BY <1>10, <1>11

\* A deadline that runs out changes no more than itself.
LEMMA PopupsPassesKeeps ==
  ASSUME Popups!DecksConstantsOK, Popups!DecksIInv, Popups!Passes
  PROVE  Popups!DecksIInv' /\ Popups!FrozenWhileRead
<1>1. UNCHANGED <<cards, screens, observer, lastId, hushed, ended>>
  BY DEF Popups!Passes
<1>2. /\ lastId \in 0..PopupIds /\ DOMAIN active \subseteq 1..lastId /\ active \in [DOMAIN active -> Popups!Note]
      /\ policies \in [PopupApps -> Popups!Policy] /\ sharing \in Popups!Sharing
  BY DEF Popups!DecksIInv, Popups!ShapeInv, Popups!Notes
<1>3. /\ active' \in [DOMAIN active -> Popups!Note] /\ DOMAIN active' = DOMAIN active
      /\ \A n \in DOMAIN active : /\ active'[n].version = active[n].version /\ active'[n].visible = active[n].visible
                                /\ active'[n].monitor = active[n].monitor /\ active'[n].app = active[n].app
  <2>1. CASE active' = active
    BY <1>2, <2>1
  <2>2. ASSUME NEW n \in DOMAIN active,
               \/ active' = [active EXCEPT ![n].snoozed = Popups!Due]
               \/ active' = [active EXCEPT ![n].toast = Popups!Due]
               \/ active' = [active EXCEPT ![n].expires = Popups!Due]
        PROVE  /\ active' \in [DOMAIN active -> Popups!Note] /\ DOMAIN active' = DOMAIN active
               /\ \A k \in DOMAIN active : /\ active'[k].version = active[k].version /\ active'[k].visible = active[k].visible
                                         /\ active'[k].monitor = active[k].monitor /\ active'[k].app = active[k].app
    <3>1. active[n] \in Popups!Note
      BY <1>2
    <3>2. \E new \in {[active[n] EXCEPT !.snoozed = Popups!Due], [active[n] EXCEPT !.toast = Popups!Due], [active[n] EXCEPT !.expires = Popups!Due]} :
             active' = [active EXCEPT ![n] = new]
      BY <2>2
    <3>3. PICK new \in {[active[n] EXCEPT !.snoozed = Popups!Due], [active[n] EXCEPT !.toast = Popups!Due], [active[n] EXCEPT !.expires = Popups!Due]} :
             active' = [active EXCEPT ![n] = new]
      BY <3>2
    <3>4. /\ new \in Popups!Note /\ new.version = active[n].version /\ new.visible = active[n].visible
          /\ new.monitor = active[n].monitor /\ new.app = active[n].app
      BY <3>1 DEF Popups!Note, Popups!Deadlines
    <3> QED
      BY <1>2, <3>3, <3>4
  <2> QED
    BY <2>1, <2>2 DEF Popups!Passes
<1>4. /\ policies' \in [PopupApps -> Popups!Policy]
      /\ \A a \in PopupApps : ~Popups!silenced(policies[a]) => ~Popups!silenced(policies'[a])
  <2>1. CASE policies' = policies
    BY <1>2, <2>1
  <2>2. CASE \E a \in PopupApps : policies' = [policies EXCEPT ![a].until = Popups!Due]
    <3>1. PICK a \in PopupApps : policies' = [policies EXCEPT ![a].until = Popups!Due]
      BY <2>2
    <3>2. [policies[a] EXCEPT !.until = Popups!Due] \in Popups!Policy /\ ~Popups!silenced([policies[a] EXCEPT !.until = Popups!Due])
      BY <1>2 DEF Popups!Policy, Popups!Deadlines, Popups!silenced
    <3> QED
      BY <1>2, <3>1, <3>2
  <2> QED
    BY <2>1, <2>2 DEF Popups!Passes
<1>5. sharing' \in Popups!Sharing /\ sharing'.active = sharing.active /\ (Popups!suppressed(sharing)' => Popups!suppressed(sharing))
  <2>1. sharing' = sharing \/ (sharing.until = Popups!Later /\ sharing' = [sharing EXCEPT !.until = Popups!Due])
    BY DEF Popups!Passes
  <2> QED
    BY <1>2, <2>1 DEF Popups!Sharing, Popups!Deadlines, Popups!suppressed
<1>6. Popups!ShapeInv'
  <2>1. Popups!Notes(active, lastId)'
    BY <1>1, <1>2, <1>3 DEF Popups!Notes
  <2> QED
    BY <1>1, <1>4, <1>5, <2>1 DEF Popups!DecksIInv, Popups!ShapeInv
<1>7. Popups!CardsInv'
  <2>1. \A c \in cards : active[c.id].app \in PopupApps
    BY <1>2 DEF Popups!DecksIInv, Popups!CardsInv, Popups!Note
  <2> QED
    BY <1>1, <1>3, <1>4, <1>5, <2>1 DEF Popups!DecksIInv, Popups!CardsInv
<1>8. Popups!HushedInv' /\ Popups!PlacesInv'
  BY <1>1, <1>3 DEF Popups!DecksIInv, Popups!HushedInv, Popups!PlacesInv
<1>9. Popups!ObserverInv'
  BY <1>1, <1>5, PopupsObserverStays DEF Popups!DecksIInv
<1>10. Popups!FrozenWhileRead
  BY <1>1 DEF Popups!FrozenWhileRead
<1> QED
  BY <1>6, <1>7, <1>8, <1>9, <1>10 DEF Popups!DecksIInv

\* The expiry task takes no popup from under the pointer: what ran out while it was
\* read is held, and what was released gets new time (Decks::set_reading).
LEMMA PopupsExpiryKeeps ==
  ASSUME Popups!DecksConstantsOK, Popups!DecksIInv, Popups!expire_due
  PROVE  Popups!DecksIInv' /\ Popups!FrozenWhileRead
<1> DEFINE over == {m \in DOMAIN leases : leases[m] = Popups!Due}
           reading == [m \in DOMAIN leases \ over |-> leases[m]]
           released(due) == Popups!Released(active, over, due)
           gone(due) == {n \in DOMAIN released(due) : released(due)[n].snoozed # Popups!Later /\ released(due)[n].expires = Popups!Due}
           left(due) == [n \in DOMAIN released(due) \ gone(due) |-> Popups!advance(released(due)[n], reading)]
           share == [sharing EXCEPT !.until = Popups!NotDue(@)]
           rules == [a \in PopupApps |-> IF policies[a].silent /\ policies[a].until = Popups!Due
                                    THEN [policies[a] EXCEPT !.silent = FALSE, !.until = Popups!None]
                                    ELSE policies[a]]
           quiet == IF dnd.until = Popups!Due THEN [on |-> FALSE, until |-> Popups!None] ELSE dnd
<1>1. PICK due : Popups!publish_summary(left(due), share, rules, quiet, reading, {}, {})
  BY DEF Popups!expire_due
<1>2. screens' = screens /\ observer' = observer /\ lastId' = lastId /\ ended' = ended
  BY DEF Popups!expire_due
<1>3. policies \in [PopupApps -> Popups!Policy] /\ sharing \in Popups!Sharing /\ \A n \in DOMAIN active : active[n] \in Popups!Note
  BY PopupsNotesAre DEF Popups!DecksIInv
<1>4. share \in Popups!Sharing /\ share.active = sharing.active
  BY <1>3 DEF Popups!Sharing, Popups!Deadlines, Popups!NotDue
<1>5. rules \in [PopupApps -> Popups!Policy] /\ \A a \in PopupApps : ~Popups!silenced(policies[a]) => ~Popups!silenced(rules[a])
  BY <1>3 DEF Popups!Policy, Popups!Deadlines, Popups!silenced
<1> DEFINE before == released(due) notes == left(due)
<1>6. /\ DOMAIN before = DOMAIN active
      /\ \A n \in DOMAIN active :
          /\ before[n] \in Popups!Note /\ before[n].version = active[n].version /\ before[n].app = active[n].app
          /\ before[n].visible = active[n].visible /\ before[n].monitor = active[n].monitor
          /\ active[n].version \in Nat /\ active[n].visible \in BOOLEAN
  <2>1. Popups!ShapeInv
    BY DEF Popups!DecksIInv
  <2> HIDE DEF over
  <2> QED
    BY ONLY <2>1, PopupsReleasedNotes
<1>7. /\ DOMAIN notes \subseteq DOMAIN before /\ notes = [n \in DOMAIN notes |-> notes[n]]
      /\ \A n \in DOMAIN notes : notes[n] = Popups!advance(before[n], reading)
  OBVIOUS
<1>8. Popups!publish_summary(notes, share, rules, quiet, reading, {}, {})
  BY <1>1
<1> HIDE DEF before, notes, released, left, gone, share, rules, quiet, reading
<1>9. ASSUME NEW n \in DOMAIN notes
      PROVE  /\ notes[n] \in Popups!Note /\ notes[n].version = active[n].version /\ notes[n].app = active[n].app
             /\ active[n].visible \/ ~notes[n].visible
             /\ active[n].visible /\ active[n].monitor \in DOMAIN reading => notes[n].visible
             /\ n \in DOMAIN active /\ active[n].version \in Nat /\ active[n].app \in PopupApps
  <2> DEFINE old == before[n] new == notes[n]
  <2>1. /\ old \in Popups!Note /\ new = Popups!advance(old, reading)
        /\ old.version = active[n].version /\ old.app = active[n].app
        /\ old.visible = active[n].visible /\ old.monitor = active[n].monitor
        /\ n \in DOMAIN active /\ active[n].version \in Nat /\ active[n].visible \in BOOLEAN
    BY <1>6, <1>7
  <2> HIDE DEF old, new
  <2>2. /\ new \in Popups!Note /\ new.version = old.version /\ new.app = old.app
        /\ old.visible \/ ~new.visible
        /\ old.visible /\ old.monitor \in DOMAIN reading => new.visible
    BY <2>1 DEF Popups!advance, Popups!Held, Popups!Note, Popups!Deadlines
  <2>3. active[n].app \in PopupApps
    BY <2>1 DEF Popups!Note
  <2> QED
    BY <2>1, <2>2, <2>3 DEF new
<1>10. Popups!Notes(notes, lastId') /\ lastId' \in 0..PopupIds
  <2>1. DOMAIN notes \subseteq DOMAIN active
    BY <1>6, <1>7
  <2> QED
    BY <1>2, <1>7, <1>9, <2>1, PopupsNotesKept DEF Popups!DecksIInv
<1>11. PopupsHonest(notes, share, rules, reading, {}, {})
  <2>1. ASSUME NEW n \in DOMAIN notes \intersect DOMAIN active
        PROVE  /\ active[n].version <= notes[n].version
               /\ n \in {} \/ active[n].visible \/ ~notes[n].visible
               /\ n \in {}
                  \/ (active[n].visible /\ active[n].monitor \in DOMAIN reading
                      /\ ~Popups!silenced(policies[active[n].app]) /\ ~Popups!suppressed(share)
                      => notes[n].visible /\ ~Popups!silenced(rules[notes[n].app]))
    BY <1>5, <1>9
  <2> QED
    BY <1>4, <1>5, <1>10, <2>1 DEF PopupsHonest
<1>12. Popups!ObserverInv'
  BY <1>2, <1>4, <1>8, PopupsObserverStays DEF Popups!DecksIInv, Popups!publish_summary
<1> QED
  BY <1>2, <1>8, <1>11, <1>12, PopupsHandled

\* Whatever the daemon does, its invariant stays, what is read is not disturbed,
\* and only a share that ended is taken for over.
LEMMA PopupsNextKeeps ==
  ASSUME Popups!DecksConstantsOK, Popups!DecksIInv, [Popups!DecksNext]_(Popups!deckVars)
  PROVE  Popups!DecksIInv' /\ Popups!FrozenWhileRead /\ Popups!EndsTruly
<1>1. CASE UNCHANGED Popups!deckVars
  <2>1. Popups!DecksIInv'
    BY <1>1 DEF Popups!deckVars, Popups!DecksIInv, Popups!ShapeInv, Popups!Notes, Popups!CardsInv, Popups!suppressed, Popups!HushedInv, Popups!PlacesInv,
                Popups!ObserverInv, Popups!Owed, Popups!Applied, Popups!Heard, Popups!Told
  <2> QED
    BY <1>1, <2>1 DEF Popups!deckVars, Popups!FrozenWhileRead, Popups!EndsTruly
<1>2. ASSUME sharing'.active = sharing.active PROVE Popups!EndsTruly
  BY <1>2 DEF Popups!EndsTruly
<1>3. CASE Popups!Asks
  <2>1. ASSUME NEW id \in 1..PopupIds, NEW app \in PopupApps, NEW timeout \in Popups!Timeouts, Popups!notify(id, app, timeout)
        PROVE  Popups!DecksIInv' /\ Popups!FrozenWhileRead /\ Popups!EndsTruly
    BY <2>1, <1>2, PopupsNotifyKeeps DEF Popups!notify, Popups!publish_summary
  <2>2. ASSUME NEW ids \in SUBSET (1..PopupIds), Popups!dismiss(ids)
        PROVE  Popups!DecksIInv' /\ Popups!FrozenWhileRead /\ Popups!EndsTruly
    BY <2>2, <1>2, PopupsDismissKeeps DEF Popups!dismiss, Popups!publish_summary
  <2>3. ASSUME NEW id \in 1..PopupIds, Popups!snooze(id)
        PROVE  Popups!DecksIInv' /\ Popups!FrozenWhileRead /\ Popups!EndsTruly
    BY <2>3, <1>2, PopupsSnoozeKeeps DEF Popups!snooze, Popups!publish_summary
  <2>4. ASSUME NEW on, NEW until, Popups!set_dnd(on, until)
        PROVE  Popups!DecksIInv' /\ Popups!FrozenWhileRead /\ Popups!EndsTruly
    BY <2>4, <1>2, PopupsDndKeeps DEF Popups!set_dnd, Popups!publish_summary
  <2>5. ASSUME NEW app \in PopupApps, NEW silent \in BOOLEAN, NEW bypass \in BOOLEAN, NEW until \in {Popups!None, Popups!Later},
               Popups!set_app_policy(app, [silent |-> silent, until |-> until, bypass |-> bypass])
        PROVE  Popups!DecksIInv' /\ Popups!FrozenWhileRead /\ Popups!EndsTruly
    <3>1. [silent |-> silent, until |-> until, bypass |-> bypass] \in Popups!Policy
      BY DEF Popups!Policy, Popups!Deadlines
    <3> DEFINE policy == [silent |-> silent, until |-> until, bypass |-> bypass]
    <3> HIDE DEF policy
    <3>2. policy \in Popups!Policy /\ Popups!set_app_policy(app, policy)
      BY <3>1, <2>5 DEF policy
    <3> QED
      BY <3>2, <1>2, PopupsPolicyKeeps DEF Popups!set_app_policy, Popups!publish_summary
  <2>6. ASSUME NEW m, NEW reading \in BOOLEAN, Popups!set_reading(m, reading)
        PROVE  Popups!DecksIInv' /\ Popups!FrozenWhileRead /\ Popups!EndsTruly
    <3>1. sharing' = sharing
      BY <2>6 DEF Popups!set_reading, Popups!publish_summary
    <3> QED
      BY <2>6, <3>1, <1>2, PopupsReadingKeeps
  <2>7. ASSUME NEW minutes \in BOOLEAN, Popups!snooze_sharing(minutes)
        PROVE  Popups!DecksIInv' /\ Popups!FrozenWhileRead /\ Popups!EndsTruly
    <3>1. sharing'.active = sharing.active
      BY <2>7 DEF Popups!snooze_sharing, Popups!publish_summary, Popups!snoozed, Popups!DecksIInv, Popups!ShapeInv, Popups!Sharing
    <3> QED
      BY <2>7, <3>1, <1>2, PopupsSharingSnoozeKeeps
  <2> QED
    BY <1>3, <2>1, <2>2, <2>3, <2>4, <2>5, <2>6, <2>7 DEF Popups!Asks
<1>4. CASE Popups!Hotplug
  BY <1>4, <1>2, PopupsOutputsKeep DEF Popups!Hotplug
<1>5. CASE Popups!run_routes
  BY <1>5, <1>2, PopupsRoutesKeep DEF Popups!run_routes, Popups!publish_summary
<1>6. CASE Popups!ShareChanges \/ Popups!ObserverLost \/ Popups!observe_pipewire \/ Popups!TakeObservation
  BY <1>6, <1>2, PopupsObserverMoves DEF Popups!ShareChanges, Popups!ObserverLost, Popups!observe_pipewire, Popups!TakeObservation
<1>7. CASE Popups!observe_sharing
  BY <1>7, PopupsObservationKeeps
<1>8. CASE Popups!Passes
  <2>1. sharing'.active = sharing.active
    BY <1>8 DEF Popups!Passes, Popups!DecksIInv, Popups!ShapeInv, Popups!Sharing
  <2> QED
    BY <1>8, <2>1, <1>2, PopupsPassesKeeps
<1>9. CASE Popups!expire_due
  <2>1. sharing'.active = sharing.active
    BY <1>9 DEF Popups!expire_due, Popups!publish_summary, Popups!DecksIInv, Popups!ShapeInv, Popups!Sharing
  <2> QED
    BY <1>9, <2>1, <1>2, PopupsExpiryKeeps
<1> QED
  BY <1>1, <1>3, <1>4, <1>5, <1>6, <1>7, <1>8, <1>9 DEF Popups!DecksNext

LEMMA PopupsSafeFollows == ASSUME Popups!DecksIInv PROVE Popups!DecksTypeOK /\ Popups!DecksSafe
<1>1. \A n \in DOMAIN active : active[n] \in Popups!Note
  BY PopupsNotesAre DEF Popups!DecksIInv
<1>2. Popups!DecksTypeOK
  BY <1>1 DEF Popups!DecksIInv, Popups!ShapeInv, Popups!CardsInv, Popups!DecksTypeOK, Popups!Note, Popups!Deadlines
<1>3. Popups!NothingLeaks
  BY DEF Popups!DecksIInv, Popups!CardsInv, Popups!HushedInv, Popups!NothingLeaks
<1>4. Popups!DecksBounded
  BY DEF Popups!DecksIInv, Popups!PlacesInv, Popups!DecksBounded
<1> QED
  BY <1>2, <1>3, <1>4 DEF Popups!DecksSafe

\* No popup comes up while a share or its application's silence suppresses it, none
\* that was hidden for good comes back, and no output shows more decks than it has

HIDE DEF active, dnd, policies, leases, sharing, cards, screens, observer, lastId, hushed, ended, envd

-----------------------------------------------------------------------------
(* Display policy and layouts (DisplayPolicy).                                *)

\* The variables of DisplayPolicy.
outs == r1
xid == r2
sleep == r3
prefer == r4
doc == r5
rt == r6
planner == r7
docking == r8
job == r9
expired == r10
disturbed == r11
tampered == r12
asks == r13
displaySpent == r14
USE DEF outs, xid, sleep, prefer, doc, rt, planner, docking, job, expired, disturbed, tampered, asks, displaySpent

LEMMA DisplayLayoutsAre ==
  /\ Display!NoLayout \in Display!LayoutSet
  /\ \A l \in Display!LayoutSet : l \in [DOMAIN l -> Display!Settings] /\ DOMAIN l \subseteq Display!Names
  /\ \A d \in SUBSET Display!Names : [d -> Display!Settings] \subseteq Display!LayoutSet
<1>1. ASSUME NEW l \in Display!LayoutSet PROVE l \in [DOMAIN l -> Display!Settings] /\ DOMAIN l \subseteq Display!Names
  <2>1. PICK d \in SUBSET Display!Names : l \in [d -> Display!Settings]
    BY DEF Display!LayoutSet
  <2> QED
    BY <2>1
<1>2. Display!NoLayout \in [{} -> Display!Settings]
  BY DEF Display!NoLayout
<1>3. \A d \in SUBSET Display!Names : [d -> Display!Settings] \subseteq Display!LayoutSet
  BY DEF Display!LayoutSet
<1> QED
  BY <1>1, <1>2, <1>3

LEMMA DisplayPlaces2 ==
  /\ \A n \in Display!Names : Display!Own(n) \in Display!Places /\ Display!Other(n) \in Display!Names /\ Display!Other(n) # n /\ Display!Other(Display!Other(n)) = n
  /\ Display!Places \subseteq Display!Settings /\ \A o : Display!usable(o) <=> o \in Display!Places
  /\ "gone" \notin Display!Settings /\ "off" \notin Display!Places /\ "mirror" \notin Display!Places /\ "gone" \notin Display!Places
  /\ {"off", "mirror"} \subseteq Display!Settings
BY DEF Display!Names, Display!Own, Display!Other, Display!Places, Display!Settings, Display!usable

LEMMA DisplayOutsAre ==
  ASSUME Display!ShapeInv
  PROVE  /\ \A n \in Display!Present : n \in Display!Names /\ outs[n] \in Display!Settings
         /\ "laptop" \in Display!Present /\ outs["laptop"] \in Display!Settings
         /\ outs["external"] \in Display!Settings \union {"gone"}
         /\ "external" \in Display!Present <=> outs["external"] # "gone"
         /\ \A n \in Display!Names : outs[n] \in Display!Settings \union {"gone"} /\ (n \notin Display!Present <=> outs[n] = "gone")
BY DisplayPlaces2 DEF Display!ShapeInv, Display!Present, Display!Names

LEMMA DisplayConnectedIs ==
  ASSUME NEW l \in Display!LayoutSet PROVE Display!connected(l) \in Display!LayoutSet /\ DOMAIN Display!connected(l) \subseteq DOMAIN l
<1>1. l \in [DOMAIN l -> Display!Settings] /\ DOMAIN l \subseteq Display!Names
  BY DisplayLayoutsAre
<1>2. Display!connected(l) \in [DOMAIN l \intersect Display!Present -> Display!Settings]
  BY <1>1, DisplayPlaces2 DEF Display!connected
<1>3. DOMAIN l \intersect Display!Present \in SUBSET Display!Names
  BY <1>1
<1> QED
  BY <1>2, <1>3, DisplayLayoutsAre

LEMMA DisplayRestorationIs ==
  ASSUME Display!ShapeInv PROVE Display!restoration \in Display!LayoutSet
<1> DEFINE l == Display!connected(doc.saved)
           panel == IF outs["laptop"] = "off" THEN "off"
                    ELSE IF l["laptop"] = "off" THEN Display!Own("laptop") ELSE l["laptop"]
           mine == [n \in DOMAIN l |-> IF n = "laptop" THEN panel
                                       ELSE IF l[n] = "mirror" /\ panel = "off" THEN Display!Own(n) ELSE l[n]]
<1>1. doc.saved \in Display!LayoutSet
  BY DEF Display!ShapeInv
<1>2. l \in Display!LayoutSet
  BY <1>1, DisplayConnectedIs
<1> HIDE DEF l
<1>3. l \in [DOMAIN l -> Display!Settings] /\ DOMAIN l \subseteq Display!Names
  BY <1>2, DisplayLayoutsAre
<1>4. CASE doc.manual \/ "laptop" \notin DOMAIN l
  BY <1>2, <1>4 DEF Display!restoration, l
<1>5. CASE ~(doc.manual \/ "laptop" \notin DOMAIN l)
  <2>1. panel \in Display!Settings
    BY <1>3, <1>5, DisplayPlaces2 DEF Display!Names
  <2> HIDE DEF panel
  <2>2. mine \in [DOMAIN l -> Display!Settings]
    BY <1>3, <2>1, DisplayPlaces2
  <2> HIDE DEF mine
  <2>3. mine \in Display!LayoutSet
    BY <1>3, <2>2, DisplayLayoutsAre
  <2>4. Display!restoration = mine
    BY <1>5 DEF Display!restoration, mine, l, panel
  <2> QED
    BY <2>3, <2>4
<1> QED
  BY <1>4, <1>5

DisplayPairs == Seq(Display!Names \X Display!Settings)

LEMMA DisplayOrderedIs ==
  ASSUME NEW l \in Display!LayoutSet PROVE Display!ordered(l) \in DisplayPairs
<1> DEFINE pair == [n \in DOMAIN l |-> <<n, l[n]>>]
<1>1. l \in [DOMAIN l -> Display!Settings] /\ DOMAIN l \subseteq Display!Names
  BY DisplayLayoutsAre
<1>2. \A n \in DOMAIN l : pair[n] \in Display!Names \X Display!Settings
  BY <1>1
<1> HIDE DEF pair
<1>3. CASE DOMAIN l = Display!Names
  <2>1. "laptop" \in DOMAIN l /\ "external" \in DOMAIN l
    BY <1>3 DEF Display!Names
  <2>2. <<pair["laptop"], pair["external"]>> \in DisplayPairs /\ <<pair["external"], pair["laptop"]>> \in DisplayPairs
    BY <1>2, <2>1 DEF DisplayPairs
  <2> QED
    BY <1>3, <2>2 DEF Display!ordered, pair
<1>4. CASE DOMAIN l # Display!Names /\ l = Display!NoLayout
  BY <1>4 DEF Display!ordered, DisplayPairs
<1>5. CASE DOMAIN l # Display!Names /\ l # Display!NoLayout
  <2>1. DOMAIN l # {}
    BY <1>1, <1>5 DEF Display!NoLayout
  <2>2. (CHOOSE m \in DOMAIN l : TRUE) \in DOMAIN l
    BY <2>1
  <2>3. <<pair[CHOOSE m \in DOMAIN l : TRUE]>> \in DisplayPairs
    BY <1>2, <2>2 DEF DisplayPairs
  <2> QED
    BY <1>5, <2>3 DEF Display!ordered, pair
<1> QED
  BY <1>3, <1>4, <1>5

LEMMA DisplayDetachIs ==
  ASSUME Display!ShapeInv, NEW l \in Display!LayoutSet PROVE Display!detach(l) \in DisplayPairs
<1> DEFINE changing == {n \in DOMAIN l : outs[n] = "mirror" /\ l[n] # "mirror"}
           n == CHOOSE m \in changing : TRUE
           s == IF Display!usable(outs[Display!Other(n)]) THEN outs[Display!Other(n)] ELSE Display!Own(n)
<1>1. DOMAIN l \subseteq Display!Names
  BY DisplayLayoutsAre
<1>2. CASE changing = {}
  BY <1>2 DEF Display!detach, DisplayPairs
<1>3. CASE changing # {}
  <2>1. n \in Display!Names
    BY <1>1, <1>3
  <2> HIDE DEF n
  <2>2. s \in Display!Settings
    BY <2>1, DisplayPlaces2
  <2> HIDE DEF s
  <2>3. <<<<n, s>>>> \in DisplayPairs
    BY <2>1, <2>2 DEF DisplayPairs
  <2> QED
    BY <1>3, <2>3 DEF Display!detach, n, s
<1> QED
  BY <1>2, <1>3

-----------------------------------------------------------------------------
(* The steps. *)

LEMMA DisplayNoJobIs ==
  ASSUME Display!DisplayConstantsOK
  PROVE  Display!NoJob \in Display!Jobs /\ \A ok, paused \in BOOLEAN : Display!ToReconcile(ok, paused) \in Display!Jobs
<1>1. 0 \in Display!Numbers /\ 0 \in Nat
  BY DEF Display!Numbers, Display!DisplayConstantsOK
<1>2. <<>> \in Seq(Display!Names \X Display!Settings)
  OBVIOUS
<1>3. Display!NoJob \in Display!Jobs
  BY <1>1, <1>2, DisplayLayoutsAre DEF Display!NoJob, Display!Jobs
<1>4. ASSUME NEW ok \in BOOLEAN, NEW paused \in BOOLEAN PROVE Display!ToReconcile(ok, paused) \in Display!Jobs
  BY <1>3 DEF Display!ToReconcile, Display!Jobs
<1> QED
  BY <1>3, <1>4

LEMMA DisplayInitHolds == ASSUME Display!DisplayConstantsOK, Display!DisplayInit PROVE Display!DisplayIInv
<1>1. outs \in [laptop : Display!Settings, external : Display!Settings \union {"gone"}] /\ outs["laptop"] = "left"
      /\ outs["external"] \in {"right", "gone"}
  BY DEF Display!DisplayInit, Display!Settings, Display!Places
<1>2. doc \in [manual : BOOLEAN, saved : Display!LayoutSet,
               trial : [id : 0..DisplayAsks, proposed : Display!LayoutSet, previous : Display!LayoutSet]]
      /\ doc.trial = Display!NoTrial
  BY DisplayLayoutsAre DEF Display!DisplayInit, Display!NoTrial, Display!DisplayConstantsOK
<1>3. Display!ShapeInv
  <2>1. 0 \in Display!Numbers /\ 0 \in 0..DisplayEnv /\ 1 \in 1..(0 + 1) /\ 0 \in 0..DisplayAsks
    BY DEF Display!Numbers, Display!DisplayConstantsOK
  <2>2. job \in Display!Jobs
    BY DisplayNoJobIs DEF Display!DisplayInit
  <2>3. /\ rt \in [trial : 0..DisplayAsks, topology : Int, due : BOOLEAN, applied : BOOLEAN,
                   error : BOOLEAN, resume : Nat]
        /\ planner \in [candidate : Display!Numbers, ripe : BOOLEAN, resume : Nat]
        /\ docking \in [state : {"settled", "applying", "failed"}, started : {"no", "running", "over"}]
    BY <2>1 DEF Display!DisplayInit, Display!FreshRt, Display!NewPlanner, Display!Settled
  <2> QED
    BY <1>1, <1>2, <2>1, <2>2, <2>3 DEF Display!DisplayInit, Display!ShapeInv
<1>4. Display!WriterInv /\ Display!TrialInv /\ Display!RollbackDurable
  BY <1>2 DEF Display!DisplayInit, Display!WriterInv, Display!TrialInv, Display!RollbackDurable, Display!NoJob
<1>5. Display!MirrorsHaveSource
  BY <1>1, DisplayPlaces2 DEF Display!MirrorsHaveSource, Display!Names
<1> QED
  BY <1>3, <1>4, <1>5 DEF Display!DisplayIInv

\* What follows for the action properties when the outputs stay, or when no
\* confirmation is under way.
LEMMA DisplayOutputsStay == ASSUME outs' = outs PROVE Display!KeepsFallback
BY DEF Display!KeepsFallback, Display!Lit
LEMMA DisplayNotConfirmed == ASSUME job'.at # "save" \/ job.at # "confirm" PROVE Display!ConfirmedUndisturbed
BY DEF Display!ConfirmedUndisturbed

\* A command that is not about to be sent asks for nothing.
DisplayCalm(j) == j.at \notin {"configure", "target", "switch"}
LEMMA DisplayCalmIsFine ==
  ASSUME DisplayCalm(job'), job'.who = "preview" => doc.trial' # Display!NoTrial PROVE Display!WriterInv'
BY DEF DisplayCalm, Display!WriterInv

\* The trial's part of the invariant while nothing that disturbs a trial happens.
LEMMA DisplayTrialStays ==
  ASSUME Display!ShapeInv, Display!TrialInv, doc'.trial = doc.trial, asks' \in Nat, asks <= asks',
         rt'.trial \in {0, rt.trial}, rt'.resume = rt.resume, rt'.topology = rt.topology,
         sleep' = sleep, (expired => expired'), (disturbed' => disturbed \/ expired' \/ sleep'.preparing), xid' = xid,
         Display!Present' = Display!Present
  PROVE  Display!TrialInv'
<1>1. asks \in Nat /\ doc.trial.id \in Nat
  BY DEF Display!ShapeInv
<1>2. doc.trial # Display!NoTrial => doc.trial.id \in 1..asks'
  BY <1>1 DEF Display!TrialInv
<1>3. doc.trial # Display!NoTrial /\ rt'.trial = doc.trial.id => rt.trial = doc.trial.id
  BY <1>2
<1> QED
  BY <1>2, <1>3 DEF Display!TrialInv

\* A number that is in use stays one as the budget grows.
LEMMA DisplayLater ==
  ASSUME NEW a \in Nat, NEW b \in Nat, a <= b, NEW x \in 1..(a + 1) PROVE x \in 1..(b + 1)
OBVIOUS

\* A step that changes only what holds the lock and the docking state.
LEMMA DisplayJobChanges ==
  ASSUME Display!DisplayIInv, job' \in Display!Jobs, Display!WriterInv', displaySpent' \in 0..DisplayEnv, displaySpent <= displaySpent',
         planner' \in [candidate : Display!Numbers, ripe : BOOLEAN, resume : Nat],
         docking' \in [state : {"settled", "applying", "failed"}, started : {"no", "running", "over"}],
         UNCHANGED <<outs, xid, sleep, prefer, doc, rt, expired, disturbed, tampered, asks>>
  PROVE  Display!DisplayIInv' /\ Display!KeepsFallback
<1>1. Display!ShapeInv'
  <2>1. displaySpent \in Nat /\ displaySpent' \in Nat /\ xid \in 1..(displaySpent + 1) /\ xid' = xid
    BY DEF Display!DisplayIInv, Display!ShapeInv
  <2>2. xid' \in 1..(displaySpent' + 1)
    BY <2>1, DisplayLater
  <2> QED
    BY <2>2 DEF Display!DisplayIInv, Display!ShapeInv
<1>2. Display!TrialInv'
  BY DEF Display!DisplayIInv, Display!TrialInv, Display!Present
<1>3. Display!RollbackDurable' /\ Display!MirrorsHaveSource'
  BY DEF Display!DisplayIInv, Display!RollbackDurable, Display!MirrorsHaveSource
<1> QED
  BY <1>1, <1>2, <1>3, DisplayOutputsStay DEF Display!DisplayIInv

LEMMA DisplayBudgetStays ==
  ASSUME Display!DisplayConstantsOK, Display!ShapeInv, NEW b \in BOOLEAN, Display!Fault(b) \/ Display!Tick \/ displaySpent' = displaySpent
  PROVE  displaySpent' \in 0..DisplayEnv /\ displaySpent <= displaySpent'
BY DEF Display!DisplayConstantsOK, Display!ShapeInv, Display!Fault, Display!Tick

LEMMA DisplayApplyKeeps ==
  ASSUME Display!DisplayConstantsOK, Display!DisplayIInv, Display!apply
  PROVE  Display!DisplayIInv' /\ Display!KeepsFallback /\ Display!ConfirmedUndisturbed
<1>1. Display!ShapeInv /\ job \in Display!Jobs /\ job.layout \in Display!LayoutSet /\ sleep.gen \in Nat
  BY DEF Display!DisplayIInv, Display!ShapeInv, Display!Jobs
<1>2. Display!detach(job.layout) \o Display!ordered(job.layout) \in Seq(Display!Names \X Display!Settings)
  <2>1. Display!detach(job.layout) \in DisplayPairs /\ Display!ordered(job.layout) \in DisplayPairs
    BY <1>1, DisplayDetachIs, DisplayOrderedIs
  <2> QED
    BY <2>1, ConcatProperties DEF DisplayPairs
<1>3. job' \in Display!Jobs /\ job'.at = "check" /\ job'.who = job.who
  BY <1>1, <1>2 DEF Display!apply, Display!Jobs
<1>4. Display!WriterInv'
  BY <1>3, DisplayCalmIsFine DEF DisplayCalm, Display!apply, Display!DisplayIInv, Display!WriterInv
<1>5. displaySpent' \in 0..DisplayEnv /\ displaySpent <= displaySpent'
  BY <1>1, DisplayBudgetStays DEF Display!apply
<1>6. /\ planner' \in [candidate : Display!Numbers, ripe : BOOLEAN, resume : Nat]
      /\ docking' \in [state : {"settled", "applying", "failed"}, started : {"no", "running", "over"}]
  BY <1>1 DEF Display!apply, Display!ShapeInv
<1>7. Display!DisplayIInv' /\ Display!KeepsFallback
  BY <1>3, <1>4, <1>5, <1>6, DisplayJobChanges DEF Display!apply
<1> QED
  BY <1>3, <1>7, DisplayNotConfirmed

LEMMA DisplayHeadIs ==
  ASSUME Display!ShapeInv, job.todo # <<>>
  PROVE  job.todo[1][1] \in Display!Names /\ job.todo[1][2] \in Display!Settings /\ Tail(job.todo) \in Seq(Display!Names \X Display!Settings)
<1>1. job.todo \in Seq(Display!Names \X Display!Settings)
  BY DEF Display!ShapeInv, Display!Jobs
<1>2. job.todo[1] \in Display!Names \X Display!Settings
  BY <1>1
<1> QED
  BY <1>1, <1>2

LEMMA DisplayApplySettingKeeps ==
  ASSUME Display!DisplayConstantsOK, Display!DisplayIInv, Display!apply_setting
  PROVE  Display!DisplayIInv' /\ Display!KeepsFallback /\ Display!ConfirmedUndisturbed
<1>1. Display!ShapeInv /\ job \in Display!Jobs
  BY DEF Display!DisplayIInv, Display!ShapeInv
<1>2. displaySpent' \in 0..DisplayEnv /\ displaySpent <= displaySpent'
  BY <1>1, DisplayBudgetStays DEF Display!apply_setting
<1>3. /\ planner' \in [candidate : Display!Numbers, ripe : BOOLEAN, resume : Nat]
      /\ docking' \in [state : {"settled", "applying", "failed"}, started : {"no", "running", "over"}]
  BY <1>1 DEF Display!apply_setting, Display!ShapeInv
<1>4. /\ job.at = "check"
      /\ \/ job' = [job EXCEPT !.at = "applied"]
         \/ job' = [job EXCEPT !.at = "failed"]
         \/ job.todo # <<>> /\ job' = [job EXCEPT !.todo = Tail(@)]
         \/ /\ job.todo # <<>> /\ ~Display!Refused(job.todo[1][1], job.todo[1][2])
            /\ job' = [job EXCEPT !.at = "configure", !.raced = FALSE]
  BY DEF Display!apply_setting
<1>5. job' \in Display!Jobs /\ job'.at # "save" /\ job'.who = job.who
  BY <1>1, <1>4, DisplayHeadIs DEF Display!Jobs
<1>6. Display!WriterInv'
  <2>1. CASE DisplayCalm(job')
    BY <1>5, <2>1, DisplayCalmIsFine DEF Display!apply_setting, Display!DisplayIInv, Display!WriterInv
  <2>2. CASE job.todo # <<>> /\ ~Display!Refused(job.todo[1][1], job.todo[1][2])
             /\ job' = [job EXCEPT !.at = "configure", !.raced = FALSE]
    <3>1. job'.at = "configure" /\ job'.todo = job.todo /\ job'.who = job.who
      BY <1>1, <2>2 DEF Display!Jobs
    <3>2. Display!Checked(job.todo[1][1], job.todo[1][2])'
      BY <2>2, <3>1 DEF Display!Refused, Display!Checked, Display!apply_setting, Display!HasMirror
    <3> QED
      BY <2>2, <3>1, <3>2 DEF Display!WriterInv, Display!DisplayIInv, Display!apply_setting
  <2> QED
    BY <1>1, <1>4, <2>1, <2>2 DEF DisplayCalm, Display!Jobs
<1>7. Display!DisplayIInv' /\ Display!KeepsFallback
  BY <1>2, <1>3, <1>5, <1>6, DisplayJobChanges DEF Display!apply_setting
<1> QED
  BY <1>5, <1>7, DisplayNotConfirmed

\* A setting that passed its check leaves each mirror its source and, unless a
\* hotplug came between, an output that is lit (configure).
LEMMA DisplayConfigureKeeps ==
  ASSUME Display!DisplayConstantsOK, Display!DisplayIInv, Display!configure
  PROVE  Display!DisplayIInv' /\ Display!KeepsFallback /\ Display!ConfirmedUndisturbed
<1>1. Display!ShapeInv /\ job \in Display!Jobs /\ job.at = "configure"
  BY DEF Display!DisplayIInv, Display!ShapeInv, Display!configure
<1>2. displaySpent' \in 0..DisplayEnv /\ displaySpent <= displaySpent'
  <2>1. \E b \in BOOLEAN : Display!Fault(b)
    BY DEF Display!configure
  <2> QED
    BY <1>1, <2>1, DisplayBudgetStays
<1> DEFINE n == job.todo[1][1]
           s == job.todo[1][2]
<1>3. job.todo # <<>> /\ Display!Checked(n, s)
  BY <1>1 DEF Display!DisplayIInv, Display!WriterInv
<1>4. n \in Display!Names /\ s \in Display!Settings /\ Tail(job.todo) \in Seq(Display!Names \X Display!Settings)
  BY <1>1, <1>3, DisplayHeadIs
<1>5. \/ job' = [job EXCEPT !.at = "failed"] /\ UNCHANGED <<outs, tampered>>
      \/ /\ outs' = Display!Configured(n, s)
         /\ tampered' = (tampered \/ job.who = "preview")
         /\ job' = [job EXCEPT !.at = "check", !.todo = Tail(@), !.raced = FALSE]
  BY DEF Display!configure
<1>6. job' \in Display!Jobs /\ job'.at \in {"failed", "check"} /\ job'.who = job.who
  BY <1>1, <1>4, <1>5 DEF Display!Jobs
<1>7. outs \in [laptop : Display!Settings, external : Display!Settings \union {"gone"}] /\ \A m \in Display!Names : Display!Other(m) \in Display!Names
  BY <1>1, DisplayPlaces2 DEF Display!ShapeInv
<1> HIDE DEF n, s
<1> DEFINE t == IF s = "mirror" /\ Display!Other(n) \notin Display!Present THEN Display!Own(n) ELSE s
<1>8. CASE outs' # outs
  <2>1. outs' = [outs EXCEPT ![n] = t] /\ n \in Display!Present /\ tampered' = (tampered \/ job.who = "preview")
    BY <1>5, <1>8 DEF Display!Configured, n, s
  <2>2. t \in Display!Settings /\ (t # s => s = "mirror" /\ Display!usable(t))
    BY <1>4, DisplayPlaces2
  <2>3. /\ s \in {"off", "mirror"} => ~Display!HasMirror(n)
        /\ s = "mirror" => Display!usable(outs[Display!Other(n)]) \/ Display!Other(n) \notin Display!Present
        /\ s = "off" /\ ~job.raced => Display!usable(outs[Display!Other(n)])
    BY <1>3 DEF Display!Checked
  <2> HIDE DEF t
  <2>4. /\ outs' \in [laptop : Display!Settings, external : Display!Settings \union {"gone"}]
        /\ outs'[n] = t /\ outs'[Display!Other(n)] = outs[Display!Other(n)]
    <3>1. CASE n = "laptop"
      BY <1>7, <2>1, <2>2, <3>1 DEF Display!Other
    <3>2. CASE n = "external"
      BY <1>7, <2>1, <2>2, <3>2 DEF Display!Other
    <3> QED
      BY <1>4, <3>1, <3>2 DEF Display!Names
  <2>5. Display!Present' = Display!Present
    BY <1>4, <1>7, <2>1, <2>2, <2>4, DisplayPlaces2 DEF Display!Present, Display!Names, Display!Other
  <2>6. Display!ShapeInv'
    BY <1>1, <1>2, <1>6, <2>1, <2>4 DEF Display!configure, Display!ShapeInv
  <2>7. Display!WriterInv'
    BY <1>6, DisplayCalmIsFine DEF DisplayCalm, Display!configure, Display!DisplayIInv, Display!WriterInv
  <2>8. Display!TrialInv'
    BY <1>1, <2>5, DisplayTrialStays DEF Display!DisplayIInv, Display!configure, Display!ShapeInv
  <2>9. Display!RollbackDurable'
    BY <2>1 DEF Display!configure, Display!DisplayIInv, Display!RollbackDurable, Display!WriterInv
  <2>10. Display!MirrorsHaveSource'
    <3>1. t = "mirror" => Display!usable(outs[Display!Other(n)])
      BY <2>3, DisplayPlaces2, <1>4 DEF t
    <3>2. outs[Display!Other(n)] = "mirror" => Display!usable(t)
      <4>1. outs[Display!Other(n)] = "mirror" => s \notin {"off", "mirror"}
        BY <2>3 DEF Display!HasMirror
      <4>2. s \notin {"off", "mirror"} => Display!usable(s) /\ t = s
        BY <1>4, DisplayPlaces2 DEF Display!Settings, t
      <4> QED
        BY <4>1, <4>2
    <3>3. \A m \in Display!Names : m = n \/ m = Display!Other(n)
      BY <1>4 DEF Display!Names, Display!Other
    <3>4. outs'[Display!Other(n)] = "mirror" => Display!usable(outs'[Display!Other(Display!Other(n))])
      BY <2>4, <3>2, <1>4, DisplayPlaces2
    <3> QED
      BY <2>4, <3>1, <3>3, <3>4 DEF Display!MirrorsHaveSource
  <2>11. Display!KeepsFallback
    <3> SUFFICES ASSUME ~job.raced, Display!Lit PROVE Display!Lit'
      BY DEF Display!KeepsFallback
    <3>1. CASE s = "off"
      <4>1. Display!usable(outs'[Display!Other(n)]) /\ Display!Other(n) \in Display!Names
        BY <1>7, <1>4, <2>3, <2>4, <3>1
      <4> QED
        BY <4>1 DEF Display!Lit
    <3>2. CASE s = "mirror"
      <4>1. Display!usable(outs'[Display!Other(n)]) \/ Display!usable(outs'[n])
        BY <2>3, <2>4, <3>2, DisplayPlaces2, <1>4 DEF t
      <4> QED
        BY <4>1, <1>4, <1>7 DEF Display!Lit
    <3>3. CASE s \notin {"off", "mirror"}
      <4>1. Display!usable(outs'[n])
        BY <1>4, <2>4, <3>3, DisplayPlaces2 DEF Display!Settings, t
      <4> QED
        BY <4>1, <1>4 DEF Display!Lit
    <3> QED
      BY <3>1, <3>2, <3>3
  <2> QED
    BY <1>6, <2>6, <2>7, <2>8, <2>9, <2>10, <2>11, DisplayNotConfirmed DEF Display!DisplayIInv
<1>9. CASE outs' = outs
  <2>1. Display!ShapeInv'
    <3>1. tampered' \in BOOLEAN
      BY <1>1, <1>5 DEF Display!ShapeInv
    <3> QED
      BY <1>1, <1>2, <1>6, <1>9, <3>1 DEF Display!configure, Display!ShapeInv
  <2>2. Display!WriterInv'
    BY <1>6, DisplayCalmIsFine DEF DisplayCalm, Display!configure, Display!DisplayIInv, Display!WriterInv
  <2>3. Display!Present' = Display!Present
    BY <1>9 DEF Display!Present
  <2>4. Display!TrialInv'
    BY <1>1, <2>3, DisplayTrialStays DEF Display!DisplayIInv, Display!configure, Display!ShapeInv
  <2>5. Display!RollbackDurable'
    BY <1>5 DEF Display!configure, Display!DisplayIInv, Display!RollbackDurable, Display!WriterInv
  <2>6. Display!MirrorsHaveSource'
    BY <1>9 DEF Display!DisplayIInv, Display!MirrorsHaveSource
  <2> QED
    BY <1>6, <1>9, <2>1, <2>2, <2>4, <2>5, <2>6, DisplayNotConfirmed, DisplayOutputsStay DEF Display!DisplayIInv
<1> QED
  BY <1>8, <1>9

\* Unplugging leaves no mirror, and gives an output that returns a new number:
\* what a preview lost shows in the topology (Hotplug).
LEMMA DisplayHotplugKeeps ==
  ASSUME Display!DisplayConstantsOK, Display!DisplayIInv, Display!Hotplug
  PROVE  Display!DisplayIInv' /\ Display!KeepsFallback /\ Display!ConfirmedUndisturbed
<1>1. Display!ShapeInv /\ job \in Display!Jobs
  BY DEF Display!DisplayIInv, Display!ShapeInv
<1>2. /\ displaySpent \in Nat /\ displaySpent' = displaySpent + 1 /\ displaySpent' \in 0..DisplayEnv /\ xid \in 1..(displaySpent + 1)
      /\ sleep.gen \in Nat /\ rt.topology \in Int
  BY <1>1 DEF Display!DisplayConstantsOK, Display!ShapeInv, Display!Hotplug, Display!Tick
<1>3. /\ outs["laptop"] \in Display!Settings /\ "laptop" \in Display!Present
      /\ "external" \in Display!Present <=> outs["external"] # "gone"
  BY <1>1, DisplayOutsAre
<1>4. Display!MirrorsHaveSource /\ Display!WriterInv /\ Display!TrialInv /\ Display!RollbackDurable
  BY DEF Display!DisplayIInv
<1>5. outs["external"] = "gone" => outs["laptop"] # "mirror"
  BY <1>4, DisplayPlaces2 DEF Display!MirrorsHaveSource, Display!Names, Display!Other
<1>6. /\ outs' \in [laptop : Display!Settings, external : Display!Settings \union {"gone"}]
      /\ outs'["laptop"] # "mirror" /\ outs'["external"] # "mirror"
      /\ Display!usable(outs["laptop"]) => Display!usable(outs'["laptop"])
      /\ \/ outs["external"] # "gone" /\ outs'["external"] = "gone" /\ xid' = xid
         \/ outs["external"] = "gone" /\ Display!usable(outs'["external"]) /\ xid' = xid + 1
  <2>1. CASE "external" \in Display!Present
    <3>1. outs' = [laptop |-> Display!Replugged("laptop", outs["laptop"]), external |-> "gone"] /\ xid' = xid
      BY <2>1 DEF Display!Hotplug
    <3>2. /\ Display!Replugged("laptop", outs["laptop"]) \in Display!Settings /\ Display!Replugged("laptop", outs["laptop"]) # "mirror"
          /\ Display!usable(outs["laptop"]) => Display!usable(Display!Replugged("laptop", outs["laptop"]))
      BY <1>3 DEF Display!Replugged, Display!Settings, Display!Places, Display!usable
    <3> QED
      BY <1>3, <2>1, <3>1, <3>2
  <2>2. CASE "external" \notin Display!Present
    <3>1. /\ outs' = [outs EXCEPT !["external"] = IF outs["laptop"] = "right" THEN "left" ELSE "right"]
          /\ xid' = xid + 1
      BY <2>2 DEF Display!Hotplug
    <3>2. outs \in [laptop : Display!Settings, external : Display!Settings \union {"gone"}] /\ outs["external"] = "gone"
      BY <1>1, <1>3, <2>2 DEF Display!ShapeInv
    <3>3. /\ outs' \in [laptop : Display!Settings, external : Display!Settings \union {"gone"}]
          /\ outs'["laptop"] = outs["laptop"] /\ outs'["external"] \in {"left", "right"}
      BY <3>1, <3>2, DisplayPlaces2 DEF Display!Settings, Display!Places
    <3> QED
      BY <1>5, <3>1, <3>2, <3>3 DEF Display!usable, Display!Places
  <2> QED
    BY <2>1, <2>2
<1>7. /\ job' \in Display!Jobs /\ job'.at = job.at /\ job'.who = job.who /\ job'.todo = job.todo
      /\ job'.disable = job.disable /\ job'.sig = job.sig
      /\ job'.raced = (job.at \in {"configure", "switch"})
  <2> DEFINE r == job.at \in {"configure", "switch"}
  <2>1. r \in BOOLEAN /\ job' = [job EXCEPT !.raced = r]
    BY DEF Display!Hotplug
  <2> HIDE DEF r
  <2>2. /\ job' \in Display!Jobs /\ job'.at = job.at /\ job'.who = job.who /\ job'.todo = job.todo
        /\ job'.disable = job.disable /\ job'.sig = job.sig /\ job'.raced = r
    BY <1>1, <2>1 DEF Display!Jobs
  <2> QED
    BY <2>2 DEF r
<1>8. "external" \in Display!Present' <=> outs'["external"] # "gone"
  BY DEF Display!Present, Display!Names
<1>9. \A n \in Display!Names : outs'[Display!Other(n)] # "mirror" /\ outs'[n] # "mirror"
  BY <1>6 DEF Display!Names, Display!Other
<1>10. Display!ShapeInv'
  <2>1. xid' \in 1..(displaySpent' + 1) /\ disturbed' \in BOOLEAN
    BY <1>1, <1>2, <1>6 DEF Display!Hotplug, Display!ShapeInv
  <2> QED
    BY <1>1, <1>2, <1>6, <1>7, <2>1 DEF Display!Hotplug, Display!ShapeInv
<1>11. Display!WriterInv'
  <2>1. ASSUME job.at = "configure" PROVE job'.todo # <<>> /\ Display!Checked(job.todo[1][1], job.todo[1][2])'
    <3> DEFINE n == job.todo[1][1]
               s == job.todo[1][2]
    <3>1. Display!Checked(n, s) /\ n \in Display!Names /\ job.todo # <<>>
      BY <1>1, <1>4, <2>1, DisplayHeadIs DEF Display!WriterInv
    <3> HIDE DEF n, s
    <3>2. s = "mirror" => Display!usable(outs'[Display!Other(n)]) \/ Display!Other(n) \notin Display!Present'
      <4>1. CASE Display!Other(n) = "external"
        BY <1>6, <1>8, <4>1
      <4>2. CASE Display!Other(n) = "laptop"
        BY <1>3, <1>6, <3>1, <4>2 DEF Display!Checked
      <4> QED
        BY <4>1, <4>2 DEF Display!Other
    <3>3. outs'[Display!Other(n)] # "mirror" /\ job'.raced
      BY <1>7, <1>9, <2>1, <3>1
    <3>4. n' = n /\ s' = s
      BY <1>7 DEF n, s
    <3>5. Display!Checked(n, s)'
      BY <3>2, <3>3, <3>4 DEF Display!Checked, Display!HasMirror
    <3> QED
      BY <1>7, <3>1, <3>5 DEF n, s
  <2>2. ~Display!HasMirror("laptop")'
    BY <1>9 DEF Display!Names, Display!HasMirror
  <2> QED
    BY <1>4, <1>7, <2>1, <2>2 DEF Display!WriterInv, Display!Hotplug
<1>12. Display!TrialInv'
  <2>1. asks' = asks /\ doc' = doc /\ rt' = rt /\ sleep' = sleep /\ expired' = expired
        /\ disturbed' = (disturbed \/ "external" \in DOMAIN doc.trial.previous)
    BY DEF Display!Hotplug
  <2>2. doc.trial # Display!NoTrial => doc.trial.id \in 1..asks
    BY <1>4 DEF Display!TrialInv
  <2>3. ASSUME doc.trial # Display!NoTrial, rt.trial = doc.trial.id
        PROVE  /\ rt.resume <= sleep.gen /\ rt.topology \in 0..xid'
               /\ "external" \in DOMAIN doc.trial.previous <=> rt.topology # 0
               /\ disturbed' => \/ expired \/ sleep.preparing \/ sleep.gen > rt.resume
                                \/ rt.topology # 0 /\ ("external" \notin Display!Present' \/ xid' > rt.topology)
    <3>1. /\ rt.resume <= sleep.gen /\ rt.topology \in 0..xid
          /\ "external" \in DOMAIN doc.trial.previous <=> rt.topology # 0
          /\ disturbed => \/ expired \/ sleep.preparing \/ sleep.gen > rt.resume
                          \/ rt.topology # 0 /\ ("external" \notin Display!Present \/ xid > rt.topology)
      BY <1>4, <2>3 DEF Display!TrialInv
    <3>2. rt.topology \in 0..xid' /\ ("external" \notin Display!Present' \/ xid' > rt.topology)
      BY <1>2, <1>6, <1>8, <3>1
    <3> QED
      BY <2>1, <3>1, <3>2
  <2> QED
    BY <2>1, <2>2, <2>3 DEF Display!TrialInv
<1>13. Display!RollbackDurable' /\ Display!MirrorsHaveSource'
  BY <1>4, <1>9 DEF Display!Hotplug, Display!RollbackDurable, Display!MirrorsHaveSource
<1>14. Display!KeepsFallback
  <2>1. xid' = xid => outs'["external"] = "gone" /\ outs["external"] # "gone"
    BY <1>2, <1>6
  <2> QED
    BY <2>1 DEF Display!KeepsFallback
<1>15. Display!ConfirmedUndisturbed
  BY <1>7 DEF Display!ConfirmedUndisturbed
<1> QED
  BY <1>10, <1>11, <1>12, <1>13, <1>14, <1>15 DEF Display!DisplayIInv

\* Steps of logind and of the clocks touch no output and no command.
LEMMA DisplayClocksKeep ==
  ASSUME Display!DisplayConstantsOK, Display!DisplayIInv, Display!PrepareForSleep \/ Display!Resume \/ Display!Expire \/ Display!Due \/ Display!Ripen \/ Display!ApplyTimeout
  PROVE  Display!DisplayIInv' /\ Display!KeepsFallback /\ Display!ConfirmedUndisturbed
<1>1. Display!ShapeInv /\ Display!WriterInv /\ Display!TrialInv /\ Display!RollbackDurable /\ Display!MirrorsHaveSource
  BY DEF Display!DisplayIInv
<1>2. UNCHANGED <<outs, xid, prefer, doc, job, tampered, asks>>
  BY DEF Display!PrepareForSleep, Display!Resume, Display!Expire, Display!Due, Display!Ripen, Display!ApplyTimeout
<1>3. Display!WriterInv' /\ Display!RollbackDurable' /\ Display!MirrorsHaveSource'
  BY <1>1, <1>2 DEF Display!WriterInv, Display!RollbackDurable, Display!MirrorsHaveSource, Display!Checked, Display!HasMirror, Display!Present
<1>4. Display!KeepsFallback /\ Display!ConfirmedUndisturbed
  BY <1>2 DEF Display!KeepsFallback, Display!ConfirmedUndisturbed
<1>5. Display!ShapeInv'
  <2>1. displaySpent' \in 0..DisplayEnv /\ displaySpent <= displaySpent'
    <3>1. Display!Tick \/ displaySpent' = displaySpent
      BY DEF Display!PrepareForSleep, Display!Resume, Display!Expire, Display!Due, Display!Ripen, Display!ApplyTimeout
    <3> QED
      BY <1>1, <3>1 DEF Display!DisplayConstantsOK, Display!ShapeInv, Display!Tick
  <2>2. xid' \in 1..(displaySpent' + 1)
    <3>1. displaySpent \in Nat /\ displaySpent' \in Nat /\ xid \in 1..(displaySpent + 1)
      BY <1>1, <2>1 DEF Display!ShapeInv
    <3> QED
      BY <1>2, <2>1, <3>1, DisplayLater
  <2>3. sleep' \in [preparing : BOOLEAN, gen : Nat]
    <3>1. sleep \in [preparing : BOOLEAN, gen : Nat] /\ sleep.gen + 1 \in Nat
      BY <1>1 DEF Display!ShapeInv
    <3>2. \/ sleep' = sleep \/ sleep' = [sleep EXCEPT !.preparing = TRUE]
          \/ sleep' = [preparing |-> FALSE, gen |-> sleep.gen + 1]
      BY DEF Display!PrepareForSleep, Display!Resume, Display!Expire, Display!Due, Display!Ripen, Display!ApplyTimeout
    <3>3. CASE sleep' = [sleep EXCEPT !.preparing = TRUE]
      BY <3>1, <3>3
    <3>4. CASE sleep' = [preparing |-> FALSE, gen |-> sleep.gen + 1]
      BY <3>1, <3>4
    <3> QED
      BY <3>1, <3>2, <3>3, <3>4
  <2>4. rt' \in [trial : 0..DisplayAsks, topology : Int, due : BOOLEAN, applied : BOOLEAN, error : BOOLEAN, resume : Nat]
    BY <1>1 DEF Display!ShapeInv, Display!PrepareForSleep, Display!Resume, Display!Expire, Display!Due, Display!Ripen, Display!ApplyTimeout
  <2>5. /\ planner' \in [candidate : Display!Numbers, ripe : BOOLEAN, resume : Nat]
        /\ docking' \in [state : {"settled", "applying", "failed"}, started : {"no", "running", "over"}]
    BY <1>1 DEF Display!ShapeInv, Display!PrepareForSleep, Display!Resume, Display!Expire, Display!Due, Display!Ripen, Display!ApplyTimeout
  <2>6. expired' \in BOOLEAN /\ disturbed' \in BOOLEAN
    BY <1>1 DEF Display!ShapeInv, Display!PrepareForSleep, Display!Resume, Display!Expire, Display!Due, Display!Ripen, Display!ApplyTimeout
  <2> QED
    BY <1>1, <1>2, <2>1, <2>2, <2>3, <2>4, <2>5, <2>6 DEF Display!ShapeInv
<1>6. Display!TrialInv'
  <2>1. /\ rt'.trial = rt.trial /\ rt'.resume = rt.resume /\ rt'.topology = rt.topology
        /\ sleep.gen \in Nat /\ sleep'.gen \in {sleep.gen, sleep.gen + 1} /\ rt.resume \in Nat
        /\ Display!Present' = Display!Present
    BY <1>1, <1>2 DEF Display!ShapeInv, Display!PrepareForSleep, Display!Resume, Display!Expire, Display!Due, Display!Ripen, Display!ApplyTimeout, Display!Present
  <2>2. expired => expired'
    BY DEF Display!PrepareForSleep, Display!Resume, Display!Expire, Display!Due, Display!Ripen, Display!ApplyTimeout
  <2>3. disturbed' => disturbed \/ expired' \/ sleep'.preparing
    BY <1>1 DEF Display!PrepareForSleep, Display!Resume, Display!Expire, Display!Due, Display!Ripen, Display!ApplyTimeout, Display!ShapeInv
  <2>4. sleep.preparing => sleep'.preparing \/ sleep'.gen = sleep.gen + 1
    BY <1>1 DEF Display!PrepareForSleep, Display!Resume, Display!Expire, Display!Due, Display!Ripen, Display!ApplyTimeout, Display!ShapeInv
  <2> QED
    BY <1>1, <1>2, <2>1, <2>2, <2>3, <2>4 DEF Display!TrialInv
<1> QED
  BY <1>1, <1>3, <1>4, <1>5, <1>6 DEF Display!DisplayIInv

\* A restart forgets which trial was known: an old one can only be rolled back.
LEMMA DisplayRestartKeeps ==
  ASSUME Display!DisplayConstantsOK, Display!DisplayIInv, Display!Restart
  PROVE  Display!DisplayIInv' /\ Display!KeepsFallback /\ Display!ConfirmedUndisturbed
<1>1. Display!ShapeInv /\ Display!WriterInv /\ Display!TrialInv /\ Display!RollbackDurable /\ Display!MirrorsHaveSource
  BY DEF Display!DisplayIInv
<1>2. displaySpent \in Nat /\ displaySpent' = displaySpent + 1 /\ displaySpent' \in 0..DisplayEnv /\ xid' \in 1..(displaySpent' + 1)
  BY <1>1 DEF Display!DisplayConstantsOK, Display!ShapeInv, Display!Restart, Display!Tick
<1>3. job' \in Display!Jobs /\ 0 \in Display!Numbers /\ 0 \in 0..DisplayAsks
  BY DisplayNoJobIs DEF Display!Restart, Display!Numbers, Display!DisplayConstantsOK
<1>4. /\ rt' \in [trial : 0..DisplayAsks, topology : Int, due : BOOLEAN, applied : BOOLEAN, error : BOOLEAN, resume : Nat]
      /\ planner' \in [candidate : Display!Numbers, ripe : BOOLEAN, resume : Nat]
      /\ docking' \in [state : {"settled", "applying", "failed"}, started : {"no", "running", "over"}]
      /\ rt'.trial = 0 /\ job'.at = "none" /\ job'.who = "none"
  BY <1>3 DEF Display!Restart, Display!FreshRt, Display!NewPlanner, Display!Settled, Display!NoJob
<1>5. sleep' \in [preparing : BOOLEAN, gen : Nat]
  BY <1>1 DEF Display!Restart, Display!ShapeInv
<1>6. Display!ShapeInv'
  BY <1>1, <1>2, <1>3, <1>4, <1>5 DEF Display!Restart, Display!ShapeInv
<1>7. Display!WriterInv'
  BY <1>4, DisplayCalmIsFine DEF DisplayCalm
<1>8. Display!TrialInv'
  <2>1. doc' = doc /\ asks' = asks /\ asks \in Nat
    BY <1>1 DEF Display!Restart, Display!ShapeInv
  <2>2. doc.trial # Display!NoTrial => doc.trial.id \in 1..asks /\ doc.trial.id # 0
    BY <1>1, <2>1 DEF Display!TrialInv
  <2> QED
    BY <1>4, <2>1, <2>2 DEF Display!TrialInv
<1>9. Display!RollbackDurable' /\ Display!MirrorsHaveSource' /\ outs' = outs
  BY <1>1 DEF Display!Restart, Display!RollbackDurable, Display!MirrorsHaveSource
<1> QED
  BY <1>4, <1>6, <1>7, <1>8, <1>9, DisplayOutputsStay, DisplayNotConfirmed DEF Display!DisplayIInv

\* The parts of the state that a pass changes, and what its end leaves.
DisplayPlanners == [candidate : Display!Numbers, ripe : BOOLEAN, resume : Nat]
DisplayDockings == [state : {"settled", "applying", "failed"}, started : {"no", "running", "over"}]
DisplayRts == [trial : 0..DisplayAsks, topology : Int, due : BOOLEAN, applied : BOOLEAN, error : BOOLEAN, resume : Nat]
DisplayDocs == [manual : BOOLEAN, saved : Display!LayoutSet,
         trial : [id : 0..DisplayAsks, proposed : Display!LayoutSet, previous : Display!LayoutSet]]
LEMMA DisplayShapes ==
  ASSUME Display!DisplayConstantsOK, Display!ShapeInv
  PROVE  /\ planner \in DisplayPlanners /\ docking \in DisplayDockings /\ rt \in DisplayRts /\ doc \in DisplayDocs /\ job \in Display!Jobs
         /\ asks \in Nat /\ displaySpent \in Nat /\ sleep.gen \in Nat /\ sleep.preparing \in BOOLEAN
         /\ 0 \in Display!Numbers /\ 0 \in 0..DisplayAsks /\ asks \in 0..DisplayAsks
         /\ xid \in 1..(displaySpent + 1) /\ Display!topology \in 0..xid /\ Display!signature \in Display!Numbers
         /\ Display!reset \in DisplayPlanners
<1>1. /\ planner \in DisplayPlanners /\ docking \in DisplayDockings /\ rt \in DisplayRts /\ doc \in DisplayDocs /\ job \in Display!Jobs
      /\ asks \in 0..DisplayAsks /\ displaySpent \in 0..DisplayEnv /\ xid \in 1..(displaySpent + 1)
      /\ sleep.gen \in Nat /\ sleep.preparing \in BOOLEAN
  BY DEF Display!ShapeInv, DisplayPlanners, DisplayDockings, DisplayRts, DisplayDocs
<1>2. DisplayAsks \in Nat /\ DisplayEnv \in Nat /\ 0 \in Display!Numbers /\ 0 \in 0..DisplayAsks
  BY DEF Display!DisplayConstantsOK, Display!Numbers
<1>3. asks \in Nat /\ displaySpent \in Nat /\ xid \in Display!Numbers /\ 0 \in 0..xid /\ xid \in 0..xid
  BY <1>1, <1>2 DEF Display!Numbers
<1>4. Display!topology \in 0..xid /\ Display!signature \in Display!Numbers
  BY <1>2, <1>3 DEF Display!topology, Display!signature
<1>5. Display!reset \in DisplayPlanners
  BY <1>1, <1>2 DEF Display!reset, Display!NewPlanner, DisplayPlanners
<1> QED
  BY <1>1, <1>2, <1>3, <1>4, <1>5

LEMMA DisplayUpdateIs ==
  ASSUME docking \in DisplayDockings, NEW status PROVE Display!update(status) \in DisplayDockings
<1>1. docking.state \in {"settled", "applying", "failed"} /\ docking.started \in {"no", "running", "over"}
  BY DEF DisplayDockings
<1> DEFINE own == doc.manual /\ doc.trial = Display!NoTrial
           state == IF own THEN "settled" ELSE docking.state
           applying == ~own /\ ~doc.manual /\ doc.trial = Display!NoTrial /\
                       status \in {"pending", "settling", "layout-preview"}
           started == IF docking.started = "no" THEN "running" ELSE docking.started
           failed == [state |-> "failed", started |-> "no"]
<1>2. state \in {"settled", "applying", "failed"} /\ started \in {"running", "over"}
  BY <1>1
<1>3. failed \in DisplayDockings
  BY DEF DisplayDockings
<1>4. Display!update(status) =
        IF status = "error" \/ state = "failed" THEN failed
        ELSE IF status = "sleeping" THEN [state |-> state, started |-> "no"]
        ELSE IF ~applying THEN [state |-> "settled", started |-> "no"]
        ELSE IF started = "over" THEN failed
        ELSE [state |-> "applying", started |-> started]
  BY DEF Display!update
<1> HIDE DEF own, state, applying, started, failed
<1>5. /\ [state |-> state, started |-> "no"] \in DisplayDockings
      /\ [state |-> "applying", started |-> started] \in DisplayDockings
      /\ [state |-> "settled", started |-> "no"] \in DisplayDockings
  BY <1>2 DEF DisplayDockings
<1>6. CASE status = "error" \/ state = "failed"
  BY <1>2, <1>3, <1>4, <1>5, <1>6
<1>7. CASE ~(status = "error" \/ state = "failed")
  BY <1>3, <1>4, <1>5, <1>7
<1> QED
  BY <1>6, <1>7

LEMMA DisplayPublishIs ==
  ASSUME docking \in DisplayDockings, Display!reset \in DisplayPlanners, NEW status, NEW p \in DisplayPlanners, Display!Publish(status, p)
  PROVE  docking' \in DisplayDockings /\ planner' \in DisplayPlanners /\ job' = Display!NoJob
<1> DEFINE s == IF ~job.ok THEN "error"
                ELSE IF job.paused /\ status \notin {"sleeping", "error"} THEN "layout-preview" ELSE status
<1>1. docking' = Display!update(s) /\ job' = Display!NoJob /\ planner' = IF s = "error" THEN Display!reset ELSE p
  BY DEF Display!Publish
<1> HIDE DEF s
<1>2. Display!update(s) \in DisplayDockings
  BY DisplayUpdateIs
<1> QED
  BY <1>1, <1>2

\* Any pass that ends: the lock is free.
LEMMA DisplayPublishKeeps ==
  ASSUME Display!DisplayConstantsOK, Display!DisplayIInv, NEW status, NEW p \in DisplayPlanners, Display!Publish(status, p),
         displaySpent' \in 0..DisplayEnv, displaySpent <= displaySpent',
         UNCHANGED <<outs, xid, sleep, prefer, doc, rt, expired, disturbed, tampered, asks>>
  PROVE  Display!DisplayIInv' /\ Display!KeepsFallback /\ Display!ConfirmedUndisturbed
<1>1. docking' \in DisplayDockings /\ planner' \in DisplayPlanners /\ job' = Display!NoJob
  <2>1. Display!ShapeInv
    BY DEF Display!DisplayIInv
  <2> QED
    BY <2>1, DisplayShapes, DisplayPublishIs
<1>2. job' \in Display!Jobs /\ job'.at = "none" /\ job'.who = "none"
  BY <1>1, DisplayNoJobIs DEF Display!NoJob
<1>3. Display!WriterInv'
  BY <1>2, DisplayCalmIsFine DEF DisplayCalm
<1>4. Display!DisplayIInv' /\ Display!KeepsFallback
  BY <1>1, <1>2, <1>3, DisplayJobChanges DEF DisplayPlanners, DisplayDockings
<1> QED
  BY <1>2, <1>4, DisplayNotConfirmed

\* A pass decides: it goes on only to switch the panel off over a set of outputs
\* that is there, or to look at what it left (reconcile and Planner::plan).
LEMMA DisplayPlanIs ==
  ASSUME Display!DisplayConstantsOK, Display!ShapeInv, NEW p \in DisplayPlanners
  PROVE  /\ Display!plan(p).planner \in DisplayPlanners /\ Display!plan(p).job \in Display!Jobs
         /\ Display!plan(p).job.at \in {"target", "observe"} /\ Display!plan(p).job.who = job.who
         /\ Display!plan(p).job.disable => Display!plan(p).job.sig # 0
<1>1. job \in Display!Jobs /\ 0 \in Display!Numbers /\ Display!signature \in Display!Numbers /\ sleep.gen \in Nat
  BY DisplayShapes
<1> DEFINE wants == prefer /\ ~job.paused
           same == p.candidate = Display!signature
           disable == wants /\ Display!signature # 0 /\ same /\ p.ripe
           target == IF disable THEN Display!usable(outs["laptop"]) /\ ~Display!HasMirror("laptop")
                     ELSE outs["laptop"] = "off" \/ (outs["laptop"] = "mirror" /\ ~Display!Lit)
           at == IF target THEN "target" ELSE "observe"
           status == IF ~wants THEN "all-displays" ELSE IF Display!signature = 0 THEN "internal"
                     ELSE IF disable THEN "external" ELSE "settling"
           next == IF ~wants \/ Display!signature = 0 THEN [p EXCEPT !.candidate = 0, !.ripe = FALSE]
                   ELSE [p EXCEPT !.candidate = Display!signature, !.ripe = (p.ripe /\ same)]
           ahead == [job EXCEPT !.at = at, !.disable = disable, !.sig = Display!signature, !.gen = sleep.gen,
                                !.status = status]
<1>2. Display!plan(p).planner = next /\ Display!plan(p).job = ahead
  BY DEF Display!plan
<1>3. disable \in BOOLEAN /\ at \in {"target", "observe"} /\ (disable => Display!signature # 0)
      /\ status \in {"none", "all-displays", "internal", "external", "settling"}
  <2>1. p.ripe \in BOOLEAN
    BY DEF DisplayPlanners
  <2> QED
    BY <2>1
<1>4. next \in DisplayPlanners
  <2>1. (p.ripe /\ same) \in BOOLEAN
    BY DEF DisplayPlanners
  <2> HIDE DEF wants, same
  <2> QED
    BY <1>1, <2>1 DEF DisplayPlanners
<1> HIDE DEF disable, at, status, next
<1>5. /\ ahead \in Display!Jobs /\ ahead.at = at /\ ahead.who = job.who /\ ahead.disable = disable
      /\ ahead.sig = Display!signature
  BY <1>1, <1>3 DEF Display!Jobs
<1> HIDE DEF ahead
<1> QED
  BY <1>2, <1>3, <1>4, <1>5

LEMMA DisplayReconcileKeeps ==
  ASSUME Display!DisplayConstantsOK, Display!DisplayIInv, Display!reconcile
  PROVE  Display!DisplayIInv' /\ Display!KeepsFallback /\ Display!ConfirmedUndisturbed
<1>1. Display!ShapeInv /\ Display!WriterInv /\ job.at = "reconcile"
  BY DEF Display!DisplayIInv, Display!reconcile
<1>2. planner \in DisplayPlanners /\ Display!reset \in DisplayPlanners /\ docking \in DisplayDockings
  BY <1>1, DisplayShapes
<1>3. PICK ineligible \in BOOLEAN, gap \in BOOLEAN :
        /\ Display!Fault(ineligible \/ gap)
        /\ IF sleep.preparing THEN Display!Publish("sleeping", Display!reset)
           ELSE IF ineligible THEN Display!Publish("error", Display!reset)
           ELSE IF Display!preserve_enablement /\ Display!Lit THEN Display!Publish("layout", Display!reset)
           ELSE LET q == Display!plan(IF gap THEN Display!reset ELSE planner)
                IN planner' = q.planner /\ job' = q.job /\ UNCHANGED docking
  BY DEF Display!reconcile
<1>4. displaySpent' \in 0..DisplayEnv /\ displaySpent <= displaySpent'
  <2>1. (ineligible \/ gap) \in BOOLEAN
    OBVIOUS
  <2> QED
    BY <1>1, <1>3, <2>1, DisplayBudgetStays
<1>5. UNCHANGED <<outs, xid, sleep, prefer, doc, rt, expired, disturbed, tampered, asks>>
  BY DEF Display!reconcile
<1>6. CASE \E status \in {"sleeping", "error", "layout"} : Display!Publish(status, Display!reset)
  BY <1>2, <1>4, <1>5, <1>6, DisplayPublishKeeps
<1>7. CASE \E p \in DisplayPlanners : planner' = Display!plan(p).planner /\ job' = Display!plan(p).job /\ UNCHANGED docking
  <2>1. PICK p \in DisplayPlanners : planner' = Display!plan(p).planner /\ job' = Display!plan(p).job /\ docking' = docking
    BY <1>7
  <2>2. /\ planner' \in DisplayPlanners /\ job' \in Display!Jobs /\ job'.at \in {"target", "observe"} /\ job'.who = job.who
        /\ job'.disable => job'.sig # 0
    BY <1>1, <2>1, DisplayPlanIs
  <2>3. Display!WriterInv'
    BY <1>1, <1>5, <2>2 DEF Display!WriterInv
  <2>4. Display!DisplayIInv' /\ Display!KeepsFallback
    BY <1>2, <1>4, <1>5, <2>1, <2>2, <2>3, DisplayJobChanges DEF DisplayPlanners, DisplayDockings
  <2> QED
    BY <1>1, <2>4, DisplayNotConfirmed
<1> QED
  BY <1>2, <1>3, <1>6, <1>7

LEMMA DisplayTargetKeeps ==
  ASSUME Display!DisplayConstantsOK, Display!DisplayIInv, Display!Target
  PROVE  Display!DisplayIInv' /\ Display!KeepsFallback /\ Display!ConfirmedUndisturbed
<1>1. Display!ShapeInv /\ Display!WriterInv /\ job.at = "target" /\ planner \in DisplayPlanners /\ docking \in DisplayDockings /\ job \in Display!Jobs
  BY DisplayShapes DEF Display!DisplayIInv, Display!Target
<1>2. /\ UNCHANGED <<outs, xid, sleep, prefer, doc, rt, expired, disturbed, tampered, asks>>
      /\ displaySpent' \in 0..DisplayEnv /\ displaySpent <= displaySpent'
  BY <1>1, DisplayBudgetStays DEF Display!Target
<1>3. CASE Display!Publish("error", planner)
  BY <1>1, <1>2, <1>3, DisplayPublishKeeps
<1>4. CASE /\ ~(job.disable /\ ~Display!validate_disable) /\ job' = [job EXCEPT !.at = "switch", !.raced = FALSE]
           /\ UNCHANGED <<docking, planner>>
  <2>1. /\ job' \in Display!Jobs /\ job'.at = "switch" /\ job'.who = job.who /\ job'.disable = job.disable
        /\ job'.raced = FALSE
    BY <1>1, <1>4 DEF Display!Jobs
  <2>2. job.disable => ~Display!HasMirror("laptop")' /\ Display!usable(outs'["external"])
    BY <1>1, <1>2, <1>4 DEF Display!WriterInv, Display!validate_disable, Display!HasMirror, Display!signature
  <2>3. Display!WriterInv'
    BY <1>1, <1>2, <2>1, <2>2 DEF Display!WriterInv
  <2>4. Display!DisplayIInv' /\ Display!KeepsFallback
    BY <1>1, <1>2, <1>4, <2>1, <2>3, DisplayJobChanges DEF DisplayPlanners, DisplayDockings
  <2> QED
    BY <1>1, <2>4, DisplayNotConfirmed
<1> QED
  BY <1>3, <1>4 DEF Display!Target

\* The panel goes dark only over an output that stayed lit, and its return
\* gives a mirror of it a source (Switch).
LEMMA DisplaySwitchKeeps ==
  ASSUME Display!DisplayConstantsOK, Display!DisplayIInv, Display!Switch
  PROVE  Display!DisplayIInv' /\ Display!KeepsFallback /\ Display!ConfirmedUndisturbed
<1>1. /\ Display!ShapeInv /\ Display!WriterInv /\ Display!TrialInv /\ Display!RollbackDurable /\ Display!MirrorsHaveSource
      /\ job.at = "switch" /\ planner \in DisplayPlanners /\ docking \in DisplayDockings /\ job \in Display!Jobs
  BY DisplayShapes DEF Display!DisplayIInv, Display!Switch
<1>2. UNCHANGED <<xid, sleep, prefer, doc, rt, expired, disturbed, tampered, asks>>
  BY DEF Display!Switch
<1>3. displaySpent' \in 0..DisplayEnv /\ displaySpent <= displaySpent'
  <2>1. \E b \in BOOLEAN : Display!Fault(b)
    BY DEF Display!Switch
  <2> QED
    BY <1>1, <2>1, DisplayBudgetStays
<1>4. CASE Display!Publish("error", planner) /\ UNCHANGED outs
  BY <1>1, <1>2, <1>3, <1>4, DisplayPublishKeeps
<1> DEFINE t == IF job.disable THEN "off" ELSE Display!saved_internal
<1>5. CASE /\ outs' = [outs EXCEPT !["laptop"] = t]
           /\ job' = [job EXCEPT !.at = "observe", !.raced = FALSE] /\ UNCHANGED <<docking, planner>>
  <2>1. Display!saved_internal \in Display!Places
    BY DisplayPlaces2 DEF Display!saved_internal, Display!Names
  <2>2. t \in Display!Settings /\ t # "mirror" /\ (~job.disable => Display!usable(t)) /\ (job.disable => t = "off")
    BY <2>1, DisplayPlaces2
  <2> HIDE DEF t
  <2>3. outs \in [laptop : Display!Settings, external : Display!Settings \union {"gone"}]
    BY <1>1 DEF Display!ShapeInv
  <2>4. /\ outs' \in [laptop : Display!Settings, external : Display!Settings \union {"gone"}]
        /\ outs'["laptop"] = t /\ outs'["external"] = outs["external"]
    BY <1>5, <2>2, <2>3
  <2>5. Display!Present' = Display!Present
    BY <2>2, <2>3, <2>4, DisplayPlaces2 DEF Display!Present, Display!Names
  <2>6. job' \in Display!Jobs /\ job'.at = "observe" /\ job'.who = job.who
    BY <1>1, <1>5 DEF Display!Jobs
  <2>7. Display!ShapeInv'
    <3>1. xid' \in 1..(displaySpent' + 1)
      <4>1. displaySpent \in Nat /\ displaySpent' \in Nat /\ xid \in 1..(displaySpent + 1)
        BY <1>1, <1>3 DEF Display!ShapeInv
      <4> QED
        BY <1>2, <1>3, <4>1, DisplayLater
    <3> QED
      BY <1>1, <1>2, <1>3, <1>5, <2>4, <2>6, <3>1 DEF Display!ShapeInv
  <2>8. Display!WriterInv'
    BY <1>1, <1>2, <2>6, DisplayCalmIsFine DEF DisplayCalm, Display!WriterInv
  <2>9. Display!TrialInv'
    BY <1>1, <1>2, <2>5, DisplayTrialStays DEF Display!ShapeInv
  <2>10. Display!RollbackDurable'
    BY <1>1, <1>2 DEF Display!RollbackDurable
  <2>11. Display!MirrorsHaveSource'
    <3>1. outs["external"] = "mirror" => ~job.disable
      BY <1>1 DEF Display!WriterInv, Display!HasMirror, Display!Other
    <3> QED
      BY <2>2, <2>4, <3>1 DEF Display!MirrorsHaveSource, Display!Names, Display!Other
  <2>12. Display!KeepsFallback
    <3>1. ~job.raced /\ job.disable => Display!usable(outs'["external"])
      BY <1>1, <2>4 DEF Display!WriterInv
    <3> QED
      BY <2>2, <2>4, <3>1 DEF Display!KeepsFallback, Display!Lit, Display!Names
  <2> QED
    BY <1>1, <2>7, <2>8, <2>9, <2>10, <2>11, <2>12, DisplayNotConfirmed DEF Display!DisplayIInv
<1> QED
  BY <1>4, <1>5 DEF Display!Switch

LEMMA DisplayPassEndsKeep ==
  ASSUME Display!DisplayConstantsOK, Display!DisplayIInv, Display!Observe \/ Display!TimedOut
  PROVE  Display!DisplayIInv' /\ Display!KeepsFallback /\ Display!ConfirmedUndisturbed
<1>1. Display!ShapeInv /\ planner \in DisplayPlanners /\ docking \in DisplayDockings
  BY DisplayShapes DEF Display!DisplayIInv
<1>2. UNCHANGED <<outs, xid, sleep, prefer, doc, rt, expired, disturbed, tampered, asks>>
  BY DEF Display!Observe, Display!TimedOut
<1>3. displaySpent' \in 0..DisplayEnv /\ displaySpent <= displaySpent'
  <2>1. Display!Tick \/ displaySpent' = displaySpent
    BY DEF Display!Observe, Display!TimedOut
  <2> QED
    BY <1>1, <2>1, DisplayBudgetStays
<1>4. CASE \E status \in {"error", "pending", job.status} : Display!Publish(status, planner)
  BY <1>1, <1>2, <1>3, <1>4, DisplayPublishKeeps
<1>5. CASE job' = Display!NoJob /\ UNCHANGED <<docking, planner>>
  <2>1. job' \in Display!Jobs /\ job'.at = "none" /\ job'.who = "none"
    BY <1>5, DisplayNoJobIs DEF Display!NoJob
  <2>2. Display!WriterInv'
    BY <2>1, DisplayCalmIsFine DEF DisplayCalm
  <2>3. Display!DisplayIInv' /\ Display!KeepsFallback
    BY <1>1, <1>2, <1>3, <1>5, <2>1, <2>2, DisplayJobChanges DEF DisplayPlanners, DisplayDockings
  <2> QED
    BY <2>1, <2>3, DisplayNotConfirmed
<1> QED
  BY <1>4, <1>5 DEF Display!Observe, Display!TimedOut

\* What a client's request leaves of a pass's state.
LEMMA DisplaySetKeeps ==
  ASSUME Display!DisplayConstantsOK, Display!DisplayIInv, NEW p \in BOOLEAN, Display!set(p)
  PROVE  Display!DisplayIInv' /\ Display!KeepsFallback /\ Display!ConfirmedUndisturbed
<1>1. Display!ShapeInv /\ Display!WriterInv /\ Display!TrialInv /\ Display!RollbackDurable /\ Display!MirrorsHaveSource /\ asks \in Nat /\ DisplayAsks \in Nat
  BY DisplayShapes DEF Display!DisplayIInv, Display!DisplayConstantsOK
<1>2. /\ asks' = asks + 1 /\ asks' \in 0..DisplayAsks /\ prefer' = p /\ job' = [Display!NoJob EXCEPT !.who = "set", !.at = "release"]
      /\ UNCHANGED <<outs, xid, sleep, doc, rt, planner, docking, expired, disturbed, tampered, displaySpent>>
  BY <1>1 DEF Display!set, Display!Ask, Display!ShapeInv
<1>3. job' \in Display!Jobs /\ job'.at = "release" /\ job'.who = "set"
  <2>1. Display!NoJob \in Display!Jobs
    BY DisplayNoJobIs
  <2> QED
    BY <1>2, <2>1 DEF Display!Jobs
<1>4. Display!ShapeInv'
  BY <1>1, <1>2, <1>3 DEF Display!ShapeInv
<1>5. Display!WriterInv'
  BY <1>3, DisplayCalmIsFine DEF DisplayCalm
<1>6. Display!TrialInv'
  BY <1>1, <1>2, DisplayTrialStays DEF Display!Present
<1>7. Display!RollbackDurable' /\ Display!MirrorsHaveSource'
  BY <1>1, <1>2 DEF Display!RollbackDurable, Display!MirrorsHaveSource
<1> QED
  BY <1>2, <1>3, <1>4, <1>5, <1>6, <1>7, DisplayOutputsStay, DisplayNotConfirmed DEF Display!DisplayIInv

LEMMA DisplayReleaseKeeps ==
  ASSUME Display!DisplayConstantsOK, Display!DisplayIInv, Display!use_docking_policy
  PROVE  Display!DisplayIInv' /\ Display!KeepsFallback /\ Display!ConfirmedUndisturbed
<1>1. /\ Display!ShapeInv /\ Display!WriterInv /\ Display!TrialInv /\ Display!RollbackDurable /\ Display!MirrorsHaveSource /\ doc \in DisplayDocs
      /\ docking \in DisplayDockings /\ asks \in Nat
  BY DisplayShapes DEF Display!DisplayIInv
<1>2. UNCHANGED <<outs, xid, sleep, prefer, rt, planner, expired, disturbed, tampered, asks>> /\ job' = Display!NoJob
  BY DEF Display!use_docking_policy
<1>3. displaySpent' \in 0..DisplayEnv /\ displaySpent <= displaySpent'
  <2>1. \E b \in BOOLEAN : Display!Fault(b)
    <3>1. doc.manual \in BOOLEAN
      BY <1>1 DEF DisplayDocs
    <3> QED
      BY <3>1 DEF Display!use_docking_policy
  <2> QED
    BY <1>1, <2>1, DisplayBudgetStays
<1>4. doc' = doc \/ doc' = [doc EXCEPT !.manual = FALSE]
  BY DEF Display!use_docking_policy
<1>5. doc' \in DisplayDocs /\ doc'.trial = doc.trial
  BY <1>1, <1>4 DEF DisplayDocs
<1>6. docking' \in DisplayDockings
  <2>1. docking' = docking \/ docking' = [docking EXCEPT !.state = "applying"]
    BY DEF Display!use_docking_policy
  <2> QED
    BY <1>1, <2>1 DEF DisplayDockings
<1>7. job' \in Display!Jobs /\ job'.at = "none" /\ job'.who = "none"
  BY <1>2, DisplayNoJobIs DEF Display!NoJob
<1>8. Display!ShapeInv'
  <2>1. xid' \in 1..(displaySpent' + 1)
    <3>1. displaySpent \in Nat /\ displaySpent' \in Nat /\ xid \in 1..(displaySpent + 1)
      BY <1>1, <1>3 DEF Display!ShapeInv
    <3> QED
      BY <1>2, <1>3, <3>1, DisplayLater
  <2> QED
    BY <1>1, <1>2, <1>3, <1>5, <1>6, <1>7, <2>1 DEF Display!ShapeInv, DisplayDocs, DisplayDockings
<1>9. Display!WriterInv'
  BY <1>7, DisplayCalmIsFine DEF DisplayCalm
<1>10. Display!TrialInv'
  BY <1>1, <1>2, <1>5, DisplayTrialStays DEF Display!Present
<1>11. Display!RollbackDurable' /\ Display!MirrorsHaveSource'
  BY <1>1, <1>2, <1>5 DEF Display!RollbackDurable, Display!MirrorsHaveSource
<1> QED
  BY <1>2, <1>7, <1>8, <1>9, <1>10, <1>11, DisplayOutputsStay, DisplayNotConfirmed DEF Display!DisplayIInv

\* The parts of the invariant that a step on the lock, RUNTIME and the document
\* has to give again.
LEMMA DisplayRequestKeeps ==
  ASSUME Display!DisplayConstantsOK, Display!DisplayIInv, job' \in Display!Jobs, DisplayCalm(job'),
         job'.who = "preview" => doc'.trial # Display!NoTrial,
         doc' \in DisplayDocs, rt' \in DisplayRts, docking' \in DisplayDockings, planner' \in DisplayPlanners,
         asks' \in 0..DisplayAsks, displaySpent' \in 0..DisplayEnv, displaySpent <= displaySpent', {expired', disturbed', tampered'} \subseteq BOOLEAN,
         tampered' => doc'.trial # Display!NoTrial, Display!TrialInv',
         UNCHANGED <<outs, xid, sleep, prefer>>
  PROVE  Display!DisplayIInv' /\ Display!KeepsFallback
<1>1. Display!ShapeInv /\ Display!MirrorsHaveSource
  BY DEF Display!DisplayIInv
<1>2. Display!ShapeInv'
  <2>1. xid' \in 1..(displaySpent' + 1)
    <3>1. displaySpent \in Nat /\ displaySpent' \in Nat /\ xid \in 1..(displaySpent + 1) /\ xid' = xid
      BY <1>1 DEF Display!ShapeInv
    <3> QED
      BY <3>1, DisplayLater
  <2> QED
    BY <1>1, <2>1 DEF Display!ShapeInv, DisplayDocs, DisplayRts, DisplayDockings, DisplayPlanners
<1>3. Display!WriterInv' /\ Display!RollbackDurable' /\ Display!MirrorsHaveSource'
  BY <1>1, DisplayCalmIsFine DEF Display!RollbackDurable, Display!MirrorsHaveSource
<1> QED
  BY <1>2, <1>3, DisplayOutputsStay DEF Display!DisplayIInv

LEMMA DisplayObservedIs ==
  ASSUME Display!ShapeInv
  PROVE  /\ Display!observed \in Display!LayoutSet /\ Display!Layouts \subseteq Display!LayoutSet
         /\ "external" \in DOMAIN Display!observed <=> "external" \in Display!Present
<1>1. Display!Present \in SUBSET Display!Names /\ \A n \in Display!Present : outs[n] \in Display!Settings
  BY DisplayOutsAre
<1>2. Display!observed \in [Display!Present -> Display!Settings] /\ DOMAIN Display!observed = Display!Present
  BY <1>1 DEF Display!observed
<1> QED
  BY <1>1, <1>2, DisplayLayoutsAre DEF Display!Layouts

\* A preview records what it may have to undo before it touches an output.
LEMMA DisplayPreviewKeeps ==
  ASSUME Display!DisplayConstantsOK, Display!DisplayIInv, NEW l \in Display!Layouts, Display!preview(l)
  PROVE  Display!DisplayIInv' /\ Display!KeepsFallback /\ Display!ConfirmedUndisturbed
<1>1. Display!ShapeInv /\ doc \in DisplayDocs /\ rt \in DisplayRts /\ docking \in DisplayDockings /\ planner \in DisplayPlanners
  BY DisplayShapes DEF Display!DisplayIInv
<1>2. asks' = asks + 1 /\ asks \in Nat /\ asks' \in 0..DisplayAsks /\ DisplayAsks \in Nat
  BY <1>1 DEF Display!preview, Display!Ask, Display!ShapeInv, Display!DisplayConstantsOK
<1>3. l \in Display!LayoutSet /\ Display!observed \in Display!LayoutSet /\ ("external" \in DOMAIN Display!observed <=> "external" \in Display!Present)
  BY <1>1, DisplayObservedIs
<1>4. Display!topology \in 0..xid /\ xid \in 1..(displaySpent + 1) /\ displaySpent \in Nat /\ sleep.gen \in Nat
  BY <1>1, DisplayShapes
<1>5. Display!topology # 0 <=> "external" \in Display!Present
  BY <1>4 DEF Display!topology
<1> DEFINE trial == [id |-> asks + 1, proposed |-> l, previous |-> Display!observed]
<1>6. /\ doc' = [doc EXCEPT !.trial = trial]
      /\ rt' = [rt EXCEPT !.trial = asks + 1, !.topology = Display!topology, !.applied = TRUE,
                          !.error = FALSE, !.resume = sleep.gen]
      /\ job' = [Display!NoJob EXCEPT !.who = "preview", !.at = "list", !.layout = l]
      /\ expired' = FALSE /\ disturbed' = FALSE
      /\ UNCHANGED <<outs, xid, sleep, prefer, planner, docking, tampered, displaySpent>>
  BY DEF Display!preview
<1>7. /\ trial \in [id : 0..DisplayAsks, proposed : Display!LayoutSet, previous : Display!LayoutSet]
      /\ trial.id = asks + 1 /\ trial.previous = Display!observed /\ trial # Display!NoTrial
  BY <1>2, <1>3 DEF Display!NoTrial
<1> HIDE DEF trial
<1>8. doc' \in DisplayDocs /\ doc'.trial = trial
  BY <1>1, <1>6, <1>7 DEF DisplayDocs
<1>9. /\ rt' \in DisplayRts /\ rt'.trial = asks + 1 /\ rt'.topology = Display!topology /\ rt'.resume = sleep.gen
  <2>1. asks + 1 \in 0..DisplayAsks /\ Display!topology \in Int
    BY <1>2, <1>4
  <2> QED
    BY <1>1, <1>4, <1>6, <2>1 DEF DisplayRts
<1>10. job' \in Display!Jobs /\ job'.at = "list" /\ job'.who = "preview"
  <2>1. Display!NoJob \in Display!Jobs
    BY DisplayNoJobIs
  <2> QED
    BY <1>3, <1>6, <2>1 DEF Display!Jobs
<1>11. Display!TrialInv'
  <2>1. rt'.topology \in 0..xid' /\ rt'.resume <= sleep'.gen
    BY <1>4, <1>6, <1>9
  <2>2. "external" \in DOMAIN doc'.trial.previous <=> rt'.topology # 0
    BY <1>3, <1>5, <1>7, <1>8, <1>9
  <2>3. doc'.trial.id \in 1..asks'
    BY <1>2, <1>7, <1>8
  <2> QED
    BY <1>6, <2>1, <2>2, <2>3 DEF Display!TrialInv
<1>12. Display!DisplayIInv' /\ Display!KeepsFallback
  <2>1. displaySpent' \in 0..DisplayEnv /\ displaySpent <= displaySpent' /\ {expired', disturbed', tampered'} \subseteq BOOLEAN
    <3>1. displaySpent \in 0..DisplayEnv /\ displaySpent' = displaySpent /\ {expired, disturbed, tampered} \subseteq BOOLEAN
      BY <1>1, <1>6 DEF Display!ShapeInv
    <3>2. tampered' \in BOOLEAN /\ expired' \in BOOLEAN /\ disturbed' \in BOOLEAN
      BY <1>6, <3>1
    <3>3. displaySpent' \in 0..DisplayEnv /\ displaySpent <= displaySpent'
      BY <3>1
    <3> QED
      BY <3>2, <3>3
  <2>2. doc'.trial # Display!NoTrial
    BY <1>7, <1>8
  <2>3. DisplayCalm(job')
    BY <1>10 DEF DisplayCalm
  <2>4. docking' \in DisplayDockings /\ planner' \in DisplayPlanners /\ UNCHANGED <<outs, xid, sleep, prefer>>
    BY <1>1, <1>6
  <2> QED
    BY <1>2, <1>8, <1>9, <1>10, <1>11, <2>1, <2>2, <2>3, <2>4, DisplayRequestKeeps
<1> QED
  BY <1>10, <1>12, DisplayNotConfirmed

LEMMA DisplayFinishKeeps ==
  ASSUME Display!DisplayConstantsOK, Display!DisplayIInv, NEW id, NEW confirm \in BOOLEAN, Display!finish(id, confirm)
  PROVE  Display!DisplayIInv' /\ Display!KeepsFallback /\ Display!ConfirmedUndisturbed
<1>1. /\ Display!ShapeInv /\ doc \in DisplayDocs /\ rt \in DisplayRts /\ docking \in DisplayDockings /\ planner \in DisplayPlanners
      /\ Display!TrialInv /\ Display!RollbackDurable
  BY DisplayShapes DEF Display!DisplayIInv
<1>2. asks' = asks + 1 /\ asks \in Nat /\ asks' \in 0..DisplayAsks /\ DisplayAsks \in Nat /\ doc.trial # Display!NoTrial
  BY <1>1 DEF Display!finish, Display!Ask, Display!ShapeInv, Display!DisplayConstantsOK
<1>3. UNCHANGED <<outs, xid, sleep, prefer, doc, rt, planner, docking, expired, disturbed, tampered, displaySpent>>
  BY DEF Display!finish
<1>4. job' \in Display!Jobs /\ job'.at \in {"list", "confirm"} /\ job'.who # "preview"
  <2>1. Display!connected(doc.trial.previous) \in Display!LayoutSet
    BY <1>1, DisplayConnectedIs DEF DisplayDocs
  <2>2. Display!NoJob \in Display!Jobs
    BY DisplayNoJobIs
  <2>3. CASE confirm
    BY <2>2, <2>3 DEF Display!finish, Display!Jobs
  <2>4. CASE ~confirm
    BY <2>1, <2>2, <2>4 DEF Display!finish, Display!Jobs
  <2> QED
    BY <2>3, <2>4
<1>5. Display!TrialInv'
  BY <1>1, <1>2, <1>3, DisplayTrialStays DEF Display!Present
<1>6. Display!DisplayIInv' /\ Display!KeepsFallback
  <2>1. displaySpent' \in 0..DisplayEnv /\ displaySpent <= displaySpent' /\ {expired', disturbed', tampered'} \subseteq BOOLEAN
    BY <1>1, <1>3 DEF Display!ShapeInv
  <2> QED
    BY <1>1, <1>2, <1>3, <1>4, <1>5, <2>1, DisplayRequestKeeps DEF DisplayCalm
<1> QED
  BY <1>4, <1>6, DisplayNotConfirmed

\* A confirmation is accepted only when nothing disturbed the preview: a sleep
\* shows in the resume generation, a lost output in the topology, a restart in
\* the trial RUNTIME no longer knows (Confirm).
LEMMA DisplayConfirmKeeps ==
  ASSUME Display!DisplayConstantsOK, Display!DisplayIInv, Display!Confirm
  PROVE  Display!DisplayIInv' /\ Display!KeepsFallback /\ Display!ConfirmedUndisturbed
<1>1. /\ Display!ShapeInv /\ planner \in DisplayPlanners /\ docking \in DisplayDockings /\ job \in Display!Jobs /\ Display!TrialInv /\ Display!WriterInv
      /\ sleep.gen \in Nat /\ xid \in 1..(displaySpent + 1) /\ displaySpent \in Nat /\ rt \in DisplayRts
  BY DisplayShapes DEF Display!DisplayIInv
<1>2. UNCHANGED <<outs, xid, sleep, prefer, doc, rt, planner, docking, expired, disturbed, tampered, asks, displaySpent>>
  BY DEF Display!Confirm
<1>3. displaySpent' \in 0..DisplayEnv /\ displaySpent <= displaySpent'
  BY <1>1, <1>2 DEF Display!ShapeInv
<1>4. job' \in Display!Jobs /\ job'.at \in {"save", "none"} /\ (job'.who = "preview" => job.who = "preview")
  <2>1. CASE job' = [job EXCEPT !.at = "save"]
    BY <1>1, <2>1 DEF Display!Jobs
  <2>2. CASE job' = Display!NoJob
    <3>1. Display!NoJob \in Display!Jobs /\ Display!NoJob.at = "none" /\ Display!NoJob.who = "none"
      BY DisplayNoJobIs DEF Display!NoJob
    <3> QED
      BY <2>2, <3>1
  <2> QED
    BY <2>1, <2>2 DEF Display!Confirm
<1>5. Display!WriterInv'
  BY <1>1, <1>2, <1>4, DisplayCalmIsFine DEF DisplayCalm, Display!WriterInv
<1>6. Display!DisplayIInv' /\ Display!KeepsFallback
  BY <1>1, <1>2, <1>3, <1>4, <1>5, DisplayJobChanges DEF DisplayPlanners, DisplayDockings
<1>7. Display!Confirmable => ~disturbed /\ Display!Shown(doc.trial.proposed)
  <2> SUFFICES ASSUME Display!Confirmable PROVE ~disturbed
    BY DEF Display!Confirmable
  <2>1. doc.trial # Display!NoTrial
    BY DEF Display!Confirmable, Display!validate, Display!NoTrial
  <2>2. /\ disturbed => \/ expired \/ sleep.preparing \/ sleep.gen > rt.resume
                        \/ rt.topology # 0 /\ ("external" \notin Display!Present \/ xid > rt.topology)
    BY <1>1, <2>1 DEF Display!Confirmable, Display!TrialInv
  <2>3. ~expired /\ ~sleep.preparing /\ sleep.gen = rt.resume /\ Display!topology = rt.topology
    BY DEF Display!Confirmable, Display!interrupted
  <2>4. ~(sleep.gen > rt.resume)
    BY <1>1, <2>3
  <2>5. rt.topology # 0 => "external" \in Display!Present /\ xid = rt.topology
    BY <2>3 DEF Display!topology
  <2>6. ~(xid > xid)
    BY <1>1
  <2> QED
    BY <2>2, <2>3, <2>4, <2>5, <2>6
<1>8. job'.at = "save" => Display!Confirmable
  <2>1. Display!NoJob.at # "save"
    BY DEF Display!NoJob
  <2> QED
    BY <2>1 DEF Display!Confirm
<1> QED
  BY <1>6, <1>7, <1>8 DEF Display!ConfirmedUndisturbed

LEMMA DisplayBudget ==
  ASSUME Display!DisplayConstantsOK, Display!ShapeInv, NEW b \in BOOLEAN, Display!Fault(b)
  PROVE  displaySpent' \in 0..DisplayEnv /\ displaySpent <= displaySpent'
BY DisplayBudgetStays

\* A kept layout is saved as it was shown, and its trial goes with it.
LEMMA DisplaySaveConfirmedKeeps ==
  ASSUME Display!DisplayConstantsOK, Display!DisplayIInv, Display!SaveConfirmed
  PROVE  Display!DisplayIInv' /\ Display!KeepsFallback /\ Display!ConfirmedUndisturbed
<1>1. /\ Display!ShapeInv /\ doc \in DisplayDocs /\ rt \in DisplayRts /\ docking \in DisplayDockings /\ planner \in DisplayPlanners
      /\ Display!TrialInv /\ Display!RollbackDurable /\ 0 \in 0..DisplayAsks /\ asks \in 0..DisplayAsks /\ asks \in Nat
      /\ {expired, disturbed, tampered} \subseteq BOOLEAN
  BY DisplayShapes DEF Display!DisplayIInv, Display!ShapeInv
<1>2. /\ UNCHANGED <<outs, xid, sleep, prefer, planner, expired, disturbed, asks>> /\ job' = Display!NoJob
  BY DEF Display!SaveConfirmed
<1>3. PICK failed \in BOOLEAN :
        /\ Display!Fault(failed)
        /\ IF failed THEN UNCHANGED <<doc, rt, docking, tampered>>
           ELSE /\ doc' = Display!Kept /\ rt' = [rt EXCEPT !.trial = 0, !.applied = TRUE, !.error = FALSE]
                /\ docking' = IF Display!Kept.manual THEN [docking EXCEPT !.state = "settled"] ELSE docking
                /\ tampered' = FALSE
  BY DEF Display!SaveConfirmed
<1>4. displaySpent' \in 0..DisplayEnv /\ displaySpent <= displaySpent'
  BY <1>1, <1>3, DisplayBudget
<1>5. job' \in Display!Jobs /\ DisplayCalm(job') /\ job'.who = "none" /\ job'.at = "none"
  BY <1>2, DisplayNoJobIs DEF DisplayCalm, Display!NoJob
<1>6. /\ doc' \in DisplayDocs /\ rt' \in DisplayRts /\ docking' \in DisplayDockings /\ tampered' \in BOOLEAN
      /\ (tampered' => doc'.trial # Display!NoTrial) /\ Display!TrialInv'
  <2>1. CASE failed
    <3>1. UNCHANGED <<doc, rt, docking, tampered>>
      BY <1>3, <2>1
    <3>2. Display!TrialInv'
      BY <1>1, <1>2, <3>1, DisplayTrialStays DEF Display!Present
    <3> QED
      BY <1>1, <3>1, <3>2 DEF Display!RollbackDurable
  <2>2. CASE ~failed
    <3>1. /\ doc' = Display!Kept /\ rt' = [rt EXCEPT !.trial = 0, !.applied = TRUE, !.error = FALSE]
          /\ docking' = IF Display!Kept.manual THEN [docking EXCEPT !.state = "settled"] ELSE docking
          /\ tampered' = FALSE
      BY <1>3, <2>2
    <3>2. Display!Kept \in DisplayDocs /\ Display!Kept.trial = Display!NoTrial
      <4> DEFINE m == doc.manual \/ \E n \in DOMAIN doc.trial.proposed \intersect DOMAIN doc.trial.previous :
                        (IF doc.trial.proposed[n] \in Display!Places THEN "own" ELSE doc.trial.proposed[n])
                          # (IF doc.trial.previous[n] \in Display!Places THEN "own" ELSE doc.trial.previous[n])
      <4>1. Display!Kept = [manual |-> m, saved |-> doc.trial.proposed, trial |-> Display!NoTrial]
        BY DEF Display!Kept
      <4>2. m \in BOOLEAN
        OBVIOUS
      <4> HIDE DEF m
      <4>3. doc.trial.proposed \in Display!LayoutSet
        BY <1>1 DEF DisplayDocs
      <4>4. Display!NoTrial \in [id : 0..DisplayAsks, proposed : Display!LayoutSet, previous : Display!LayoutSet]
        BY <1>1, DisplayLayoutsAre DEF Display!NoTrial
      <4> QED
        BY <4>1, <4>2, <4>3, <4>4 DEF DisplayDocs
    <3>3. rt' \in DisplayRts
      BY <1>1, <3>1 DEF DisplayRts
    <3>4. docking' \in DisplayDockings
      BY <1>1, <3>1 DEF DisplayDockings
    <3>5. Display!TrialInv'
      BY <3>1, <3>2 DEF Display!TrialInv
    <3> QED
      BY <3>1, <3>2, <3>3, <3>4, <3>5
  <2> QED
    BY <2>1, <2>2
<1>7. Display!DisplayIInv' /\ Display!KeepsFallback
  <2>1. {expired', disturbed', tampered'} \subseteq BOOLEAN /\ planner' \in DisplayPlanners /\ asks' \in 0..DisplayAsks
    BY <1>1, <1>2, <1>6
  <2> QED
    BY <1>2, <1>4, <1>5, <1>6, <2>1, DisplayRequestKeeps
<1> QED
  BY <1>5, <1>7, DisplayNotConfirmed

LEMMA DisplayAppliedKeeps ==
  ASSUME Display!DisplayConstantsOK, Display!DisplayIInv, Display!Applied
  PROVE  Display!DisplayIInv' /\ Display!KeepsFallback /\ Display!ConfirmedUndisturbed
<1>1. /\ Display!ShapeInv /\ doc \in DisplayDocs /\ rt \in DisplayRts /\ docking \in DisplayDockings /\ planner \in DisplayPlanners
      /\ Display!TrialInv /\ Display!RollbackDurable /\ 0 \in 0..DisplayAsks /\ asks \in 0..DisplayAsks /\ asks \in Nat
      /\ {expired, disturbed, tampered} \subseteq BOOLEAN
  BY DisplayShapes DEF Display!DisplayIInv, Display!ShapeInv
<1>2. UNCHANGED <<outs, xid, sleep, prefer, planner, expired, disturbed, asks>> /\ job.at = "applied"
  BY DEF Display!Applied
<1>3. PICK failed \in BOOLEAN :
        /\ Display!Fault(failed /\ job.who \in {"revert", "rollback"})
        /\ IF job.who \in {"revert", "rollback"} /\ ~failed
           THEN /\ doc' = [doc EXCEPT !.trial = Display!NoTrial] /\ tampered' = FALSE
                /\ rt' = [rt EXCEPT !.trial = 0, !.applied = TRUE,
                                    !.error = IF job.who = "revert" THEN FALSE ELSE @]
                /\ docking' = IF job.who = "revert" /\ doc.manual
                              THEN [docking EXCEPT !.state = "settled"] ELSE docking
           ELSE /\ rt' = IF job.who = "saved" THEN [rt EXCEPT !.error = FALSE] ELSE rt
                /\ UNCHANGED <<doc, tampered, docking>>
        /\ job' = IF job.who \in {"preview", "revert"} THEN Display!NoJob
                  ELSE Display!ToReconcile(job.who = "saved" \/ ~failed, job.who = "rollback" /\ failed)
  BY DEF Display!Applied
<1>4. displaySpent' \in 0..DisplayEnv /\ displaySpent <= displaySpent'
  <2>1. (failed /\ job.who \in {"revert", "rollback"}) \in BOOLEAN
    OBVIOUS
  <2> QED
    BY <1>1, <1>3, <2>1, DisplayBudget
<1>5. job' \in Display!Jobs /\ DisplayCalm(job') /\ job'.who # "preview" /\ job'.at # "save"
  <2>1. Display!NoJob \in Display!Jobs /\ DisplayCalm(Display!NoJob) /\ Display!NoJob.who # "preview" /\ Display!NoJob.at # "save"
    BY DisplayNoJobIs DEF Display!NoJob, DisplayCalm
  <2>2. \A ok, paused \in BOOLEAN : /\ Display!ToReconcile(ok, paused) \in Display!Jobs /\ DisplayCalm(Display!ToReconcile(ok, paused))
                                   /\ Display!ToReconcile(ok, paused).who # "preview" /\ Display!ToReconcile(ok, paused).at # "save"
    BY DisplayNoJobIs DEF Display!NoJob, Display!ToReconcile, DisplayCalm
  <2>3. (job.who = "saved" \/ ~failed) \in BOOLEAN /\ (job.who = "rollback" /\ failed) \in BOOLEAN
    OBVIOUS
  <2> QED
    BY <1>3, <2>1, <2>2, <2>3
<1>6. /\ doc' \in DisplayDocs /\ rt' \in DisplayRts /\ docking' \in DisplayDockings /\ tampered' \in BOOLEAN
      /\ (tampered' => doc'.trial # Display!NoTrial) /\ Display!TrialInv'
  <2>1. CASE job.who \in {"revert", "rollback"} /\ ~failed
    <3>1. Display!NoTrial \in [id : 0..DisplayAsks, proposed : Display!LayoutSet, previous : Display!LayoutSet]
      BY <1>1, DisplayLayoutsAre DEF Display!NoTrial
    <3>2. doc' = [doc EXCEPT !.trial = Display!NoTrial] /\ tampered' = FALSE
      BY <1>3, <2>1
    <3>3. doc' \in DisplayDocs /\ doc'.trial = Display!NoTrial
      BY <1>1, <3>1, <3>2 DEF DisplayDocs
    <3>4. rt' \in DisplayRts
      <4> DEFINE e == IF job.who = "revert" THEN FALSE ELSE rt.error
      <4>1. e \in BOOLEAN
        BY <1>1 DEF DisplayRts
      <4>2. rt' = [rt EXCEPT !.trial = 0, !.applied = TRUE, !.error = e]
        BY <1>1, <1>3, <2>1 DEF DisplayRts
      <4> HIDE DEF e
      <4> QED
        BY <1>1, <4>1, <4>2 DEF DisplayRts
    <3>5. docking' \in DisplayDockings
      BY <1>1, <1>3, <2>1 DEF DisplayDockings
    <3>6. Display!TrialInv'
      BY <3>3 DEF Display!TrialInv
    <3> QED
      BY <3>2, <3>3, <3>4, <3>5, <3>6
  <2>2. CASE ~(job.who \in {"revert", "rollback"} /\ ~failed)
    <3>1. UNCHANGED <<doc, tampered, docking>> /\ rt' = IF job.who = "saved" THEN [rt EXCEPT !.error = FALSE] ELSE rt
      BY <1>3, <2>2
    <3>2. rt' \in DisplayRts /\ rt'.trial = rt.trial /\ rt'.resume = rt.resume /\ rt'.topology = rt.topology
      BY <1>1, <3>1 DEF DisplayRts
    <3>3. Display!TrialInv'
      BY <1>1, <1>2, <3>1, <3>2, DisplayTrialStays DEF Display!Present
    <3> QED
      BY <1>1, <3>1, <3>2, <3>3 DEF Display!RollbackDurable
  <2> QED
    BY <2>1, <2>2
<1>7. Display!DisplayIInv' /\ Display!KeepsFallback
  <2>1. {expired', disturbed', tampered'} \subseteq BOOLEAN /\ planner' \in DisplayPlanners /\ asks' \in 0..DisplayAsks
    BY <1>1, <1>2, <1>6
  <2> QED
    BY <1>2, <1>4, <1>5, <1>6, <2>1, DisplayRequestKeeps
<1> QED
  BY <1>5, <1>7, DisplayNotConfirmed

LEMMA DisplayFailedKeeps ==
  ASSUME Display!DisplayConstantsOK, Display!DisplayIInv, Display!Failed
  PROVE  Display!DisplayIInv' /\ Display!KeepsFallback /\ Display!ConfirmedUndisturbed
<1>1. /\ Display!ShapeInv /\ doc \in DisplayDocs /\ rt \in DisplayRts /\ docking \in DisplayDockings /\ planner \in DisplayPlanners
      /\ Display!TrialInv /\ Display!RollbackDurable /\ 0 \in 0..DisplayAsks /\ asks \in 0..DisplayAsks /\ asks \in Nat
      /\ {expired, disturbed, tampered} \subseteq BOOLEAN
  BY DisplayShapes DEF Display!DisplayIInv, Display!ShapeInv
<1>2. UNCHANGED <<outs, xid, sleep, prefer, doc, planner, docking, expired, disturbed, tampered, asks, displaySpent>>
  BY DEF Display!Failed
<1>3. rt' \in DisplayRts /\ rt'.trial \in {0, rt.trial} /\ rt'.resume = rt.resume /\ rt'.topology = rt.topology
  <2>1. rt' \in {rt, [rt EXCEPT !.trial = 0], [rt EXCEPT !.error = TRUE]}
    BY DEF Display!Failed
  <2> QED
    BY <1>1, <2>1 DEF DisplayRts
<1>4. job' \in Display!Jobs /\ DisplayCalm(job') /\ job'.who # "preview" /\ job'.at # "save"
  <2>1. Display!NoJob \in Display!Jobs /\ DisplayCalm(Display!NoJob) /\ Display!NoJob.who # "preview" /\ Display!NoJob.at # "save"
    BY DisplayNoJobIs DEF Display!NoJob, DisplayCalm
  <2>2. /\ Display!ToReconcile(FALSE, TRUE) \in Display!Jobs /\ DisplayCalm(Display!ToReconcile(FALSE, TRUE))
        /\ Display!ToReconcile(FALSE, TRUE).who # "preview" /\ Display!ToReconcile(FALSE, TRUE).at # "save"
    BY DisplayNoJobIs DEF Display!NoJob, Display!ToReconcile, DisplayCalm
  <2> QED
    BY <2>1, <2>2 DEF Display!Failed
<1>5. Display!TrialInv'
  BY <1>1, <1>2, <1>3, DisplayTrialStays DEF Display!Present
<1>6. Display!DisplayIInv' /\ Display!KeepsFallback
  <2>1. displaySpent' \in 0..DisplayEnv /\ displaySpent <= displaySpent' /\ {expired', disturbed', tampered'} \subseteq BOOLEAN
    BY <1>1, <1>2 DEF Display!ShapeInv
  <2>2. tampered' => doc'.trial # Display!NoTrial
    BY <1>1, <1>2 DEF Display!RollbackDurable
  <2> QED
    BY <1>1, <1>2, <1>3, <1>4, <1>5, <2>1, <2>2, DisplayRequestKeeps
<1> QED
  BY <1>4, <1>6, DisplayNotConfirmed

\* What the monitor does about the saved layout.
LEMMA DisplaySavedIs ==
  ASSUME Display!DisplayConstantsOK, Display!ShapeInv, NEW r \in DisplayRts
  PROVE  /\ Display!apply_saved(r).rt \in DisplayRts /\ Display!apply_saved(r).job \in Display!Jobs /\ DisplayCalm(Display!apply_saved(r).job)
         /\ Display!apply_saved(r).job.who # "preview" /\ Display!apply_saved(r).job.at # "save"
<1> DEFINE try == ~r.applied /\ doc.saved # Display!NoLayout
           l == Display!restoration
           enabled == \E n \in DOMAIN l : l[n] # "off"
           tried == [r EXCEPT !.applied = TRUE, !.error = (enabled /\ ~Display!validate(l))]
           saved == [Display!NoJob EXCEPT !.who = "saved", !.at = "list", !.layout = l]
           q == IF try THEN tried ELSE r
<1>1. /\ Display!apply_saved(r).rt \in {r, tried, q}
      /\ Display!apply_saved(r).job \in {Display!ToReconcile(TRUE, TRUE), saved, Display!ToReconcile(~q.error, q.error)}
  BY DEF Display!apply_saved
<1>2. tried \in DisplayRts
  <2>1. (enabled /\ ~Display!validate(l)) \in BOOLEAN
    OBVIOUS
  <2> QED
    BY <2>1 DEF DisplayRts
<1>3. q \in DisplayRts /\ q.error \in BOOLEAN
  <2>1. q \in DisplayRts
    BY <1>2
  <2> HIDE DEF q
  <2> QED
    BY <2>1 DEF DisplayRts
<1>4. saved \in Display!Jobs /\ DisplayCalm(saved) /\ saved.who # "preview" /\ saved.at # "save"
  <2>1. Display!NoJob \in Display!Jobs
    BY DisplayNoJobIs
  <2>2. l \in Display!LayoutSet
    BY DisplayRestorationIs
  <2> HIDE DEF l
  <2>3. saved \in Display!Jobs /\ saved.who = "saved" /\ saved.at = "list"
    BY <2>1, <2>2 DEF Display!Jobs
  <2> QED
    BY <2>3 DEF DisplayCalm
<1> HIDE DEF tried, saved, q
<1>5. \A ok, paused \in BOOLEAN : /\ Display!ToReconcile(ok, paused) \in Display!Jobs /\ DisplayCalm(Display!ToReconcile(ok, paused))
                                 /\ Display!ToReconcile(ok, paused).who # "preview" /\ Display!ToReconcile(ok, paused).at # "save"
  BY DisplayNoJobIs DEF Display!NoJob, Display!ToReconcile, DisplayCalm
<1>6. Display!apply_saved(r).rt \in DisplayRts
  BY <1>1, <1>2, <1>3
<1> HIDE DEF try, l, enabled
<1>7. \A j \in {Display!ToReconcile(TRUE, TRUE), saved, Display!ToReconcile(~q.error, q.error)} :
        j \in Display!Jobs /\ DisplayCalm(j) /\ j.who # "preview" /\ j.at # "save"
  BY <1>3, <1>4, <1>5
<1> QED
  BY <1>1, <1>6, <1>7

LEMMA DisplayTickKeeps ==
  ASSUME Display!DisplayConstantsOK, Display!DisplayIInv, Display!tick
  PROVE  Display!DisplayIInv' /\ Display!KeepsFallback /\ Display!ConfirmedUndisturbed
<1>1. /\ Display!ShapeInv /\ doc \in DisplayDocs /\ rt \in DisplayRts /\ docking \in DisplayDockings /\ planner \in DisplayPlanners
      /\ Display!TrialInv /\ Display!RollbackDurable /\ 0 \in 0..DisplayAsks /\ asks \in 0..DisplayAsks /\ asks \in Nat
      /\ {expired, disturbed, tampered} \subseteq BOOLEAN /\ sleep.gen \in Nat /\ Display!topology \in 0..xid
      /\ xid \in 1..(displaySpent + 1) /\ displaySpent \in Nat /\ 0 \in Display!Numbers
  BY DisplayShapes DEF Display!DisplayIInv, Display!ShapeInv
<1>2. UNCHANGED <<outs, xid, sleep, prefer, doc, docking, expired, disturbed, tampered, asks, displaySpent>>
  BY DEF Display!tick
<1>3. planner' \in DisplayPlanners
  BY <1>1 DEF Display!tick, Display!NewPlanner, DisplayPlanners
<1>4. \A ok, paused \in BOOLEAN : /\ Display!ToReconcile(ok, paused) \in Display!Jobs /\ DisplayCalm(Display!ToReconcile(ok, paused))
                                 /\ Display!ToReconcile(ok, paused).who # "preview" /\ Display!ToReconcile(ok, paused).at # "save"
  BY DisplayNoJobIs DEF Display!NoJob, Display!ToReconcile, DisplayCalm
<1>5. /\ rt' \in DisplayRts /\ job' \in Display!Jobs /\ DisplayCalm(job') /\ job'.who # "preview" /\ job'.at # "save"
      /\ doc.trial # Display!NoTrial => rt'.trial \in {0, rt.trial} /\ rt'.resume = rt.resume /\ rt'.topology = rt.topology
  <2>1. CASE sleep.preparing
    <3>1. rt' = [rt EXCEPT !.trial = 0] /\ job' = Display!ToReconcile(TRUE, TRUE)
      BY <2>1 DEF Display!tick
    <3>2. rt' \in DisplayRts /\ rt'.trial = 0 /\ rt'.resume = rt.resume /\ rt'.topology = rt.topology
      BY <1>1, <3>1 DEF DisplayRts
    <3> QED
      BY <1>4, <3>1, <3>2
  <2>2. CASE ~sleep.preparing /\ doc.trial # Display!NoTrial
    <3> DEFINE back == [Display!NoJob EXCEPT !.who = "rollback", !.at = "list", !.layout = Display!connected(doc.trial.previous)]
    <3>1. rt' = rt /\ job' \in {Display!ToReconcile(TRUE, TRUE), back}
      BY <2>2 DEF Display!tick
    <3>2. back \in Display!Jobs /\ back.who = "rollback" /\ back.at = "list"
      <4>1. Display!NoJob \in Display!Jobs
        BY DisplayNoJobIs
      <4>2. Display!connected(doc.trial.previous) \in Display!LayoutSet
        BY <1>1, DisplayConnectedIs DEF DisplayDocs
      <4> QED
        BY <4>1, <4>2 DEF Display!Jobs
    <3> HIDE DEF back
    <3> QED
      BY <1>1, <1>4, <3>1, <3>2 DEF DisplayCalm
  <2>3. CASE ~sleep.preparing /\ ~(doc.trial # Display!NoTrial)
    <3> DEFINE r == IF Display!topology # rt.topology \/ rt.resume # sleep.gen
                    THEN [rt EXCEPT !.topology = Display!topology, !.resume = sleep.gen, !.due = FALSE,
                                    !.applied = FALSE, !.error = FALSE]
                    ELSE rt
    <3>1. rt' = Display!apply_saved(r).rt /\ job' = Display!apply_saved(r).job
      BY <2>3 DEF Display!tick
    <3>2. r \in DisplayRts
      <4>1. Display!topology \in Int
        BY <1>1
      <4> QED
        BY <1>1, <4>1 DEF DisplayRts
    <3> HIDE DEF r
    <3> QED
      BY <1>1, <2>3, <3>1, <3>2, DisplaySavedIs
  <2> QED
    BY <2>1, <2>2, <2>3
<1>6. Display!TrialInv'
  <2>1. CASE doc.trial # Display!NoTrial
    BY <1>1, <1>2, <1>5, <2>1, DisplayTrialStays DEF Display!Present
  <2>2. CASE doc.trial = Display!NoTrial
    BY <1>2, <2>2 DEF Display!TrialInv
  <2> QED
    BY <2>1, <2>2
<1>7. Display!DisplayIInv' /\ Display!KeepsFallback
  <2>1. displaySpent' \in 0..DisplayEnv /\ displaySpent <= displaySpent' /\ {expired', disturbed', tampered'} \subseteq BOOLEAN
    BY <1>1, <1>2 DEF Display!ShapeInv
  <2>2. tampered' => doc'.trial # Display!NoTrial
    BY <1>1, <1>2 DEF Display!RollbackDurable
  <2> QED
    BY <1>1, <1>2, <1>3, <1>5, <1>6, <2>1, <2>2, DisplayRequestKeeps
<1> QED
  BY <1>5, <1>7, DisplayNotConfirmed

\* Nothing happens.
LEMMA DisplayStutters ==
  ASSUME Display!DisplayIInv, UNCHANGED Display!displayVars
  PROVE  Display!DisplayIInv' /\ Display!KeepsFallback /\ Display!ConfirmedUndisturbed
<1>1. Display!DisplayIInv'
  BY DEF Display!displayVars, Display!DisplayIInv, Display!ShapeInv, Display!WriterInv, Display!TrialInv, Display!RollbackDurable, Display!MirrorsHaveSource, Display!Checked,
         Display!HasMirror, Display!Present
<1>2. outs' = outs /\ job'.at = job.at
  BY DEF Display!displayVars
<1> QED
  BY <1>1, <1>2, DisplayOutputsStay DEF Display!ConfirmedUndisturbed

LEMMA DisplayNextKeeps ==
  ASSUME Display!DisplayConstantsOK, Display!DisplayIInv, [Display!DisplayNext]_(Display!displayVars)
  PROVE  Display!DisplayIInv' /\ Display!KeepsFallback /\ Display!ConfirmedUndisturbed
<1>1. CASE Display!ClientAsks
  BY <1>1, DisplaySetKeeps, DisplayPreviewKeeps, DisplayFinishKeeps DEF Display!ClientAsks
<1>2. CASE Display!JobSteps
  BY <1>2, DisplayApplyKeeps, DisplayApplySettingKeeps, DisplayConfigureKeeps, DisplayReleaseKeeps, DisplayConfirmKeeps, DisplaySaveConfirmedKeeps,
     DisplayAppliedKeeps, DisplayFailedKeeps, DisplayReconcileKeeps, DisplayTargetKeeps, DisplaySwitchKeeps, DisplayPassEndsKeep DEF Display!JobSteps
<1>3. CASE Display!tick
  BY <1>3, DisplayTickKeeps
<1>4. CASE Display!Clocks \/ Display!PrepareForSleep
  BY <1>4, DisplayClocksKeep DEF Display!Clocks
<1>5. CASE Display!Hotplug
  BY <1>5, DisplayHotplugKeeps
<1>6. CASE Display!Restart
  BY <1>6, DisplayRestartKeeps
<1>7. CASE Display!TimedOut
  BY <1>7, DisplayPassEndsKeep
<1>8. CASE UNCHANGED Display!displayVars
  BY <1>8, DisplayStutters
<1> QED
  BY <1>1, <1>2, <1>3, <1>4, <1>5, <1>6, <1>7, <1>8 DEF Display!DisplayNext

LEMMA DisplaySafeFollows == ASSUME Display!DisplayConstantsOK, Display!DisplayIInv PROVE Display!DisplayTypeOK /\ Display!DisplaySafe
<1>1. Display!ShapeInv
  BY DEF Display!DisplayIInv
<1>2. DisplayEnv \in Nat /\ displaySpent \in 0..DisplayEnv /\ xid \in 1..(displaySpent + 1)
  BY <1>1 DEF Display!DisplayConstantsOK, Display!ShapeInv
<1>3. xid \in 1..(DisplayEnv + 1)
  <2>1. displaySpent \in Nat /\ displaySpent <= DisplayEnv
    BY <1>2
  <2> QED
    BY <1>2, <2>1, DisplayLater
<1>4. planner.candidate \in 0..(DisplayEnv + 1) /\ rt.trial \in 0..DisplayAsks
  BY <1>1 DEF Display!ShapeInv, Display!Numbers
<1>5. Display!DisplayTypeOK
  BY <1>1, <1>3, <1>4 DEF Display!ShapeInv, Display!DisplayTypeOK
<1> QED
  BY <1>5 DEF Display!DisplayIInv, Display!DisplaySafe

HIDE DEF outs, xid, sleep, prefer, doc, rt, planner, docking, job, expired, disturbed, tampered, asks, displaySpent

-----------------------------------------------------------------------------
(* Workspaces and their journal (WorkspaceLifecycle).                         *)

\* The variables of WorkspaceLifecycle.
desk == r1
journal == r2
workspaceDisk == r3
poisoned == r4
workspaceOp == r5
watchers == r6
intake == r7
pins == r8
grace == r9
workspaceSent == r10
used == r11
turns == r12
USE DEF desk, journal, workspaceDisk, poisoned, workspaceOp, watchers, intake, pins, grace, workspaceSent, used, turns

\* The absent record is none of the records a journal or the mutex holds.
LEMMA WorkspaceNoneIs ==
  /\ Workspace!None \notin Workspace!Entry /\ Workspace!None \notin Workspace!Reservation /\ Workspace!None \notin Workspace!Close /\ Workspace!None \notin Workspace!Handoff
  /\ Workspace!None \notin Workspace!Steps
<1>1. DOMAIN Workspace!None = {"none"}
  BY DEF Workspace!None
<1>2. \A r \in Workspace!Entry : "gen" \in DOMAIN r
  BY DEF Workspace!Entry
<1>3. \A r \in Workspace!Reservation : "purpose" \in DOMAIN r
  BY DEF Workspace!Reservation
<1>4. \A r \in Workspace!Close : "targets" \in DOMAIN r
  BY DEF Workspace!Close
<1>5. \A r \in Workspace!Handoff : "window" \in DOMAIN r
  BY DEF Workspace!Handoff
<1>6. \A r \in Workspace!Steps : "kind" \in DOMAIN r
  BY DEF Workspace!Steps
<1> QED
  BY <1>1, <1>2, <1>3, <1>4, <1>5, <1>6

\* Among workspaces there is a first and a last one.
LEMMA WorkspaceBoundsAre ==
  ASSUME Workspace!WorkspaceConstantsOK, NEW S, S \subseteq Workspace!Spaces, S # {}
  PROVE  /\ Workspace!Max(S) \in S /\ \A y \in S : Workspace!Max(S) >= y
         /\ Workspace!Min(S) \in S /\ \A y \in S : Workspace!Min(S) <= y
<1> DEFINE T == {n \in Nat : n <= WorkspaceIds /\ WorkspaceIds - n \in S}
<1>1. \A y \in S : y \in Nat /\ y <= WorkspaceIds /\ WorkspaceIds - y \in Nat /\ WorkspaceIds - y <= WorkspaceIds /\ WorkspaceIds - (WorkspaceIds - y) = y
  BY DEF Workspace!Spaces, Workspace!WorkspaceConstantsOK
<1>2. \A y \in S : WorkspaceIds - y \in T
  <2>1. ASSUME NEW y \in S PROVE WorkspaceIds - y \in T
    <3> DEFINE x == WorkspaceIds - y
    <3>1. x \in Nat /\ x <= WorkspaceIds /\ WorkspaceIds - x = y
      BY <1>1
    <3> HIDE DEF x
    <3>2. x \in T
      BY <3>1
    <3> QED
      BY <3>2 DEF x
  <2> QED
    BY <2>1
<1>3. PICK n \in T : \A m \in T : n <= m
  <2> HIDE DEF T
  <2>1. T \subseteq Nat /\ T # {}
    BY <1>2 DEF T
  <2> QED
    BY <2>1, PopupsLeastNat
<1>4. WorkspaceIds - n \in S /\ \A y \in S : WorkspaceIds - n >= y
  <2>1. ASSUME NEW y \in S PROVE WorkspaceIds - n >= y
    <3>1. n \in Nat /\ WorkspaceIds \in Nat /\ n <= WorkspaceIds - y
      <4> HIDE DEF T
      <4>1. n \in Nat
        BY DEF T
      <4> QED
        BY <4>1, <1>2, <1>3 DEF Workspace!WorkspaceConstantsOK
    <3> QED
      BY <3>1, <1>1
  <2> QED
    BY <2>1, <1>3
<1>5. Workspace!Max(S) \in S /\ \A y \in S : Workspace!Max(S) >= y
  BY <1>4 DEF Workspace!Max
<1>6. PICK m \in S : \A y \in S : m <= y
  BY <1>1, PopupsLeastNat
<1>7. Workspace!Min(S) \in S /\ \A y \in S : Workspace!Min(S) <= y
  BY <1>6 DEF Workspace!Min
<1> QED
  BY <1>5, <1>7

\* The id allocated is above every live workspace and the watermark.
LEMMA WorkspaceAllocateIs ==
  ASSUME Workspace!WorkspaceConstantsOK, NEW j \in Workspace!Journal, NEW d \in Workspace!Desk
  PROVE  Workspace!allocate(j, d) \in Nat /\ Workspace!allocate(j, d) > j.high /\ Workspace!allocate(j, d) >= 2
<1>1. Workspace!Live(d) \cup {j.high} \subseteq Workspace!Spaces
  BY DEF Workspace!Live, Workspace!Desk, Workspace!Journal, Workspace!Spaces, Workspace!WorkspaceConstantsOK
<1> DEFINE S == Workspace!Live(d) \cup {j.high}
<1>2. j.high \in S /\ S \subseteq Workspace!Spaces
  BY <1>1
<1> HIDE DEF S
<1>3. Workspace!Max(S) \in S /\ Workspace!Max(S) >= j.high
  BY <1>2, WorkspaceBoundsAre
<1> QED
  BY <1>2, <1>3 DEF S, Workspace!allocate, Workspace!Spaces, Workspace!Journal, Workspace!WorkspaceConstantsOK

\* A journal i that goes on from j: nothing admitted, attempted or kept is taken
\* back, and a new reservation of a user comes with its entry.
WorkspaceFollows(i, j) ==
    /\ i \in Workspace!Journal /\ i.high >= j.high
    /\ \A k \in Keys : Workspace!Held(i.handoffs, k) => Workspace!Held(i.reservations, k)
    /\ \A k \in Keys : Workspace!Held(j.reservations, k) =>
          /\ Workspace!Held(i.reservations, k) /\ i.reservations[k].purpose = j.reservations[k].purpose
          /\ i.reservations[k].id = j.reservations[k].id
          /\ i.reservations[k].status = "reserved" => j.reservations[k].status = "reserved"
    /\ \A k \in Keys : Workspace!Held(i.reservations, k) /\ ~Workspace!Held(j.reservations, k) /\ i.reservations[k].purpose = "pad" =>
          LET id == i.reservations[k].id
          IN id \in Workspace!Ids /\ id <= i.high /\ Workspace!Held(i.entries, id) /\ i.entries[id].keep
    /\ \A k \in Keys : Workspace!Held(j.closes, k) =>
          Workspace!Held(i.closes, k) /\ i.closes[k].id = j.closes[k].id /\ j.closes[k].attempted \subseteq i.closes[k].attempted
    /\ \A id \in Workspace!Ids : Workspace!Held(j.entries, id) /\ j.entries[id].keep /\ id <= j.high =>
          Workspace!Closed(i, id) \/ (Workspace!Held(i.entries, id) /\ i.entries[id].keep)

LEMMA WorkspaceFollowsKept == ASSUME NEW j, NEW i, Workspace!Kept(j), WorkspaceFollows(i, j) PROVE Workspace!Kept(i)
<1>1. i \in Workspace!Journal /\ j \in Workspace!Journal
  BY DEF Workspace!Kept, WorkspaceFollows
<1>2. \A id : Workspace!Closed(j, id) => Workspace!Closed(i, id)
  BY DEF Workspace!Closed, WorkspaceFollows
<1>3. i.high \in Nat /\ j.high \in Nat /\ i.high >= j.high
  BY <1>1 DEF Workspace!Journal, Workspace!Spaces, WorkspaceFollows
<1>4. ASSUME NEW k \in Keys, Workspace!Held(i.reservations, k), i.reservations[k].purpose = "pad"
      PROVE  LET id == i.reservations[k].id
             IN id \in Workspace!Ids /\ id <= i.high /\ (Workspace!Closed(i, id) \/ (Workspace!Held(i.entries, id) /\ i.entries[id].keep))
  <2>1. CASE ~Workspace!Held(j.reservations, k)
    BY <1>4, <2>1 DEF WorkspaceFollows
  <2>2. CASE Workspace!Held(j.reservations, k)
    <3> DEFINE id == i.reservations[k].id
    <3>1. id \in Workspace!Ids /\ id <= j.high /\ (Workspace!Closed(j, id) \/ (Workspace!Held(j.entries, id) /\ j.entries[id].keep))
      BY <1>4, <2>2 DEF WorkspaceFollows, Workspace!Kept
    <3>2. id <= i.high
      BY <3>1, <1>3 DEF Workspace!Ids
    <3>3. Workspace!Closed(i, id) \/ (Workspace!Held(i.entries, id) /\ i.entries[id].keep)
      BY <3>1, <1>2 DEF WorkspaceFollows
    <3> QED
      BY <3>1, <3>2, <3>3
  <2> QED
    BY <2>1, <2>2
<1>5. ASSUME NEW k \in Keys
      PROVE  /\ workspaceSent[k].moves = 1 => Workspace!Held(i.reservations, k) /\ i.reservations[k].status # "reserved"
             /\ workspaceSent[k].closed # {} => Workspace!Held(i.closes, k) /\ workspaceSent[k].closed \subseteq i.closes[k].attempted
  BY DEF WorkspaceFollows, Workspace!Kept
<1>6. \A k \in Keys : Workspace!Held(i.handoffs, k) => Workspace!Held(i.reservations, k)
  BY DEF WorkspaceFollows
<1> QED
  BY <1>1, <1>4, <1>5, <1>6 DEF Workspace!Kept

\* What a save leaves, with the call that goes on when it succeeds.
LEMMA WorkspaceSaveKeeps ==
  ASSUME Workspace!WorkspaceConstantsOK, Workspace!Shapes, Workspace!FileInv, NEW j, NEW next, Workspace!Save(j, next), WorkspaceFollows(j, journal), workspaceSent' = workspaceSent,
         \A id \in Workspace!Ids : used'[id] = 1 => used[id] = 1 \/ (~poisoned' /\ id <= j.high),
         \A k \in watchers' : k \in Keys /\ Workspace!Held(j.closes, k)
  PROVE  /\ Workspace!FileInv' /\ journal' = j /\ poisoned' \in BOOLEAN /\ turns' \in 0..WorkspaceEnv
         /\ workspaceOp' = Workspace!None \/ workspaceOp' = next
<1>1. Workspace!Kept(j) /\ journal' = j /\ ~poisoned
  BY WorkspaceFollowsKept DEF Workspace!FileInv, Workspace!Save
<1>2. Workspace!Kept(journal)'
  BY <1>1 DEF Workspace!Kept
<1>3. CASE workspaceDisk' = j /\ workspaceOp' = next /\ UNCHANGED <<poisoned, turns>>
  <2>1. Workspace!Kept(workspaceDisk)'
    BY <1>1, <1>3 DEF Workspace!Kept
  <2>2. \A id \in Workspace!Ids : used'[id] = 1 => id <= workspaceDisk'.high
    <3>1. workspaceDisk.high \in Nat /\ j.high \in Nat /\ workspaceDisk.high <= j.high /\ \A id \in Workspace!Ids : id \in Nat
      BY <1>1 DEF Workspace!FileInv, Workspace!Kept, WorkspaceFollows, Workspace!Journal, Workspace!Spaces, Workspace!Ids
    <3> QED
      BY <3>1, <1>3 DEF Workspace!FileInv
  <2>3. \A k \in watchers' : k \in Keys /\ Workspace!Held(journal'.closes, k)
    BY <1>1
  <2> QED
    BY <1>1, <1>2, <1>3, <2>1, <2>2, <2>3 DEF Workspace!FileInv, Workspace!Shapes
<1>4. CASE Workspace!Spend /\ poisoned' = TRUE /\ workspaceOp' = Workspace!None /\ UNCHANGED workspaceDisk
  <2>1. Workspace!Kept(workspaceDisk)'
    BY <1>4 DEF Workspace!Kept, Workspace!FileInv
  <2>2. turns' \in 0..WorkspaceEnv
    BY <1>4 DEF Workspace!Spend, Workspace!Shapes, Workspace!WorkspaceConstantsOK
  <2>3. \A k \in watchers' : k \in Keys /\ Workspace!Held(journal'.closes, k)
    BY <1>1
  <2>4. \A id \in Workspace!Ids : used'[id] = 1 => id <= workspaceDisk'.high
    BY <1>4 DEF Workspace!FileInv
  <2> QED
    BY <1>1, <1>2, <1>4, <2>1, <2>2, <2>3, <2>4 DEF Workspace!FileInv
<1> QED
  BY <1>3, <1>4 DEF Workspace!Save

\* A change in memory alone: entries and observers.
LEMMA WorkspaceMemoryKeeps ==
  ASSUME Workspace!Shapes, Workspace!FileInv, ~poisoned, NEW j, journal' = j, WorkspaceFollows(j, journal), workspaceSent' = workspaceSent, used' = used,
         UNCHANGED <<workspaceDisk, poisoned, watchers>>, j.reservations = journal.reservations,
         j.closes = journal.closes, j.high = journal.high
  PROVE  Workspace!FileInv'
<1>1. Workspace!Kept(j)
  BY WorkspaceFollowsKept DEF Workspace!FileInv
<1>2. Workspace!Kept(journal)' /\ Workspace!Kept(workspaceDisk)'
  BY <1>1 DEF Workspace!Kept, Workspace!FileInv
<1> QED
  BY <1>2 DEF Workspace!FileInv

\* Neither journal changes.
LEMMA WorkspaceFilesStay ==
  ASSUME Workspace!FileInv, UNCHANGED <<journal, workspaceDisk, poisoned, workspaceSent, used>>, poisoned => workspaceOp' = Workspace!None,
         \A k \in watchers' : k \in watchers
  PROVE  Workspace!FileInv'
<1>1. Workspace!Kept(journal)' /\ Workspace!Kept(workspaceDisk)'
  BY DEF Workspace!Kept, Workspace!FileInv
<1> QED
  BY <1>1 DEF Workspace!FileInv

\* The fields of a journal, and the records a function of it may hold.
LEMMA WorkspaceJournalIs ==
  /\ \A j \in Workspace!Journal :
        /\ j.high \in Workspace!Spaces /\ j.entries \in [Workspace!Ids -> Workspace!Entry \cup {Workspace!None}]
        /\ j.reservations \in [Keys -> Workspace!Reservation \cup {Workspace!None}] /\ j.closes \in [Keys -> Workspace!Close \cup {Workspace!None}]
        /\ j.handoffs \in [Keys -> Workspace!Handoff \cup {Workspace!None}]
        /\ \A k \in Keys : Workspace!Held(j.reservations, k) => j.reservations[k] \in Workspace!Reservation
        /\ \A k \in Keys : Workspace!Held(j.closes, k) => j.closes[k] \in Workspace!Close
        /\ \A k \in Keys : Workspace!Held(j.handoffs, k) => j.handoffs[k] \in Workspace!Handoff
        /\ \A i \in Workspace!Ids : Workspace!Held(j.entries, i) => j.entries[i] \in Workspace!Entry
  /\ \A h, e, r, c, o : h \in Workspace!Spaces /\ e \in [Workspace!Ids -> Workspace!Entry \cup {Workspace!None}] /\ r \in [Keys -> Workspace!Reservation \cup {Workspace!None}]
        /\ c \in [Keys -> Workspace!Close \cup {Workspace!None}] /\ o \in [Keys -> Workspace!Handoff \cup {Workspace!None}]
        => [high |-> h, entries |-> e, reservations |-> r, closes |-> c, handoffs |-> o] \in Workspace!Journal
BY DEF Workspace!Journal, Workspace!Held

\* What holds of the journal and the file at every step.
LEMMA WorkspaceFiles == ASSUME Workspace!IInv
  PROVE /\ journal \in Workspace!Journal /\ workspaceDisk \in Workspace!Journal /\ desk \in Workspace!Desk /\ Workspace!Kept(journal) /\ Workspace!Kept(workspaceDisk)
        /\ workspaceOp # Workspace!None => ~poisoned
BY DEF Workspace!IInv, Workspace!FileInv, Workspace!Kept, Workspace!Shapes

\* Nobody holds the mutex: nothing is promised.
LEMMA WorkspaceNobody == ASSUME workspaceOp' = Workspace!None PROVE Workspace!HolderInv' /\ Workspace!NoRevival' /\ workspaceOp' \in Workspace!Steps \cup {Workspace!None}
BY DEF Workspace!HolderInv, Workspace!NoRevival

LEMMA WorkspaceInitHolds == ASSUME Workspace!WorkspaceConstantsOK, Workspace!Init PROVE Workspace!IInv
<1>1. Workspace!Empty \in Workspace!Journal /\ desk \in Workspace!Desk
  <2>1. 1 \in Workspace!Spaces /\ 0 \in 0..WorkspaceIds /\ 1 \in 0..WorkspaceIds
    BY DEF Workspace!Spaces, Workspace!WorkspaceConstantsOK
  <2>2. PICK open \in Windows : desk = [active |-> 1, at |-> [w \in Windows |-> IF w = open THEN 1 ELSE 0]]
    BY DEF Workspace!Init
  <2>3. [w \in Windows |-> IF w = open THEN 1 ELSE 0] \in [Windows -> 0..WorkspaceIds]
    BY <2>1
  <2> QED
    BY <2>1, <2>2, <2>3, WorkspaceJournalIs DEF Workspace!Empty, Workspace!Desk
<1>2. Workspace!Kept(journal) /\ Workspace!Kept(workspaceDisk)
  BY <1>1 DEF Workspace!Init, Workspace!Kept, Workspace!Empty, Workspace!Held
<1>3. Workspace!Shapes
  <2>1. 0 \in 0..WorkspaceEnv /\ 0 \in 0..1
    BY DEF Workspace!WorkspaceConstantsOK
  <2> QED
    BY <1>1, <2>1 DEF Workspace!Init, Workspace!Shapes, Workspace!NoEvents, Workspace!Quiet
<1> QED
  BY <1>2, <1>3 DEF Workspace!Init, Workspace!IInv, Workspace!FileInv, Workspace!HolderInv, Workspace!NoRevival

-----------------------------------------------------------------------------

LEMMA WorkspaceCreateKeeps ==
  ASSUME Workspace!WorkspaceConstantsOK, Workspace!IInv, NEW k \in Keys, NEW purpose \in {"pad", "launch"}, NEW dest \in Workspace!Spaces \cup {0},
         Workspace!create(k, purpose, dest)
  PROVE  Workspace!IInv'
<1> DEFINE id == IF dest = 0 THEN Workspace!allocate(journal, desk) ELSE dest
           gen == IF id \in Workspace!Ids /\ Workspace!Held(journal.entries, id) THEN journal.entries[id].gen ELSE k
           entry == [gen |-> gen, occupied |-> FALSE, pad |-> purpose = "pad", keep |-> purpose = "pad"]
           r == [purpose |-> purpose, fresh |-> dest = 0, id |-> id, gen |-> gen, released |-> purpose = "pad", status |-> "reserved"]
           j == [journal EXCEPT !.high = IF dest = 0 THEN id ELSE @, !.reservations[k] = r,
                                !.entries = IF dest = 0 THEN [@ EXCEPT ![id] = entry] ELSE @]
           next == IF purpose = "pad" THEN [kind |-> "create", key |-> k, at |-> "focus", from |-> desk.active] ELSE Workspace!None
<1>1. /\ workspaceOp = Workspace!None /\ ~poisoned /\ ~Workspace!Held(journal.reservations, k) /\ id <= WorkspaceIds /\ Workspace!Save(j, next)
      /\ used' = IF dest = 0 /\ ~poisoned' THEN [used EXCEPT ![id] = @ + 1] ELSE used
      /\ UNCHANGED <<desk, watchers, intake, pins, grace, workspaceSent>>
      /\ purpose = "pad" => dest = 0
  BY DEF Workspace!create, Workspace!Free, Workspace!admit
<1>2. id \in Workspace!Spaces /\ (dest = 0 => id \in Workspace!Ids /\ id > journal.high /\ id \in Nat)
  <2>1. dest = 0 => id \in Nat /\ id > journal.high /\ id >= 2
    BY WorkspaceAllocateIs, WorkspaceFiles
  <2> QED
    BY <1>1, <2>1 DEF Workspace!Spaces, Workspace!Ids, Workspace!WorkspaceConstantsOK
<1>3. gen \in Keys \cup {"fallback"} /\ entry \in Workspace!Entry /\ r \in Workspace!Reservation
  <2>1. gen \in Keys \cup {"fallback"}
    <3>1. id \in Workspace!Ids /\ Workspace!Held(journal.entries, id) => journal.entries[id].gen \in Keys \cup {"fallback"}
      BY WorkspaceJournalIs, WorkspaceFiles DEF Workspace!Entry
    <3> QED
      BY <3>1
  <2> HIDE DEF gen
  <2>2. entry \in Workspace!Entry
    BY <2>1 DEF Workspace!Entry
  <2> HIDE DEF id
  <2>3. r \in Workspace!Reservation
    BY <2>1, <1>2 DEF Workspace!Reservation
  <2> QED
    BY <2>1, <2>2, <2>3
<1> HIDE DEF id, gen, entry, r
<1>4. /\ j.high = IF dest = 0 THEN id ELSE journal.high
      /\ j.reservations = [journal.reservations EXCEPT ![k] = r]
      /\ j.entries = IF dest = 0 THEN [journal.entries EXCEPT ![id] = entry] ELSE journal.entries
      /\ j.closes = journal.closes /\ j.handoffs = journal.handoffs
  BY WorkspaceFiles DEF Workspace!Journal
<1>5. j \in Workspace!Journal
  <2>1. j.high \in Workspace!Spaces /\ j.reservations \in [Keys -> Workspace!Reservation \cup {Workspace!None}] /\ j.entries \in [Workspace!Ids -> Workspace!Entry \cup {Workspace!None}]
    BY <1>2, <1>3, <1>4, WorkspaceJournalIs, WorkspaceFiles
  <2> QED
    BY <2>1, WorkspaceFiles DEF Workspace!Journal
<1> HIDE DEF j
<1>6. r \in Workspace!Reservation /\ r.purpose = purpose /\ r.id = id /\ entry.keep = (purpose = "pad")
  BY <1>3 DEF r, entry
<1>7. Workspace!Held(j.reservations, k) /\ j.reservations[k] = r /\ \A i \in Keys \ {k} : j.reservations[i] = journal.reservations[i]
  BY <1>4, <1>6, WorkspaceNoneIs, WorkspaceJournalIs, WorkspaceFiles DEF Workspace!Held
<1>8. WorkspaceFollows(j, journal)
  <2>1. j.high >= journal.high
    BY <1>2, <1>4, WorkspaceJournalIs, WorkspaceFiles DEF Workspace!Spaces
  <2>2. \A i \in Keys : Workspace!Held(j.handoffs, i) => Workspace!Held(j.reservations, i)
    BY <1>4, <1>7, WorkspaceFiles DEF Workspace!Kept, Workspace!Held
  <2>3. \A i \in Keys : Workspace!Held(journal.reservations, i) => j.reservations[i] = journal.reservations[i]
    BY <1>1, <1>7
  <2>4. ASSUME NEW i \in Keys, Workspace!Held(j.reservations, i), ~Workspace!Held(journal.reservations, i), j.reservations[i].purpose = "pad"
        PROVE  LET n == j.reservations[i].id
               IN n \in Workspace!Ids /\ n <= j.high /\ Workspace!Held(j.entries, n) /\ j.entries[n].keep
    <3>1. i = k /\ purpose = "pad" /\ dest = 0
      BY <2>4, <1>1, <1>6, <1>7 DEF Workspace!Held
    <3>2. j.entries[id] = entry /\ entry \in Workspace!Entry /\ id \in Workspace!Ids /\ id \in Nat /\ j.high = id
      BY <3>1, <1>2, <1>3, <1>4, WorkspaceJournalIs, WorkspaceFiles
    <3>3. j.reservations[i].id = id /\ entry.keep /\ entry # Workspace!None
      BY <3>1, <3>2, <1>6, <1>7, WorkspaceNoneIs
    <3> QED
      BY <3>2, <3>3, WorkspaceJournalIs, WorkspaceFiles DEF Workspace!Held, Workspace!Ids
  <2>5. ASSUME NEW i \in Workspace!Ids, Workspace!Held(journal.entries, i), journal.entries[i].keep, i <= journal.high
        PROVE  Workspace!Held(j.entries, i) /\ j.entries[i].keep
    <3>1. dest = 0 => i # id
      BY <2>5, <1>2, WorkspaceJournalIs, WorkspaceFiles DEF Workspace!Ids, Workspace!Spaces
    <3> QED
      BY <3>1, <2>5, <1>4, WorkspaceJournalIs, WorkspaceFiles DEF Workspace!Held
  <2> QED
    BY <1>4, <1>5, <2>1, <2>2, <2>3, <2>4, <2>5 DEF WorkspaceFollows, Workspace!Held
<1>9. /\ Workspace!FileInv' /\ journal' = j /\ poisoned' \in BOOLEAN /\ turns' \in 0..WorkspaceEnv
      /\ workspaceOp' = Workspace!None \/ workspaceOp' = next
  <2>1. \A i \in Workspace!Ids : used'[i] = 1 => used[i] = 1 \/ (~poisoned' /\ i <= j.high)
    BY <1>1, <1>2, <1>4 DEF Workspace!IInv, Workspace!Shapes, Workspace!Ids
  <2>2. \A i \in watchers' : i \in Keys /\ Workspace!Held(j.closes, i)
    BY <1>1, <1>4 DEF Workspace!IInv, Workspace!FileInv
  <2> QED
    BY <1>1, <1>8, <2>1, <2>2, WorkspaceSaveKeeps DEF Workspace!IInv
<1>10. used' \in [Workspace!Ids -> 0..1]
  <2>1. CASE dest = 0 /\ ~poisoned'
    <3>1. used[id] = 0
      <4>1. used[id] # 1
        BY <2>1, <1>1, <1>2, WorkspaceJournalIs, WorkspaceFiles DEF Workspace!IInv, Workspace!FileInv, Workspace!Spaces
      <4> QED
        BY <4>1, <2>1, <1>2 DEF Workspace!IInv, Workspace!Shapes
    <3> QED
      BY <2>1, <3>1, <1>1, <1>2 DEF Workspace!IInv, Workspace!Shapes
  <2> QED
    BY <2>1, <1>1 DEF Workspace!IInv, Workspace!Shapes
<1>11. workspaceOp' \in Workspace!Steps \cup {Workspace!None} /\ Workspace!HolderInv' /\ Workspace!NoRevival'
  <2>1. CASE workspaceOp' = Workspace!None
    BY <2>1, WorkspaceNobody
  <2>2. CASE workspaceOp' = [kind |-> "create", key |-> k, at |-> "focus", from |-> desk.active]
    <3>1. workspaceOp' \in Workspace!Steps
      BY <2>2, WorkspaceFiles DEF Workspace!Steps, Workspace!Desk
    <3> QED
      BY <3>1, <2>2, <1>7, <1>9 DEF Workspace!HolderInv, Workspace!NoRevival
  <2> QED
    BY <2>1, <2>2, <1>9
<1> QED
  BY <1>1, <1>9, <1>10, <1>11 DEF Workspace!IInv, Workspace!Shapes

LEMMA WorkspaceFocusPadKeeps == ASSUME Workspace!WorkspaceConstantsOK, Workspace!IInv, Workspace!FocusPad PROVE Workspace!IInv'
<1>1. workspaceOp # Workspace!None /\ workspaceOp.kind = "create" /\ workspaceOp.at = "focus" /\ workspaceOp \in Workspace!Steps
  BY DEF Workspace!FocusPad, Workspace!IInv, Workspace!Shapes
<1>2. workspaceOp.key \in Keys /\ journal.reservations[workspaceOp.key].id \in Workspace!Spaces
  BY <1>1, WorkspaceJournalIs, WorkspaceFiles DEF Workspace!IInv, Workspace!HolderInv, Workspace!Steps, Workspace!Reservation
<1>3. desk' \in Workspace!Desk
  BY <1>2, WorkspaceFiles DEF Workspace!FocusPad, Workspace!Desk
<1>4. workspaceOp' \in Workspace!Steps /\ workspaceOp'.kind = "create" /\ workspaceOp'.key = workspaceOp.key
  BY <1>1 DEF Workspace!FocusPad, Workspace!Steps
<1>5. Workspace!FileInv'
  BY <1>1, WorkspaceFiles, WorkspaceFilesStay DEF Workspace!FocusPad, Workspace!IInv
<1>6. Workspace!HolderInv' /\ Workspace!NoRevival'
  BY <1>1, <1>4 DEF Workspace!FocusPad, Workspace!IInv, Workspace!HolderInv, Workspace!NoRevival
<1> QED
  BY <1>3, <1>4, <1>5, <1>6 DEF Workspace!FocusPad, Workspace!IInv, Workspace!Shapes

\* The status of a reservation changes, and perhaps its lease.
LEMMA WorkspaceStatusIs ==
  ASSUME NEW r \in Workspace!Reservation, NEW s \in {"focused", "placing", "placed", "unknown", "released"}
  PROVE  /\ [r EXCEPT !.status = s] \in Workspace!Reservation /\ [r EXCEPT !.status = s].id = r.id
         /\ [r EXCEPT !.status = s].purpose = r.purpose /\ [r EXCEPT !.status = s].status = s
BY DEF Workspace!Reservation

\* A journal that differs in the status of one reservation, in fewer or weaker
\* observers, and in what is occupied.
LEMMA WorkspaceStatusFollows ==
  ASSUME Workspace!IInv, NEW k \in Keys, NEW r \in Workspace!Reservation, Workspace!Held(journal.reservations, k), NEW i,
         i \in Workspace!Journal, i.high = journal.high, i.reservations = [journal.reservations EXCEPT ![k] = r],
         r.purpose = journal.reservations[k].purpose, r.id = journal.reservations[k].id,
         r.status # "reserved", i.closes = journal.closes,
         \A h \in Keys : Workspace!Held(i.handoffs, h) => h = k \/ Workspace!Held(journal.handoffs, h),
         \A e \in Workspace!Ids : Workspace!Held(journal.entries, e) => Workspace!Held(i.entries, e) /\ i.entries[e].keep = journal.entries[e].keep
  PROVE  WorkspaceFollows(i, journal)
<1>1. journal.reservations \in [Keys -> Workspace!Reservation \cup {Workspace!None}] /\ journal.high \in Workspace!Spaces
  BY WorkspaceJournalIs, WorkspaceFiles
<1>2. Workspace!Held(i.reservations, k) /\ i.reservations[k] = r /\ \A h \in Keys \ {k} : i.reservations[h] = journal.reservations[h]
  BY <1>1, WorkspaceNoneIs DEF Workspace!Held
<1>3. \A h \in Keys : Workspace!Held(i.handoffs, h) => Workspace!Held(i.reservations, h)
  BY <1>2, WorkspaceFiles DEF Workspace!Kept, Workspace!Held
<1>4. \A h \in Keys : Workspace!Held(i.reservations, h) => Workspace!Held(journal.reservations, h)
  BY <1>2 DEF Workspace!Held
<1>5. \A h \in Keys : Workspace!Held(journal.reservations, h) =>
          /\ Workspace!Held(i.reservations, h) /\ i.reservations[h].purpose = journal.reservations[h].purpose
          /\ i.reservations[h].id = journal.reservations[h].id
          /\ i.reservations[h].status = "reserved" => journal.reservations[h].status = "reserved"
  BY <1>2 DEF Workspace!Held
<1>6. i.high >= journal.high
  BY <1>1 DEF Workspace!Spaces
<1> QED
  BY <1>3, <1>4, <1>5, <1>6 DEF WorkspaceFollows

LEMMA WorkspaceRecordPadKeeps == ASSUME Workspace!WorkspaceConstantsOK, Workspace!IInv, Workspace!RecordPad PROVE Workspace!IInv'
<1> DEFINE k == workspaceOp.key
           s == IF desk.active = journal.reservations[k].id THEN "focused" ELSE "unknown"
           r == [journal.reservations[k] EXCEPT !.status = s]
           j == [journal EXCEPT !.reservations[k].status = s]
<1>1. workspaceOp # Workspace!None /\ workspaceOp.kind = "create" /\ workspaceOp \in Workspace!Steps /\ k \in Keys /\ Workspace!Held(journal.reservations, k)
  BY DEF Workspace!RecordPad, Workspace!IInv, Workspace!Shapes, Workspace!HolderInv, Workspace!Steps
<1>2. Workspace!Save(j, Workspace!None) /\ UNCHANGED <<desk, watchers, intake, pins, grace, workspaceSent, used>>
  BY DEF Workspace!RecordPad
<1>3. /\ r \in Workspace!Reservation /\ r.purpose = journal.reservations[k].purpose /\ r.id = journal.reservations[k].id
      /\ r.status # "reserved"
  <2>1. s \in {"focused", "unknown"} /\ journal.reservations[k] \in Workspace!Reservation
    BY <1>1, WorkspaceJournalIs, WorkspaceFiles
  <2>2. s \in {"focused", "placing", "placed", "unknown", "released"} /\ s # "reserved"
    BY <2>1
  <2> HIDE DEF s, k
  <2> QED
    BY <2>1, <2>2, WorkspaceStatusIs
<1>4. /\ j.high = journal.high /\ j.entries = journal.entries /\ j.closes = journal.closes /\ j.handoffs = journal.handoffs
      /\ j.reservations = [journal.reservations EXCEPT ![k] = r]
  BY WorkspaceFiles DEF Workspace!Journal
<1> HIDE DEF r
<1>5. j \in Workspace!Journal
  <2>1. j.reservations \in [Keys -> Workspace!Reservation \cup {Workspace!None}]
    <3> HIDE DEF j, k
    <3>1. journal.reservations \in [Keys -> Workspace!Reservation \cup {Workspace!None}]
      BY WorkspaceJournalIs, WorkspaceFiles
    <3> QED
      BY <1>1, <1>3, <1>4, <3>1
  <2> QED
    BY <2>1, WorkspaceFiles DEF Workspace!Journal
<1> HIDE DEF j, k
<1>6. WorkspaceFollows(j, journal)
  BY <1>1, <1>3, <1>4, <1>5, WorkspaceStatusFollows
<1>7. Workspace!FileInv' /\ journal' = j /\ poisoned' \in BOOLEAN /\ turns' \in 0..WorkspaceEnv /\ workspaceOp' = Workspace!None
  BY <1>2, <1>4, <1>6, WorkspaceSaveKeeps DEF Workspace!IInv, Workspace!FileInv
<1> QED
  BY <1>2, <1>7, WorkspaceNobody DEF Workspace!IInv, Workspace!Shapes

-----------------------------------------------------------------------------

LEMMA WorkspacePlaceKeeps ==
  ASSUME Workspace!WorkspaceConstantsOK, Workspace!IInv, NEW k \in Keys, NEW w \in Windows, Workspace!place(k, w)
  PROVE  Workspace!IInv'
<1> DEFINE r == [journal.reservations[k] EXCEPT !.status = "placing"]
           j == [Workspace!Without(journal, Keys) EXCEPT !.reservations[k].status = "placing", !.handoffs[k] = Workspace!prepare(k, w)]
           next == [kind |-> "place", key |-> k, at |-> "dispatch", window |-> w, from |-> desk.at[w]]
<1>1. /\ workspaceOp = Workspace!None /\ ~poisoned /\ Workspace!Held(journal.reservations, k) /\ journal.reservations[k].status = "reserved"
      /\ ~Workspace!closing(journal, journal.reservations[k].id) /\ Workspace!Save(j, next)
      /\ pins' = [i \in Keys |-> "none"] /\ UNCHANGED <<desk, watchers, intake, grace, workspaceSent, used>>
  BY DEF Workspace!place, Workspace!Free, Workspace!check_lease, Workspace!placeable
<1>2. /\ r \in Workspace!Reservation /\ r.purpose = journal.reservations[k].purpose /\ r.id = journal.reservations[k].id
      /\ r.status = "placing"
  BY <1>1, WorkspaceJournalIs, WorkspaceFiles, WorkspaceStatusIs
<1>3. Workspace!prepare(k, w) \in Workspace!Handoff \cup {Workspace!None}
  BY DEF Workspace!prepare, Workspace!Handoff
<1>4. /\ j.high = journal.high /\ j.entries = journal.entries /\ j.closes = journal.closes
      /\ j.reservations = [journal.reservations EXCEPT ![k] = r]
      /\ j.handoffs = [[h \in Keys |-> Workspace!None] EXCEPT ![k] = Workspace!prepare(k, w)]
  BY WorkspaceFiles DEF Workspace!Journal, Workspace!Without
<1>5. j \in Workspace!Journal
  <2>1. j.reservations \in [Keys -> Workspace!Reservation \cup {Workspace!None}] /\ j.handoffs \in [Keys -> Workspace!Handoff \cup {Workspace!None}]
    <3> HIDE DEF j, r
    <3>1. journal.reservations \in [Keys -> Workspace!Reservation \cup {Workspace!None}]
      BY WorkspaceJournalIs, WorkspaceFiles
    <3> QED
      BY <1>2, <1>3, <1>4, <3>1
  <2> QED
    BY <2>1, WorkspaceFiles DEF Workspace!Journal, Workspace!Without
<1> HIDE DEF j, r
<1>6. WorkspaceFollows(j, journal)
  <2>1. \A h \in Keys : Workspace!Held(j.handoffs, h) => h = k
    BY <1>4 DEF Workspace!Held
  <2> QED
    BY <2>1, <1>1, <1>2, <1>4, <1>5, WorkspaceStatusFollows
<1>7. Workspace!FileInv' /\ journal' = j /\ poisoned' \in BOOLEAN /\ turns' \in 0..WorkspaceEnv /\ (workspaceOp' = Workspace!None \/ workspaceOp' = next)
  <2>1. \A i \in watchers' : i \in Keys /\ Workspace!Held(j.closes, i)
    BY <1>1, <1>4 DEF Workspace!IInv, Workspace!FileInv
  <2> QED
    BY <2>1, <1>1, <1>6, WorkspaceSaveKeeps DEF Workspace!IInv
<1>8. workspaceOp' \in Workspace!Steps \cup {Workspace!None} /\ Workspace!HolderInv' /\ Workspace!NoRevival'
  <2>1. CASE workspaceOp' = next
    <3>1. next \in Workspace!Steps
      BY WorkspaceFiles DEF Workspace!Steps, Workspace!Desk
    <3>2. j.reservations[k] = r /\ Workspace!Held(j.reservations, k)
      BY <1>2, <1>4, WorkspaceJournalIs, WorkspaceFiles, WorkspaceNoneIs DEF Workspace!Held
    <3>3. workspaceSent[k].moves = 0
      BY <1>1, WorkspaceFiles DEF Workspace!Kept, Workspace!IInv, Workspace!Shapes
    <3>4. \A id : Workspace!closing(j, id) <=> Workspace!closing(journal, id)
      BY <1>4 DEF Workspace!closing
    <3> QED
      BY <2>1, <3>1, <3>2, <3>3, <3>4, <1>1, <1>2, <1>7 DEF Workspace!HolderInv, Workspace!NoRevival
  <2> QED
    BY <2>1, <1>7, WorkspaceNobody
<1> QED
  BY <1>1, <1>7, <1>8 DEF Workspace!IInv, Workspace!Shapes

\* An effect is dispatched: the journal and its file admitted it.
LEMMA WorkspaceSentKeeps ==
  ASSUME Workspace!IInv, ~poisoned, UNCHANGED <<journal, workspaceDisk, poisoned, watchers, used>>,
         \A k \in Keys :
            /\ workspaceSent'[k].moves = 1 => workspaceSent[k].moves = 1
                                     \/ (Workspace!Held(journal.reservations, k) /\ journal.reservations[k].status # "reserved")
            /\ workspaceSent'[k].closed = workspaceSent[k].closed
               \/ (Workspace!Held(journal.closes, k) /\ workspaceSent'[k].closed \subseteq journal.closes[k].attempted)
  PROVE  Workspace!FileInv'
<1>1. workspaceDisk.reservations = journal.reservations /\ workspaceDisk.closes = journal.closes
  BY DEF Workspace!IInv, Workspace!FileInv
<1>2. Workspace!Kept(journal)' /\ Workspace!Kept(workspaceDisk)'
  BY <1>1, WorkspaceFiles DEF Workspace!Kept
<1> QED
  BY <1>2 DEF Workspace!IInv, Workspace!FileInv

LEMMA WorkspaceDispatchPlaceKeeps == ASSUME Workspace!WorkspaceConstantsOK, Workspace!IInv, Workspace!DispatchPlace PROVE Workspace!IInv'
<1> DEFINE id == journal.reservations[workspaceOp.key].id
           moves == desk.at[workspaceOp.window] = workspaceOp.from
<1>1. workspaceOp # Workspace!None /\ workspaceOp.kind = "place" /\ workspaceOp.at = "dispatch" /\ workspaceOp \in Workspace!Steps /\ ~poisoned
  BY WorkspaceFiles DEF Workspace!DispatchPlace, Workspace!IInv, Workspace!Shapes
<1>2. /\ workspaceOp.key \in Keys /\ workspaceOp.window \in Windows /\ Workspace!Held(journal.reservations, workspaceOp.key)
      /\ journal.reservations[workspaceOp.key].status # "reserved" /\ workspaceSent[workspaceOp.key].moves = 0 /\ ~Workspace!closing(journal, id)
  BY <1>1 DEF Workspace!IInv, Workspace!HolderInv, Workspace!NoRevival, Workspace!Steps
<1>3. id \in Workspace!Spaces
  BY <1>2, WorkspaceJournalIs, WorkspaceFiles DEF Workspace!Reservation
<1>4. /\ desk' = IF moves THEN [desk EXCEPT !.at[workspaceOp.window] = id] ELSE desk
      /\ pins' = IF moves /\ Workspace!Held(journal.handoffs, workspaceOp.key) THEN [pins EXCEPT ![workspaceOp.key] = "present"] ELSE pins
      /\ \E from \in 0..1 : workspaceOp' = [workspaceOp EXCEPT !.at = "record", !.from = from]
      /\ turns' = turns \/ Workspace!Spend
      /\ workspaceSent' = [workspaceSent EXCEPT ![workspaceOp.key].moves = @ + 1]
      /\ UNCHANGED <<journal, workspaceDisk, poisoned, watchers, intake, grace, used>>
  <2>1. PICK reply \in Workspace!Reply : /\ workspaceOp' = [workspaceOp EXCEPT !.at = "record", !.from = IF moves /\ reply THEN 1 ELSE 0]
                                         /\ IF reply THEN UNCHANGED turns ELSE Workspace!Spend
    BY DEF Workspace!DispatchPlace
  <2>2. \E from \in 0..1 : workspaceOp' = [workspaceOp EXCEPT !.at = "record", !.from = from]
    <3>1. (IF moves /\ reply THEN 1 ELSE 0) \in 0..1
      OBVIOUS
    <3> QED
      BY <2>1, <3>1
  <2>3. turns' = turns \/ Workspace!Spend
    BY <2>1
  <2> QED
    BY <2>2, <2>3 DEF Workspace!DispatchPlace
<1>5. desk' \in Workspace!Desk /\ turns' \in 0..WorkspaceEnv /\ pins' \in [Keys -> {"none", "present", "moved", "gone"}]
  <2>1. desk' \in Workspace!Desk
    <3> HIDE DEF id, moves
    <3>1. id \in 0..WorkspaceIds
      BY <1>3 DEF Workspace!Spaces
    <3> QED
      BY <3>1, <1>2, <1>4, WorkspaceFiles DEF Workspace!Desk
  <2>2. turns' \in 0..WorkspaceEnv
    BY <1>4 DEF Workspace!Spend, Workspace!IInv, Workspace!Shapes, Workspace!WorkspaceConstantsOK
  <2> QED
    BY <2>1, <2>2, <1>4 DEF Workspace!IInv, Workspace!Shapes
<1>6. workspaceSent' \in [Keys -> [moves : 0..1, closed : SUBSET Windows]] /\ workspaceSent'[workspaceOp.key].closed = workspaceSent[workspaceOp.key].closed
      /\ \A k \in Keys \ {workspaceOp.key} : workspaceSent'[k] = workspaceSent[k]
  <2>1. workspaceSent \in [Keys -> [moves : 0..1, closed : SUBSET Windows]]
    BY DEF Workspace!IInv, Workspace!Shapes
  <2> DEFINE e == [workspaceSent[workspaceOp.key] EXCEPT !.moves = @ + 1]
  <2>2. e \in [moves : 0..1, closed : SUBSET Windows] /\ e.closed = workspaceSent[workspaceOp.key].closed
    BY <2>1, <1>2
  <2>3. workspaceSent' = [workspaceSent EXCEPT ![workspaceOp.key] = e]
    BY <1>4
  <2> HIDE DEF e
  <2> QED
    BY <2>1, <2>2, <2>3, <1>2
<1>7. Workspace!FileInv'
  BY <1>1, <1>2, <1>4, <1>6, WorkspaceSentKeeps
<1>8. workspaceOp' \in Workspace!Steps /\ workspaceOp'.kind = "place" /\ workspaceOp'.at = "record" /\ workspaceOp'.key = workspaceOp.key
  <2>1. workspaceOp \in [kind: {"place"}, key: Keys, at: {"dispatch", "record"}, window: Windows, from: 0..WorkspaceIds]
    BY <1>1 DEF Workspace!Steps
  <2>2. 0 \in 0..WorkspaceIds /\ 1 \in 0..WorkspaceIds
    BY DEF Workspace!WorkspaceConstantsOK
  <2>3. PICK from \in 0..1 : workspaceOp' = [workspaceOp EXCEPT !.at = "record", !.from = from]
    BY <1>4
  <2>4. from \in 0..WorkspaceIds
    BY <2>2
  <2>5. workspaceOp' \in [kind: {"place"}, key: Keys, at: {"dispatch", "record"}, window: Windows, from: 0..WorkspaceIds]
        /\ workspaceOp'.at = "record" /\ workspaceOp'.key = workspaceOp.key
    BY <2>1, <2>3, <2>4
  <2> QED
    BY <2>5 DEF Workspace!Steps
<1>9. Workspace!HolderInv' /\ Workspace!NoRevival'
  BY <1>2, <1>4, <1>8 DEF Workspace!HolderInv, Workspace!NoRevival
<1> QED
  BY <1>4, <1>5, <1>6, <1>7, <1>8, <1>9 DEF Workspace!IInv, Workspace!Shapes

LEMMA WorkspaceRecordPlaceKeeps == ASSUME Workspace!WorkspaceConstantsOK, Workspace!IInv, Workspace!RecordPlace PROVE Workspace!IInv'
<1> DEFINE k == workspaceOp.key
           id == journal.reservations[k].id
           verified == workspaceOp.from = 1 /\ desk.at[workspaceOp.window] = id
           s == IF verified THEN "placed" ELSE "unknown"
           r == [journal.reservations[k] EXCEPT !.status = s]
           j == [journal EXCEPT !.reservations[k].status = s]
           placed == [j EXCEPT !.handoffs[k] = IF @ = Workspace!None THEN @ ELSE [@ EXCEPT !.watching = TRUE],
                               !.entries = [i \in Workspace!Ids |-> IF i = id /\ Workspace!Held(@, i) THEN [@[i] EXCEPT !.occupied = TRUE] ELSE @[i]]]
           follow == [kind |-> "follow", key |-> k, window |-> workspaceOp.window, id |-> id]
<1>1. workspaceOp # Workspace!None /\ workspaceOp.kind = "place" /\ workspaceOp \in Workspace!Steps
  BY DEF Workspace!RecordPlace, Workspace!IInv, Workspace!Shapes
<1>2. k \in Keys /\ workspaceOp.window \in Windows /\ Workspace!Held(journal.reservations, k)
  BY <1>1 DEF Workspace!IInv, Workspace!HolderInv, Workspace!Steps
<1> SUFFICES ASSUME ~(Workspace!Spend /\ workspaceOp' = Workspace!None /\ UNCHANGED <<journal, workspaceDisk, poisoned, pins>>)
             PROVE  Workspace!IInv'
  <2> SUFFICES ASSUME Workspace!Spend, workspaceOp' = Workspace!None, UNCHANGED <<journal, workspaceDisk, poisoned, pins>>
               PROVE  Workspace!IInv'
    OBVIOUS
  <2>1. UNCHANGED <<desk, watchers, intake, grace, workspaceSent, used>>
    BY DEF Workspace!RecordPlace
  <2>2. Workspace!FileInv'
    BY <2>1, WorkspaceFilesStay DEF Workspace!IInv
  <2>3. turns' \in 0..WorkspaceEnv
    BY DEF Workspace!Spend, Workspace!IInv, Workspace!Shapes, Workspace!WorkspaceConstantsOK
  <2> QED
    BY <2>1, <2>2, <2>3, WorkspaceNobody DEF Workspace!IInv, Workspace!Shapes
<1>3. PICK saved \in {Workspace!Without(j, {k}), j, placed}, next \in {Workspace!None, follow} :
        Workspace!Save(saved, next) /\ pins' \in {pins, [pins EXCEPT ![k] = "none"]}
        /\ UNCHANGED <<desk, watchers, intake, grace, workspaceSent, used>>
  BY DEF Workspace!RecordPlace
<1>4. /\ r \in Workspace!Reservation /\ r.purpose = journal.reservations[k].purpose /\ r.id = journal.reservations[k].id
      /\ r.status # "reserved" /\ id \in Workspace!Spaces
  <2>1. s \in {"focused", "placing", "placed", "unknown", "released"} /\ s # "reserved"
    BY DEF s
  <2>2. journal.reservations[k] \in Workspace!Reservation /\ id \in Workspace!Spaces
    BY <1>2, WorkspaceJournalIs, WorkspaceFiles DEF Workspace!Reservation
  <2> HIDE DEF s, k
  <2> QED
    BY <2>1, <2>2, WorkspaceStatusIs
<1>5. /\ j.high = journal.high /\ j.entries = journal.entries /\ j.closes = journal.closes /\ j.handoffs = journal.handoffs
      /\ j.reservations = [journal.reservations EXCEPT ![k] = r]
  BY WorkspaceFiles DEF Workspace!Journal
<1>6. j \in Workspace!Journal
  <2>1. j.reservations \in [Keys -> Workspace!Reservation \cup {Workspace!None}]
    <3> HIDE DEF j, r, k
    <3>1. journal.reservations \in [Keys -> Workspace!Reservation \cup {Workspace!None}]
      BY WorkspaceJournalIs, WorkspaceFiles
    <3> QED
      BY <1>2, <1>4, <1>5, <3>1
  <2> QED
    BY <2>1, WorkspaceFiles DEF Workspace!Journal
<1> HIDE DEF j, r
<1>7. /\ saved \in Workspace!Journal /\ saved.high = journal.high /\ saved.closes = journal.closes
      /\ saved.reservations = [journal.reservations EXCEPT ![k] = r]
      /\ \A h \in Keys : Workspace!Held(saved.handoffs, h) => Workspace!Held(journal.handoffs, h)
      /\ \A e \in Workspace!Ids : Workspace!Held(journal.entries, e) => Workspace!Held(saved.entries, e) /\ saved.entries[e].keep = journal.entries[e].keep
  <2>0. CASE saved = j
    BY <2>0, <1>5, <1>6
  <2>1. CASE saved = Workspace!Without(j, {k})
    <3>1. saved = [j EXCEPT !.handoffs = [h \in Keys |-> IF h \in {k} THEN Workspace!None ELSE @[h]]]
      BY <2>1 DEF Workspace!Without
    <3>2. /\ saved.high = j.high /\ saved.closes = j.closes /\ saved.reservations = j.reservations
          /\ saved.entries = j.entries /\ saved.handoffs = [h \in Keys |-> IF h \in {k} THEN Workspace!None ELSE j.handoffs[h]]
      BY <3>1, <1>6 DEF Workspace!Journal
    <3>3. saved \in Workspace!Journal
      <4>1. [h \in Keys |-> IF h \in {k} THEN Workspace!None ELSE j.handoffs[h]] \in [Keys -> Workspace!Handoff \cup {Workspace!None}]
        BY <1>6, WorkspaceJournalIs
      <4> QED
        BY <3>1, <4>1, <1>6 DEF Workspace!Journal
    <3>4. \A h \in Keys : Workspace!Held(saved.handoffs, h) => Workspace!Held(journal.handoffs, h)
      BY <3>2, <1>5 DEF Workspace!Held
    <3> QED
      BY <3>2, <3>3, <3>4, <1>5
  <2>2. CASE saved = placed
    <3> DEFINE o == [j.handoffs EXCEPT ![k] = IF @ = Workspace!None THEN @ ELSE [@ EXCEPT !.watching = TRUE]]
               f == [i \in Workspace!Ids |-> IF i = id /\ Workspace!Held(j.entries, i) THEN [j.entries[i] EXCEPT !.occupied = TRUE] ELSE j.entries[i]]
    <3>2. /\ placed.high = j.high /\ placed.closes = j.closes /\ placed.reservations = j.reservations
          /\ placed.handoffs = o /\ placed.entries = f
      BY <1>6 DEF Workspace!Journal
    <3>3. o \in [Keys -> Workspace!Handoff \cup {Workspace!None}] /\ \A h \in Keys : Workspace!Held(o, h) => Workspace!Held(j.handoffs, h)
      <4>1. \A h \in Workspace!Handoff : [h EXCEPT !.watching = TRUE] \in Workspace!Handoff
        BY DEF Workspace!Handoff
      <4> QED
        BY <4>1, <1>2, <1>6, WorkspaceJournalIs DEF Workspace!Held
    <3>4. f \in [Workspace!Ids -> Workspace!Entry \cup {Workspace!None}] /\ \A e \in Workspace!Ids : Workspace!Held(j.entries, e) => Workspace!Held(f, e) /\ f[e].keep = j.entries[e].keep
      <4>1. \A e \in Workspace!Entry : [e EXCEPT !.occupied = TRUE] \in Workspace!Entry /\ [e EXCEPT !.occupied = TRUE].keep = e.keep
        BY DEF Workspace!Entry
      <4>2. \A e \in Workspace!Ids : Workspace!Held(j.entries, e) => j.entries[e] \in Workspace!Entry
        BY <1>6, WorkspaceJournalIs
      <4>3. j.entries \in [Workspace!Ids -> Workspace!Entry \cup {Workspace!None}]
        BY <1>6, WorkspaceJournalIs
      <4>4. \A e \in Workspace!Ids : f[e] \in Workspace!Entry \cup {Workspace!None}
        BY <4>1, <4>2, <4>3
      <4>5. ASSUME NEW e \in Workspace!Ids, Workspace!Held(j.entries, e) PROVE Workspace!Held(f, e) /\ f[e].keep = j.entries[e].keep
        <5>1. f[e] \in Workspace!Entry /\ f[e].keep = j.entries[e].keep
          BY <4>1, <4>2, <4>5
        <5> QED
          BY <5>1, WorkspaceNoneIs DEF Workspace!Held
      <4> QED
        BY <4>4, <4>5
    <3>5. placed \in Workspace!Journal
      <4> HIDE DEF o, f
      <4> QED
        BY <3>2, <3>3, <3>4, <1>6 DEF Workspace!Journal
    <3> HIDE DEF o, f, placed
    <3> QED
      BY <2>2, <3>2, <3>3, <3>4, <3>5, <1>5
  <2> QED
    BY <2>0, <2>1, <2>2
<1> HIDE DEF k
<1>8. WorkspaceFollows(saved, journal)
  BY <1>2, <1>4, <1>7, WorkspaceStatusFollows
<1>9. Workspace!FileInv' /\ journal' = saved /\ poisoned' \in BOOLEAN /\ turns' \in 0..WorkspaceEnv /\ (workspaceOp' = Workspace!None \/ workspaceOp' = next)
  <2>1. \A i \in watchers' : i \in Keys /\ Workspace!Held(saved.closes, i)
    BY <1>3, <1>7 DEF Workspace!IInv, Workspace!FileInv
  <2> QED
    BY <2>1, <1>3, <1>8, WorkspaceSaveKeeps DEF Workspace!IInv
<1>10. workspaceOp' \in Workspace!Steps \cup {Workspace!None} /\ Workspace!HolderInv' /\ Workspace!NoRevival'
  <2>1. CASE workspaceOp' = Workspace!None
    BY <2>1, WorkspaceNobody
  <2>2. CASE workspaceOp' = follow
    <3> HIDE DEF id
    <3>1. workspaceOp' \in Workspace!Steps /\ workspaceOp'.kind = "follow"
      BY <2>2, <1>2, <1>4 DEF Workspace!Steps
    <3> QED
      BY <3>1 DEF Workspace!HolderInv, Workspace!NoRevival
  <2> QED
    BY <2>1, <2>2, <1>9
<1>11. pins' \in [Keys -> {"none", "present", "moved", "gone"}]
  BY <1>2, <1>3 DEF Workspace!IInv, Workspace!Shapes
<1> QED
  BY <1>3, <1>9, <1>10, <1>11 DEF Workspace!IInv, Workspace!Shapes

LEMMA WorkspaceFollowKeeps == ASSUME Workspace!WorkspaceConstantsOK, Workspace!IInv, Workspace!Follow PROVE Workspace!IInv'
<1>1. workspaceOp # Workspace!None /\ workspaceOp.kind = "follow" /\ workspaceOp \in Workspace!Steps
  BY DEF Workspace!Follow, Workspace!IInv, Workspace!Shapes
<1>2. workspaceOp.id \in Workspace!Spaces
  BY <1>1 DEF Workspace!Steps
<1>3. desk' \in Workspace!Desk
  BY <1>2, WorkspaceFiles DEF Workspace!Follow, Workspace!Desk
<1>4. Workspace!FileInv'
  BY WorkspaceFilesStay DEF Workspace!Follow, Workspace!IInv
<1> QED
  BY <1>3, <1>4, WorkspaceNobody DEF Workspace!Follow, Workspace!IInv, Workspace!Shapes

\* Cleaning up starts with nothing established.
LEMMA WorkspaceCleanupIs ==
  ASSUME NEW d \in Workspace!Desk, workspaceOp' = Workspace!cleanup(d)
  PROVE  workspaceOp' \in Workspace!Steps /\ Workspace!HolderInv' /\ Workspace!NoRevival'
<1>1. workspaceOp' \in Workspace!Steps /\ workspaceOp'.kind = "reconcile" /\ workspaceOp'.at = "fence"
  BY DEF Workspace!cleanup, Workspace!Steps
<1> QED
  BY <1>1 DEF Workspace!HolderInv, Workspace!NoRevival

LEMMA WorkspaceReleaseKeeps == ASSUME Workspace!WorkspaceConstantsOK, Workspace!IInv, NEW k \in Keys, Workspace!release(k) PROVE Workspace!IInv'
<1> DEFINE old == journal.reservations[k]
           s == IF old.status = "unknown" THEN "unknown" ELSE "released"
           r == [old EXCEPT !.released = TRUE, !.status = s]
           j == [journal EXCEPT !.reservations[k].released = TRUE,
                                !.reservations[k].status = IF @ = "unknown" THEN @ ELSE "released"]
<1>1. ~poisoned /\ Workspace!Held(journal.reservations, k) /\ Workspace!Save(j, Workspace!cleanup(desk))
      /\ UNCHANGED <<desk, watchers, intake, pins, grace, workspaceSent, used>>
  BY DEF Workspace!release, Workspace!Free
<1>2. old \in Workspace!Reservation /\ old.status \in {"reserved", "focused", "placing", "placed", "unknown", "released"}
  BY <1>1, WorkspaceJournalIs, WorkspaceFiles DEF Workspace!Reservation
<1>3. r \in Workspace!Reservation /\ r.purpose = old.purpose /\ r.id = old.id /\ r.status # "reserved"
  <2> HIDE DEF old
  <2> QED
    BY <1>2 DEF Workspace!Reservation
<1>4. /\ j.high = journal.high /\ j.entries = journal.entries /\ j.closes = journal.closes /\ j.handoffs = journal.handoffs
      /\ j.reservations = [journal.reservations EXCEPT ![k] = r]
  <2>1. journal.reservations \in [Keys -> Workspace!Reservation \cup {Workspace!None}]
    BY WorkspaceJournalIs, WorkspaceFiles
  <2>2. j.reservations = [[journal.reservations EXCEPT ![k].released = TRUE]
                             EXCEPT ![k].status = IF @ = "unknown" THEN @ ELSE "released"]
    BY WorkspaceFiles DEF Workspace!Journal
  <2> QED
    BY <2>1, <2>2, <1>2, WorkspaceFiles DEF Workspace!Journal, Workspace!Reservation
<1> HIDE DEF r
<1>5. j \in Workspace!Journal
  <2>1. j.reservations \in [Keys -> Workspace!Reservation \cup {Workspace!None}]
    <3> HIDE DEF j
    <3>1. journal.reservations \in [Keys -> Workspace!Reservation \cup {Workspace!None}]
      BY WorkspaceJournalIs, WorkspaceFiles
    <3> QED
      BY <1>3, <1>4, <3>1
  <2> QED
    BY <2>1, WorkspaceFiles DEF Workspace!Journal
<1> HIDE DEF j
<1>6. WorkspaceFollows(j, journal)
  BY <1>1, <1>3, <1>4, <1>5, WorkspaceStatusFollows
<1>7. Workspace!FileInv' /\ journal' = j /\ poisoned' \in BOOLEAN /\ turns' \in 0..WorkspaceEnv /\ (workspaceOp' = Workspace!None \/ workspaceOp' = Workspace!cleanup(desk))
  BY <1>1, <1>4, <1>6, WorkspaceSaveKeeps DEF Workspace!IInv, Workspace!FileInv
<1> QED
  BY <1>1, <1>7, WorkspaceNobody, WorkspaceCleanupIs DEF Workspace!IInv, Workspace!Shapes

LEMMA WorkspaceProjectKeeps == ASSUME Workspace!WorkspaceConstantsOK, Workspace!IInv, Workspace!Project PROVE Workspace!IInv'
<1>1. Workspace!FileInv'
  BY WorkspaceFilesStay DEF Workspace!Project, Workspace!Free, Workspace!IInv
<1> QED
  BY <1>1, WorkspaceCleanupIs, WorkspaceFiles DEF Workspace!Project, Workspace!IInv, Workspace!Shapes

-----------------------------------------------------------------------------

LEMMA WorkspaceCloseKeeps == ASSUME Workspace!WorkspaceConstantsOK, Workspace!IInv, NEW k \in Keys, Workspace!close(k) PROVE Workspace!IInv'
<1> DEFINE id == desk.active
           c == [id |-> id, targets |-> Workspace!On(id, desk), attempted |-> {}, status |-> "dispatching"]
           cs == [journal.closes EXCEPT ![k] = c]
           rs == [r \in Keys |-> IF Workspace!Held(journal.reservations, r) /\ journal.reservations[r].id = id /\ ~journal.reservations[r].released
                                 THEN [journal.reservations[r] EXCEPT !.released = TRUE, !.status = "released"]
                                 ELSE journal.reservations[r]]
           hs == [h \in Keys |-> IF Workspace!Held(journal.handoffs, h) /\ journal.reservations[h].id = id
                                 THEN [journal.handoffs[h] EXCEPT !.watching = FALSE] ELSE journal.handoffs[h]]
           es == [i \in Workspace!Ids |-> IF i = id /\ Workspace!Held(journal.entries, i)
                                THEN [journal.entries[i] EXCEPT !.pad = FALSE, !.keep = FALSE] ELSE journal.entries[i]]
           j == [journal EXCEPT
               !.closes[k] = [id |-> id, targets |-> Workspace!On(id, desk), attempted |-> {}, status |-> "dispatching"],
               !.reservations = [r \in Keys |-> IF Workspace!Held(@, r) /\ @[r].id = id /\ ~@[r].released
                                                THEN [@[r] EXCEPT !.released = TRUE, !.status = "released"] ELSE @[r]],
               !.handoffs = [h \in Keys |-> IF Workspace!Held(@, h) /\ journal.reservations[h].id = id
                                            THEN [@[h] EXCEPT !.watching = FALSE] ELSE @[h]],
               !.entries = [i \in Workspace!Ids |-> IF i = id /\ Workspace!Held(@, i) THEN [@[i] EXCEPT !.pad = FALSE, !.keep = FALSE] ELSE @[i]]]
           next == [kind |-> "close", key |-> k, at |-> "next"]
<1>1. /\ ~poisoned /\ ~Workspace!Held(journal.closes, k) /\ Workspace!Save(j, next)
      /\ UNCHANGED <<desk, watchers, intake, pins, grace, workspaceSent, used>>
  BY DEF Workspace!close, Workspace!Free, Workspace!admit
<1>2. /\ j.high = journal.high /\ j.closes = cs /\ j.reservations = rs /\ j.handoffs = hs /\ j.entries = es
      /\ j = [high |-> journal.high, entries |-> es, reservations |-> rs, closes |-> cs, handoffs |-> hs]
  <2>1. journal = [high |-> journal.high, entries |-> journal.entries, reservations |-> journal.reservations,
                   closes |-> journal.closes, handoffs |-> journal.handoffs]
    BY WorkspaceFiles DEF Workspace!Journal
  <2>2. j = [journal EXCEPT !.closes = cs, !.reservations = rs, !.handoffs = hs, !.entries = es]
    BY <2>1
  <2> HIDE DEF j, cs, rs, hs, es
  <2> QED
    BY <2>1, <2>2
<1> HIDE DEF j
<1>3. /\ cs \in [Keys -> Workspace!Close \cup {Workspace!None}] /\ Workspace!Held(cs, k) /\ cs[k].id = id
      /\ \A h \in Keys : Workspace!Held(journal.closes, h) => cs[h] = journal.closes[h] /\ Workspace!Held(cs, h)
  <2>1. c \in Workspace!Close
    BY WorkspaceFiles DEF Workspace!Close, Workspace!Desk, Workspace!On
  <2>2. c.id = id
    OBVIOUS
  <2> HIDE DEF c
  <2> QED
    BY <2>1, <2>2, <1>1, WorkspaceJournalIs, WorkspaceFiles, WorkspaceNoneIs DEF Workspace!Held
<1>4. /\ rs \in [Keys -> Workspace!Reservation \cup {Workspace!None}]
      /\ \A h \in Keys : Workspace!Held(rs, h) <=> Workspace!Held(journal.reservations, h)
      /\ \A h \in Keys : Workspace!Held(journal.reservations, h) =>
            /\ rs[h].purpose = journal.reservations[h].purpose /\ rs[h].id = journal.reservations[h].id
            /\ rs[h].status = "reserved" => journal.reservations[h].status = "reserved"
  <2>1. \A r \in Workspace!Reservation :
           LET n == [r EXCEPT !.released = TRUE, !.status = "released"]
           IN n \in Workspace!Reservation /\ n.purpose = r.purpose /\ n.id = r.id /\ n.status = "released"
    BY DEF Workspace!Reservation
  <2>2. ASSUME NEW h \in Keys, Workspace!Held(journal.reservations, h)
        PROVE  /\ rs[h] \in Workspace!Reservation
               /\ rs[h].purpose = journal.reservations[h].purpose /\ rs[h].id = journal.reservations[h].id
               /\ rs[h].status = "reserved" => journal.reservations[h].status = "reserved"
    <3>1. journal.reservations[h] \in Workspace!Reservation
      BY <2>2, WorkspaceJournalIs, WorkspaceFiles
    <3> QED
      BY <2>1, <2>2, <3>1
  <2>3. \A h \in Keys : ~Workspace!Held(journal.reservations, h) => rs[h] = Workspace!None
    BY DEF Workspace!Held
  <2> HIDE DEF id
  <2> QED
    BY <2>2, <2>3, WorkspaceNoneIs DEF Workspace!Held
<1>5. hs \in [Keys -> Workspace!Handoff \cup {Workspace!None}] /\ \A h \in Keys : Workspace!Held(hs, h) => Workspace!Held(journal.handoffs, h)
  <2>1. \A r \in Workspace!Handoff : [r EXCEPT !.watching = FALSE] \in Workspace!Handoff
    BY DEF Workspace!Handoff
  <2>2. \A h \in Keys : hs[h] \in Workspace!Handoff \cup {Workspace!None} /\ (Workspace!Held(hs, h) => Workspace!Held(journal.handoffs, h))
    BY <2>1, WorkspaceJournalIs, WorkspaceFiles DEF Workspace!Held
  <2> QED
    BY <2>2
<1>6. /\ es \in [Workspace!Ids -> Workspace!Entry \cup {Workspace!None}]
      /\ \A i \in Workspace!Ids : Workspace!Held(journal.entries, i) /\ i # id => es[i] = journal.entries[i]
  <2>1. \A e \in Workspace!Entry : [e EXCEPT !.pad = FALSE, !.keep = FALSE] \in Workspace!Entry
    BY DEF Workspace!Entry
  <2>2. \A i \in Workspace!Ids : es[i] \in Workspace!Entry \cup {Workspace!None}
    BY <2>1, WorkspaceJournalIs, WorkspaceFiles DEF Workspace!Held
  <2> QED
    BY <2>2
<1> HIDE DEF cs, rs, hs, es
<1>7. j \in Workspace!Journal
  BY <1>2, <1>3, <1>4, <1>5, <1>6, WorkspaceJournalIs, WorkspaceFiles
<1>8. WorkspaceFollows(j, journal)
  <2>1. \A i : i = id => Workspace!Closed(j, i)
    BY <1>2, <1>3 DEF Workspace!Closed
  <2>2. \A h \in Keys : Workspace!Held(journal.closes, h) => journal.closes[h].attempted \subseteq cs[h].attempted
    BY <1>3
  <2>3. \A h \in Keys : Workspace!Held(j.handoffs, h) => Workspace!Held(j.reservations, h)
    BY <1>2, <1>4, <1>5, WorkspaceFiles DEF Workspace!Kept
  <2>4. \A i \in Workspace!Ids : Workspace!Held(journal.entries, i) /\ journal.entries[i].keep
                       => Workspace!Closed(j, i) \/ (Workspace!Held(j.entries, i) /\ j.entries[i].keep)
    BY <2>1, <1>2, <1>6 DEF Workspace!Held
  <2>5. j.high >= journal.high
    BY <1>2, WorkspaceJournalIs, WorkspaceFiles DEF Workspace!Spaces
  <2> QED
    BY <1>2, <1>3, <1>4, <1>7, <2>2, <2>3, <2>4, <2>5 DEF WorkspaceFollows
<1>9. Workspace!FileInv' /\ journal' = j /\ poisoned' \in BOOLEAN /\ turns' \in 0..WorkspaceEnv /\ (workspaceOp' = Workspace!None \/ workspaceOp' = next)
  <2>1. \A i \in watchers' : i \in Keys /\ Workspace!Held(j.closes, i)
    BY <1>1, <1>2, <1>3 DEF Workspace!IInv, Workspace!FileInv
  <2> QED
    BY <2>1, <1>1, <1>8, WorkspaceSaveKeeps DEF Workspace!IInv
<1>10. workspaceOp' \in Workspace!Steps \cup {Workspace!None} /\ Workspace!HolderInv' /\ Workspace!NoRevival'
  <2>1. CASE workspaceOp' = next
    <3>1. workspaceOp' \in Workspace!Steps
      BY <2>1 DEF Workspace!Steps
    <3> QED
      BY <2>1, <3>1, <1>2, <1>3, <1>9 DEF Workspace!HolderInv, Workspace!NoRevival
  <2> QED
    BY <2>1, <1>9, WorkspaceNobody
<1> QED
  BY <1>1, <1>9, <1>10 DEF Workspace!IInv, Workspace!Shapes

WorkspaceWithClose(k, c) == [journal EXCEPT !.closes[k] = c]

\* A journal that differs in one close, with at least the attempts recorded.
LEMMA WorkspaceCloseFollows ==
  ASSUME Workspace!IInv, NEW k \in Keys, Workspace!Held(journal.closes, k), NEW c \in Workspace!Close, c.id = journal.closes[k].id,
         journal.closes[k].attempted \subseteq c.attempted, NEW j, j = WorkspaceWithClose(k, c)
  PROVE  /\ WorkspaceFollows(j, journal) /\ j.closes[k] = c /\ Workspace!Held(j.closes, k)
         /\ \A h \in Keys : Workspace!Held(journal.closes, h) => Workspace!Held(j.closes, h)
<1>1. /\ j.high = journal.high /\ j.entries = journal.entries /\ j.reservations = journal.reservations
      /\ j.handoffs = journal.handoffs /\ j.closes = [journal.closes EXCEPT ![k] = c]
      /\ j = [high |-> journal.high, entries |-> journal.entries, reservations |-> journal.reservations,
              closes |-> [journal.closes EXCEPT ![k] = c], handoffs |-> journal.handoffs]
  BY WorkspaceFiles DEF Workspace!Journal, WorkspaceWithClose
<1>2. journal.closes \in [Keys -> Workspace!Close \cup {Workspace!None}] /\ [journal.closes EXCEPT ![k] = c] \in [Keys -> Workspace!Close \cup {Workspace!None}]
  BY WorkspaceJournalIs, WorkspaceFiles
<1>3. j \in Workspace!Journal
  BY <1>1, <1>2, WorkspaceJournalIs, WorkspaceFiles
<1>4. j.closes[k] = c /\ Workspace!Held(j.closes, k) /\ \A h \in Keys \ {k} : j.closes[h] = journal.closes[h]
  BY <1>1, <1>2, WorkspaceNoneIs DEF Workspace!Held
<1>5. \A h \in Keys : Workspace!Held(journal.closes, h) =>
         Workspace!Held(j.closes, h) /\ j.closes[h].id = journal.closes[h].id /\ journal.closes[h].attempted \subseteq j.closes[h].attempted
  BY <1>4 DEF Workspace!Held
<1>6. journal.high >= journal.high
  BY WorkspaceJournalIs, WorkspaceFiles DEF Workspace!Spaces
<1> QED
  BY <1>1, <1>3, <1>4, <1>5, <1>6, WorkspaceFiles DEF WorkspaceFollows, Workspace!Kept

LEMMA WorkspaceAttemptCloseKeeps == ASSUME Workspace!WorkspaceConstantsOK, Workspace!IInv, Workspace!AttemptClose PROVE Workspace!IInv'
<1> DEFINE k == workspaceOp.key
           old == journal.closes[k]
<1>1. workspaceOp # Workspace!None /\ workspaceOp.kind = "close" /\ workspaceOp.at = "next" /\ workspaceOp \in Workspace!Steps
  BY DEF Workspace!AttemptClose, Workspace!IInv, Workspace!Shapes
<1>2. k \in Keys /\ Workspace!Held(journal.closes, k) /\ old \in Workspace!Close
  BY <1>1, WorkspaceJournalIs, WorkspaceFiles DEF Workspace!IInv, Workspace!HolderInv, Workspace!Steps
<1>3. UNCHANGED <<desk, intake, pins, grace, workspaceSent, used>>
  BY DEF Workspace!AttemptClose
<1>4. ASSUME NEW w \in old.targets \ old.attempted,
             Workspace!Save([journal EXCEPT !.closes[k].attempted = @ \cup {w}], [kind |-> "close", key |-> k, at |-> "ask", window |-> w]),
             UNCHANGED watchers
      PROVE  Workspace!IInv'
  <2> DEFINE c == [old EXCEPT !.attempted = @ \cup {w}]
             j == [journal EXCEPT !.closes[k].attempted = @ \cup {w}]
             next == [kind |-> "close", key |-> k, at |-> "ask", window |-> w]
  <2>1. c \in Workspace!Close /\ c.id = old.id /\ old.attempted \subseteq c.attempted /\ w \in c.attempted /\ w \in Windows
    <3> HIDE DEF old
    <3> QED
      BY <1>2 DEF Workspace!Close
  <2>2. j = WorkspaceWithClose(k, c)
    BY WorkspaceFiles DEF Workspace!Journal, WorkspaceWithClose
  <2> HIDE DEF c, j, k
  <2>3. /\ WorkspaceFollows(j, journal) /\ j.closes[k] = c /\ Workspace!Held(j.closes, k)
        /\ \A h \in Keys : Workspace!Held(journal.closes, h) => Workspace!Held(j.closes, h)
    BY <1>2, <2>1, <2>2, WorkspaceCloseFollows
  <2>4. Workspace!FileInv' /\ journal' = j /\ poisoned' \in BOOLEAN /\ turns' \in 0..WorkspaceEnv /\ (workspaceOp' = Workspace!None \/ workspaceOp' = next)
    <3>1. \A i \in watchers' : i \in Keys /\ Workspace!Held(j.closes, i)
      BY <1>4, <2>3 DEF Workspace!IInv, Workspace!FileInv
    <3>2. Workspace!Save(j, next)
      BY <1>4 DEF j
    <3> QED
      BY <3>1, <3>2, <1>3, <2>3, WorkspaceSaveKeeps DEF Workspace!IInv
  <2>5. workspaceOp' \in Workspace!Steps \cup {Workspace!None} /\ Workspace!HolderInv' /\ Workspace!NoRevival'
    <3>1. CASE workspaceOp' = next
      <4>1. workspaceOp' \in Workspace!Steps
        BY <3>1, <2>1, <1>2 DEF Workspace!Steps
      <4> QED
        BY <3>1, <4>1, <2>1, <2>3, <2>4 DEF Workspace!HolderInv, Workspace!NoRevival
    <3> QED
      BY <3>1, <2>4, WorkspaceNobody
  <2> QED
    BY <1>3, <2>4, <2>5 DEF Workspace!IInv, Workspace!Shapes
<1>5. ASSUME Workspace!Save([journal EXCEPT !.closes[k].status = "waiting"], Workspace!None),
             watchers' = IF poisoned' THEN watchers ELSE watchers \cup {k}
      PROVE  Workspace!IInv'
  <2> DEFINE c == [old EXCEPT !.status = "waiting"]
             j == [journal EXCEPT !.closes[k].status = "waiting"]
  <2>1. c \in Workspace!Close /\ c.id = old.id /\ old.attempted \subseteq c.attempted
    <3> HIDE DEF old
    <3> QED
      BY <1>2 DEF Workspace!Close
  <2>2. j = WorkspaceWithClose(k, c)
    BY WorkspaceFiles DEF Workspace!Journal, WorkspaceWithClose
  <2> HIDE DEF c, j, k
  <2>3. /\ WorkspaceFollows(j, journal) /\ Workspace!Held(j.closes, k)
        /\ \A h \in Keys : Workspace!Held(journal.closes, h) => Workspace!Held(j.closes, h)
    BY <1>2, <2>1, <2>2, WorkspaceCloseFollows
  <2>4. Workspace!FileInv' /\ poisoned' \in BOOLEAN /\ turns' \in 0..WorkspaceEnv /\ workspaceOp' = Workspace!None
    <3>1. \A i \in watchers' : i \in Keys /\ Workspace!Held(j.closes, i)
      BY <1>2, <1>5, <2>3 DEF Workspace!IInv, Workspace!FileInv
    <3>2. Workspace!Save(j, Workspace!None)
      BY <1>5 DEF j
    <3> QED
      BY <3>1, <3>2, <1>3, <2>3, WorkspaceSaveKeeps DEF Workspace!IInv
  <2> QED
    BY <1>3, <2>4, WorkspaceNobody DEF Workspace!IInv, Workspace!Shapes
<1> QED
  BY <1>4, <1>5 DEF Workspace!AttemptClose

LEMMA WorkspaceAskCloseKeeps == ASSUME Workspace!WorkspaceConstantsOK, Workspace!IInv, Workspace!AskClose PROVE Workspace!IInv'
<1>1. workspaceOp # Workspace!None /\ workspaceOp.kind = "close" /\ workspaceOp.at = "ask" /\ workspaceOp \in Workspace!Steps /\ ~poisoned
  BY WorkspaceFiles DEF Workspace!AskClose, Workspace!IInv, Workspace!Shapes
<1>2. /\ workspaceOp.key \in Keys /\ workspaceOp.window \in Windows /\ Workspace!Held(journal.closes, workspaceOp.key)
      /\ workspaceOp.window \in journal.closes[workspaceOp.key].attempted
  BY <1>1 DEF Workspace!IInv, Workspace!HolderInv, Workspace!Steps
<1>3. /\ workspaceOp' = [kind |-> "close", key |-> workspaceOp.key, at |-> "next"]
      /\ workspaceSent' = [workspaceSent EXCEPT ![workspaceOp.key].closed = @ \cup {workspaceOp.window}]
      /\ UNCHANGED <<journal, workspaceDisk, poisoned, watchers, intake, grace, used>>
  BY DEF Workspace!AskClose
<1>4. desk' \in Workspace!Desk /\ turns' \in 0..WorkspaceEnv /\ pins' \in [Keys -> {"none", "present", "moved", "gone"}]
  <2>1. desk' \in Workspace!Desk
    <3>1. 0 \in 0..WorkspaceIds
      BY DEF Workspace!WorkspaceConstantsOK
    <3>2. desk' = desk \/ desk' = [desk EXCEPT !.at[workspaceOp.window] = 0]
      BY DEF Workspace!AskClose
    <3> QED
      BY <3>1, <3>2, WorkspaceFiles DEF Workspace!Desk
  <2>2. turns' \in 0..WorkspaceEnv
    BY DEF Workspace!AskClose, Workspace!Spend, Workspace!IInv, Workspace!Shapes, Workspace!WorkspaceConstantsOK
  <2>3. pins' \in [Keys -> {"none", "present", "moved", "gone"}]
    BY DEF Workspace!AskClose, Workspace!IInv, Workspace!Shapes
  <2> QED
    BY <2>1, <2>2, <2>3
<1>5. /\ workspaceSent' \in [Keys -> [moves : 0..1, closed : SUBSET Windows]]
      /\ workspaceSent'[workspaceOp.key].moves = workspaceSent[workspaceOp.key].moves /\ workspaceSent'[workspaceOp.key].closed = workspaceSent[workspaceOp.key].closed \cup {workspaceOp.window}
      /\ \A k \in Keys \ {workspaceOp.key} : workspaceSent'[k] = workspaceSent[k]
  <2>1. workspaceSent \in [Keys -> [moves : 0..1, closed : SUBSET Windows]]
    BY DEF Workspace!IInv, Workspace!Shapes
  <2> DEFINE e == [workspaceSent[workspaceOp.key] EXCEPT !.closed = @ \cup {workspaceOp.window}]
  <2>2. /\ e \in [moves : 0..1, closed : SUBSET Windows] /\ e.moves = workspaceSent[workspaceOp.key].moves
        /\ e.closed = workspaceSent[workspaceOp.key].closed \cup {workspaceOp.window}
    BY <2>1, <1>2
  <2>3. workspaceSent' = [workspaceSent EXCEPT ![workspaceOp.key] = e]
    BY <1>3
  <2> HIDE DEF e
  <2> QED
    BY <2>1, <2>2, <2>3, <1>2
<1>6. Workspace!FileInv'
  <2>1. workspaceSent'[workspaceOp.key].closed \subseteq journal.closes[workspaceOp.key].attempted
    BY <1>2, <1>5, WorkspaceFiles DEF Workspace!Kept
  <2> QED
    BY <2>1, <1>1, <1>2, <1>3, <1>5, WorkspaceSentKeeps
<1>7. workspaceOp' \in Workspace!Steps /\ Workspace!HolderInv' /\ Workspace!NoRevival'
  <2>1. workspaceOp' \in Workspace!Steps
    BY <1>2, <1>3 DEF Workspace!Steps
  <2> QED
    BY <2>1, <1>2, <1>3 DEF Workspace!HolderInv, Workspace!NoRevival
<1> QED
  BY <1>3, <1>4, <1>5, <1>6, <1>7 DEF Workspace!IInv, Workspace!Shapes

LEMMA WorkspaceObserveCloseKeeps == ASSUME Workspace!WorkspaceConstantsOK, Workspace!IInv, NEW k \in Keys, Workspace!ObserveClose(k) PROVE Workspace!IInv'
<1> DEFINE old == journal.closes[k]
<1>1. PICK s \in {"still-open", "closed", "unknown"} :
          Workspace!Save([journal EXCEPT !.closes[k].status = s], IF s = "unknown" THEN Workspace!None ELSE Workspace!cleanup(desk))
  BY DEF Workspace!ObserveClose
<1>2. /\ k \in watchers /\ watchers' = watchers \ {k} /\ UNCHANGED <<desk, intake, pins, grace, workspaceSent, used>>
      /\ Workspace!Held(journal.closes, k) /\ old \in Workspace!Close
  BY WorkspaceJournalIs, WorkspaceFiles DEF Workspace!ObserveClose, Workspace!IInv, Workspace!FileInv
<1> DEFINE c == [old EXCEPT !.status = s]
           j == [journal EXCEPT !.closes[k].status = s]
<1>3. c \in Workspace!Close /\ c.id = old.id /\ old.attempted \subseteq c.attempted
  <2> HIDE DEF old
  <2> QED
    BY <1>2 DEF Workspace!Close
<1>4. j = WorkspaceWithClose(k, c)
  BY WorkspaceFiles DEF Workspace!Journal, WorkspaceWithClose
<1> HIDE DEF c, j
<1>5. WorkspaceFollows(j, journal) /\ \A h \in Keys : Workspace!Held(journal.closes, h) => Workspace!Held(j.closes, h)
  BY <1>2, <1>3, <1>4, WorkspaceCloseFollows
<1>6. /\ Workspace!FileInv' /\ poisoned' \in BOOLEAN /\ turns' \in 0..WorkspaceEnv
      /\ workspaceOp' = Workspace!None \/ workspaceOp' = IF s = "unknown" THEN Workspace!None ELSE Workspace!cleanup(desk)
  <2>1. \A i \in watchers' : i \in Keys /\ Workspace!Held(j.closes, i)
    BY <1>2, <1>5 DEF Workspace!IInv, Workspace!FileInv
  <2>2. Workspace!Save(j, IF s = "unknown" THEN Workspace!None ELSE Workspace!cleanup(desk))
    BY <1>1 DEF j
  <2> QED
    BY <2>1, <2>2, <1>2, <1>5, WorkspaceSaveKeeps DEF Workspace!IInv
<1>7. workspaceOp' = Workspace!None \/ workspaceOp' = Workspace!cleanup(desk)
  BY <1>6
<1> QED
  BY <1>2, <1>6, <1>7, WorkspaceNobody, WorkspaceCleanupIs, WorkspaceFiles DEF Workspace!IInv, Workspace!Shapes

-----------------------------------------------------------------------------

WorkspaceWithHandoffs(hs) == [journal EXCEPT !.handoffs = hs]

\* A journal that differs in its observers, of which there are no new ones.
LEMMA WorkspaceHandoffsFollow ==
  ASSUME Workspace!IInv, NEW hs \in [Keys -> Workspace!Handoff \cup {Workspace!None}], \A h \in Keys : Workspace!Held(hs, h) => Workspace!Held(journal.handoffs, h),
         NEW j, j = WorkspaceWithHandoffs(hs)
  PROVE  /\ WorkspaceFollows(j, journal) /\ j.handoffs = hs /\ j.reservations = journal.reservations
         /\ j.closes = journal.closes /\ j.high = journal.high
<1>1. /\ j.high = journal.high /\ j.entries = journal.entries /\ j.reservations = journal.reservations
      /\ j.closes = journal.closes /\ j.handoffs = hs
      /\ j = [high |-> journal.high, entries |-> journal.entries, reservations |-> journal.reservations,
              closes |-> journal.closes, handoffs |-> hs]
  BY WorkspaceFiles DEF Workspace!Journal, WorkspaceWithHandoffs
<1>2. j \in Workspace!Journal
  BY <1>1, WorkspaceJournalIs, WorkspaceFiles
<1>3. j.high >= journal.high
  BY <1>1, WorkspaceJournalIs, WorkspaceFiles DEF Workspace!Spaces
<1> QED
  BY <1>1, <1>2, <1>3, WorkspaceFiles DEF WorkspaceFollows, Workspace!Kept

\* One observer's record changes, or it is forgotten.
LEMMA WorkspaceHandoffIs ==
  ASSUME Workspace!IInv, NEW k \in Keys, NEW n \in Workspace!Handoff \cup {Workspace!None}, n # Workspace!None => Workspace!Held(journal.handoffs, k)
  PROVE  LET hs == [journal.handoffs EXCEPT ![k] = n]
         IN /\ hs \in [Keys -> Workspace!Handoff \cup {Workspace!None}] /\ hs[k] = n
            /\ \A h \in Keys : Workspace!Held(hs, h) => Workspace!Held(journal.handoffs, h)
            /\ \A h \in Keys \ {k} : hs[h] = journal.handoffs[h]
BY WorkspaceJournalIs, WorkspaceFiles DEF Workspace!Held

LEMMA WorkspaceWithoutIs ==
  ASSUME Workspace!IInv, NEW k \in Keys
  PROVE  Workspace!Without(journal, {k}) = WorkspaceWithHandoffs([journal.handoffs EXCEPT ![k] = Workspace!None])
<1>1. [h \in Keys |-> IF h \in {k} THEN Workspace!None ELSE journal.handoffs[h]] = [journal.handoffs EXCEPT ![k] = Workspace!None]
  BY WorkspaceJournalIs, WorkspaceFiles
<1>2. Workspace!Without(journal, {k}) = [journal EXCEPT !.handoffs = [h \in Keys |-> IF h \in {k} THEN Workspace!None ELSE journal.handoffs[h]]]
  BY WorkspaceFiles DEF Workspace!Without, Workspace!Journal
<1> QED
  BY <1>1, <1>2 DEF WorkspaceWithHandoffs

\* The records of a call that reconciles.
WorkspaceReconciling == [kind: {"reconcile"}, key: Keys \cup {"-"}, at: {"fence", "look", "replace", "adopt", "cancel"}, seen: Workspace!Desk,
                todo: SUBSET Keys, moved: BOOLEAN]

LEMMA WorkspaceReconcilingIs ==
  /\ WorkspaceReconciling \subseteq Workspace!Steps
  /\ \A o \in Workspace!Steps : o.kind = "reconcile" => o \in WorkspaceReconciling
  /\ \A o \in WorkspaceReconciling : o # Workspace!None
BY WorkspaceNoneIs DEF Workspace!Steps, WorkspaceReconciling

LEMMA WorkspaceFenceKeeps == ASSUME Workspace!WorkspaceConstantsOK, Workspace!IInv, Workspace!Fence PROVE Workspace!IInv'
<1> DEFINE fenced == [k \in Keys |->
              IF Workspace!Held(journal.handoffs, k) /\ Workspace!Away(journal.handoffs[k], journal.reservations[k].id, intake, workspaceOp.seen)
              THEN [journal.handoffs[k] EXCEPT !.watching = FALSE] ELSE journal.handoffs[k]]
           next == [workspaceOp EXCEPT !.at = "look", !.todo = Workspace!Observers(journal)]
<1>1. workspaceOp # Workspace!None /\ workspaceOp.kind = "reconcile" /\ workspaceOp \in WorkspaceReconciling /\ ~poisoned
  BY WorkspaceFiles, WorkspaceReconcilingIs DEF Workspace!Fence, Workspace!IInv, Workspace!Shapes
<1>2. IF fenced = journal.handoffs THEN workspaceOp' = next /\ UNCHANGED <<journal, workspaceDisk, poisoned, turns>>
      ELSE Workspace!Save(WorkspaceWithHandoffs(fenced), next)
  BY DEF Workspace!Fence, WorkspaceWithHandoffs
<1>3. intake' = Workspace!NoEvents /\ UNCHANGED <<desk, watchers, pins, grace, workspaceSent, used>>
  BY DEF Workspace!Fence
<1>4. fenced \in [Keys -> Workspace!Handoff \cup {Workspace!None}] /\ \A h \in Keys : Workspace!Held(fenced, h) <=> Workspace!Held(journal.handoffs, h)
  <2>1. \A r \in Workspace!Handoff : [r EXCEPT !.watching = FALSE] \in Workspace!Handoff
    BY DEF Workspace!Handoff
  <2>2. ASSUME NEW h \in Keys PROVE fenced[h] \in Workspace!Handoff \cup {Workspace!None} /\ (Workspace!Held(fenced, h) <=> Workspace!Held(journal.handoffs, h))
    <3>1. Workspace!Held(journal.handoffs, h) => journal.handoffs[h] \in Workspace!Handoff
      BY WorkspaceJournalIs, WorkspaceFiles
    <3>2. ~Workspace!Held(journal.handoffs, h) => journal.handoffs[h] = Workspace!None
      BY DEF Workspace!Held
    <3>3. Workspace!Held(journal.handoffs, h) => fenced[h] \in Workspace!Handoff
      BY <2>1, <3>1
    <3>4. ~Workspace!Held(journal.handoffs, h) => fenced[h] = Workspace!None
      BY <3>2
    <3> HIDE DEF fenced
    <3> QED
      BY <3>3, <3>4, WorkspaceNoneIs DEF Workspace!Held
  <2> QED
    BY <2>2
<1>5. next \in WorkspaceReconciling /\ next.kind = "reconcile" /\ next.at = "look" /\ next.todo = Workspace!Observers(journal)
  BY <1>1 DEF WorkspaceReconciling, Workspace!Observers
<1> HIDE DEF fenced, next
<1>6. /\ Workspace!FileInv' /\ poisoned' \in BOOLEAN /\ turns' \in 0..WorkspaceEnv
      /\ workspaceOp' = Workspace!None \/ (workspaceOp' = next /\ Workspace!Observers(journal)' = Workspace!Observers(journal))
  <2>1. CASE fenced = journal.handoffs
    BY <2>1, <1>1, <1>2, <1>3, WorkspaceFilesStay DEF Workspace!IInv, Workspace!Shapes
  <2>2. CASE fenced # journal.handoffs
    <3> DEFINE j == WorkspaceWithHandoffs(fenced)
    <3>1. WorkspaceFollows(j, journal) /\ j.handoffs = fenced /\ j.closes = journal.closes
      BY <1>4, WorkspaceHandoffsFollow
    <3>2. \A i \in watchers' : i \in Keys /\ Workspace!Held(j.closes, i)
      BY <1>3, <3>1 DEF Workspace!IInv, Workspace!FileInv
    <3> HIDE DEF j
    <3>3. Workspace!Save(j, next)
      BY <2>2, <1>2 DEF j
    <3>4. Workspace!FileInv' /\ journal' = j /\ poisoned' \in BOOLEAN /\ turns' \in 0..WorkspaceEnv /\ (workspaceOp' = Workspace!None \/ workspaceOp' = next)
      BY <3>1, <3>2, <3>3, <1>3, WorkspaceSaveKeeps DEF Workspace!IInv
    <3> QED
      BY <3>1, <3>4, <1>4 DEF Workspace!Observers
  <2> QED
    BY <2>1, <2>2
<1>7. workspaceOp' \in Workspace!Steps \cup {Workspace!None} /\ Workspace!HolderInv' /\ Workspace!NoRevival'
  <2>1. CASE workspaceOp' = next /\ Workspace!Observers(journal)' = Workspace!Observers(journal)
    BY <2>1, <1>5, WorkspaceReconcilingIs DEF Workspace!HolderInv, Workspace!NoRevival
  <2> QED
    BY <2>1, <1>6, WorkspaceNobody
<1>8. intake' \in [moved: SUBSET (Windows \X (0..WorkspaceIds)), lost: BOOLEAN]
  BY <1>3 DEF Workspace!NoEvents
<1> QED
  BY <1>3, <1>6, <1>7, <1>8 DEF Workspace!IInv, Workspace!Shapes

\* The next observer is looked at.
LEMMA WorkspaceLooksOn ==
  ASSUME Workspace!IInv, workspaceOp \in WorkspaceReconciling, workspaceOp.at # "fence", NEW k \in Keys, NEW key \in Keys \cup {"-"}, NEW moved \in BOOLEAN,
         workspaceOp' = [workspaceOp EXCEPT !.at = "look", !.key = key, !.moved = moved, !.todo = @ \ {k}],
         \A h \in Keys \ {k} : Workspace!Held(journal.handoffs, h) => Workspace!Held(journal'.handoffs, h)
  PROVE  workspaceOp' \in Workspace!Steps /\ Workspace!HolderInv' /\ Workspace!NoRevival'
<1>1. workspaceOp' \in WorkspaceReconciling /\ workspaceOp'.kind = "reconcile" /\ workspaceOp'.at = "look" /\ workspaceOp'.todo = workspaceOp.todo \ {k}
  BY DEF WorkspaceReconciling
<1>2. workspaceOp.todo \subseteq Workspace!Observers(journal)
  BY WorkspaceReconcilingIs DEF Workspace!IInv, Workspace!HolderInv, WorkspaceReconciling
<1>3. workspaceOp'.todo \subseteq Workspace!Observers(journal)'
  BY <1>1, <1>2 DEF Workspace!Observers
<1> QED
  BY <1>1, <1>3, WorkspaceReconcilingIs DEF Workspace!HolderInv, Workspace!NoRevival

LEMMA WorkspaceReconcileKeeps == ASSUME Workspace!WorkspaceConstantsOK, Workspace!IInv, NEW k \in Keys, Workspace!Reconcile(k) PROVE Workspace!IInv'
<1> DEFINE h == journal.handoffs[k]
           id == journal.reservations[k].id
           rest == [workspaceOp EXCEPT !.todo = @ \ {k}]
<1>1. workspaceOp # Workspace!None /\ workspaceOp.kind = "reconcile" /\ workspaceOp.at = "look" /\ k \in workspaceOp.todo /\ workspaceOp \in WorkspaceReconciling /\ ~poisoned
  BY WorkspaceFiles, WorkspaceReconcilingIs DEF Workspace!Reconcile, Workspace!IInv, Workspace!Shapes
<1>2. Workspace!Held(journal.handoffs, k) /\ h \in Workspace!Handoff
  BY <1>1, WorkspaceJournalIs, WorkspaceFiles DEF Workspace!IInv, Workspace!HolderInv, Workspace!Observers
<1>3. UNCHANGED <<desk, watchers, intake, workspaceSent, used>>
  BY DEF Workspace!Reconcile
<1>4. rest = [workspaceOp EXCEPT !.at = "look", !.key = workspaceOp.key, !.moved = workspaceOp.moved, !.todo = @ \ {k}]
      /\ workspaceOp.key \in Keys \cup {"-"} /\ workspaceOp.moved \in BOOLEAN
  BY <1>1 DEF WorkspaceReconciling
<1>5. /\ \A x \in {"none", "present", "moved", "gone"} :
            [pins EXCEPT ![k] = x] \in [Keys -> {"none", "present", "moved", "gone"}]
      /\ \A y \in {"none", "running", "over"} : [grace EXCEPT ![k] = y] \in [Workspace!Ids \cup Keys -> {"none", "running", "over"}]
  BY DEF Workspace!IInv, Workspace!Shapes
<1>6. ASSUME NEW n \in Workspace!Handoff \cup {Workspace!None}, NEW next, Workspace!Save(WorkspaceWithHandoffs([journal.handoffs EXCEPT ![k] = n]), next)
      PROVE  /\ Workspace!FileInv' /\ poisoned' \in BOOLEAN /\ turns' \in 0..WorkspaceEnv
             /\ workspaceOp' = Workspace!None \/ workspaceOp' = next
             /\ journal'.handoffs[k] = n /\ \A i \in Keys \ {k} : journal'.handoffs[i] = journal.handoffs[i]
             /\ journal'.reservations = journal.reservations /\ journal'.closes = journal.closes
  <2> DEFINE hs == [journal.handoffs EXCEPT ![k] = n]
             j == WorkspaceWithHandoffs(hs)
  <2>1. /\ hs \in [Keys -> Workspace!Handoff \cup {Workspace!None}] /\ hs[k] = n
        /\ \A i \in Keys : Workspace!Held(hs, i) => Workspace!Held(journal.handoffs, i)
        /\ \A i \in Keys \ {k} : hs[i] = journal.handoffs[i]
    BY <1>2, WorkspaceHandoffIs
  <2> HIDE DEF hs
  <2>2. /\ WorkspaceFollows(j, journal) /\ j.handoffs = hs /\ j.closes = journal.closes /\ j.reservations = journal.reservations
    BY <2>1, WorkspaceHandoffsFollow
  <2>3. \A i \in watchers' : i \in Keys /\ Workspace!Held(j.closes, i)
    BY <1>3, <2>2 DEF Workspace!IInv, Workspace!FileInv
  <2> HIDE DEF j
  <2>4. Workspace!Save(j, next)
    BY <1>6 DEF j, hs
  <2>5. Workspace!FileInv' /\ journal' = j /\ poisoned' \in BOOLEAN /\ turns' \in 0..WorkspaceEnv /\ (workspaceOp' = Workspace!None \/ workspaceOp' = next)
    BY <2>2, <2>3, <2>4, <1>3, WorkspaceSaveKeeps DEF Workspace!IInv
  <2> QED
    BY <2>1, <2>2, <2>5
<1>7. CASE /\ Workspace!Save(Workspace!Without(journal, {k}), rest)
           /\ pins' = [pins EXCEPT ![k] = "none"] /\ grace' = [grace EXCEPT ![k] = "none"]
  <2>1. Workspace!Save(WorkspaceWithHandoffs([journal.handoffs EXCEPT ![k] = Workspace!None]), rest)
    BY <1>7, WorkspaceWithoutIs
  <2> HIDE DEF rest
  <2>2. /\ Workspace!FileInv' /\ poisoned' \in BOOLEAN /\ turns' \in 0..WorkspaceEnv /\ (workspaceOp' = Workspace!None \/ workspaceOp' = rest)
        /\ \A i \in Keys \ {k} : journal'.handoffs[i] = journal.handoffs[i]
    BY <1>6, <2>1
  <2>3. workspaceOp' = rest => workspaceOp' \in Workspace!Steps /\ Workspace!HolderInv' /\ Workspace!NoRevival'
    BY <1>1, <1>4, <2>2, WorkspaceLooksOn DEF Workspace!Held
  <2> QED
    BY <1>3, <1>5, <1>7, <2>2, <2>3, WorkspaceNobody DEF Workspace!IInv, Workspace!Shapes
<1>8. CASE /\ journal' = [journal EXCEPT !.handoffs[k].excluded = @ \cup Workspace!Candidates(h)]
           /\ workspaceOp' = rest /\ grace' = [grace EXCEPT ![k] = "none"] /\ UNCHANGED <<workspaceDisk, poisoned, turns, pins>>
  <2> DEFINE n == [h EXCEPT !.excluded = @ \cup Workspace!Candidates(h)]
             hs == [journal.handoffs EXCEPT ![k] = n]
             j == WorkspaceWithHandoffs(hs)
  <2>1. n \in Workspace!Handoff
    <3>1. Workspace!Candidates(h) \subseteq Windows
      BY DEF Workspace!Candidates
    <3> HIDE DEF h
    <3> QED
      BY <3>1, <1>2 DEF Workspace!Handoff
  <2>2. journal' = j
    BY <1>8, WorkspaceFiles DEF WorkspaceWithHandoffs, Workspace!Journal
  <2> HIDE DEF n
  <2>3. /\ hs \in [Keys -> Workspace!Handoff \cup {Workspace!None}]
        /\ \A i \in Keys : Workspace!Held(hs, i) => Workspace!Held(journal.handoffs, i)
        /\ \A i \in Keys \ {k} : hs[i] = journal.handoffs[i]
    BY <1>2, <2>1, WorkspaceHandoffIs
  <2> HIDE DEF hs
  <2>4. /\ WorkspaceFollows(j, journal) /\ j.handoffs = hs /\ j.closes = journal.closes /\ j.reservations = journal.reservations
        /\ j.high = journal.high
    BY <2>3, WorkspaceHandoffsFollow
  <2> HIDE DEF j
  <2>5. Workspace!FileInv'
    BY <1>1, <1>3, <1>8, <2>2, <2>4, WorkspaceMemoryKeeps DEF Workspace!IInv
  <2>6. workspaceOp' \in Workspace!Steps /\ Workspace!HolderInv' /\ Workspace!NoRevival'
    <3>1. \A i \in Keys \ {k} : Workspace!Held(journal.handoffs, i) => Workspace!Held(journal'.handoffs, i)
      BY <2>2, <2>3, <2>4 DEF Workspace!Held
    <3>2. workspaceOp' = rest
      BY <1>8
    <3> HIDE DEF rest
    <3> QED
      BY <1>1, <1>4, <3>1, <3>2, WorkspaceLooksOn
  <2> QED
    BY <1>3, <1>5, <1>8, <2>5, <2>6 DEF Workspace!IInv, Workspace!Shapes
<1>9. CASE /\ workspaceOp' = rest /\ grace' = [grace EXCEPT ![k] = "running"]
           /\ UNCHANGED <<journal, workspaceDisk, poisoned, turns, pins>>
  <2>1. Workspace!FileInv'
    BY <1>1, <1>3, <1>9, WorkspaceFilesStay DEF Workspace!IInv
  <2>2. workspaceOp' \in Workspace!Steps /\ Workspace!HolderInv' /\ Workspace!NoRevival'
    <3> HIDE DEF rest
    <3> QED
      BY <1>1, <1>4, <1>9, WorkspaceLooksOn
  <2> QED
    BY <1>3, <1>5, <1>9, <2>1, <2>2 DEF Workspace!IInv, Workspace!Shapes
<1>10. ASSUME NEW w \in Workspace!Candidates(h), ~Workspace!GivesUp(k, h, id),
              Workspace!Save([journal EXCEPT !.handoffs[k].watching = FALSE],
                   [workspaceOp EXCEPT !.key = k, !.at = "replace", !.todo = @ \ {k}]),
              grace' = [grace EXCEPT ![k] = "running"], UNCHANGED pins
       PROVE  Workspace!IInv'
  <2> DEFINE n == [h EXCEPT !.watching = FALSE]
             next == [workspaceOp EXCEPT !.key = k, !.at = "replace", !.todo = @ \ {k}]
  <2>1. n \in Workspace!Handoff /\ n.window = h.window /\ n.excluded = h.excluded
    <3> HIDE DEF h
    <3> QED
      BY <1>2 DEF Workspace!Handoff
  <2>2. [journal EXCEPT !.handoffs[k].watching = FALSE] = WorkspaceWithHandoffs([journal.handoffs EXCEPT ![k] = n])
    BY WorkspaceFiles DEF WorkspaceWithHandoffs, Workspace!Journal
  <2>3. next \in WorkspaceReconciling /\ next.kind = "reconcile" /\ next.at = "replace" /\ next.key = k /\ next.seen = workspaceOp.seen
        /\ next.todo = workspaceOp.todo \ {k}
    BY <1>1 DEF WorkspaceReconciling
  <2>4. ~Workspace!closing(journal, id) /\ Workspace!Candidates(h) = Workspace!Candidates(n)
    BY <1>10, <2>1 DEF Workspace!GivesUp, Workspace!Closed, Workspace!closing, Workspace!Candidates
  <2> HIDE DEF n, next
  <2>5. /\ Workspace!FileInv' /\ poisoned' \in BOOLEAN /\ turns' \in 0..WorkspaceEnv /\ (workspaceOp' = Workspace!None \/ workspaceOp' = next)
        /\ journal'.handoffs[k] = n /\ \A i \in Keys \ {k} : journal'.handoffs[i] = journal.handoffs[i]
        /\ journal'.reservations = journal.reservations /\ journal'.closes = journal.closes
    <3>1. Workspace!Save(WorkspaceWithHandoffs([journal.handoffs EXCEPT ![k] = n]), next)
      BY <1>10, <2>2 DEF next
    <3> QED
      BY <2>1, <3>1, <1>6
  <2>6. ASSUME workspaceOp' = next PROVE workspaceOp' \in Workspace!Steps /\ Workspace!HolderInv' /\ Workspace!NoRevival'
    <3>1. workspaceOp.todo \subseteq Workspace!Observers(journal)
      BY <1>1 DEF Workspace!IInv, Workspace!HolderInv
    <3>2. workspaceOp'.todo \subseteq Workspace!Observers(journal)' /\ k \in Workspace!Observers(journal)' \ workspaceOp'.todo
      BY <2>1, <2>3, <2>5, <2>6, <3>1, WorkspaceNoneIs DEF Workspace!Observers, Workspace!Held
    <3>3. Workspace!Candidates(journal.handoffs[workspaceOp.key])' # {}
      BY <2>3, <2>4, <2>5, <2>6, <1>10 DEF Workspace!Candidates
    <3>4. ~Workspace!closing(journal, journal.reservations[workspaceOp.key].id)'
      BY <2>3, <2>4, <2>5, <2>6 DEF Workspace!closing
    <3> QED
      BY <2>3, <2>6, <3>2, <3>3, <3>4, WorkspaceReconcilingIs DEF Workspace!HolderInv, Workspace!NoRevival
  <2> QED
    BY <1>3, <1>5, <1>10, <2>5, <2>6, WorkspaceNobody DEF Workspace!IInv, Workspace!Shapes
<1> QED
  BY <1>7, <1>8, <1>9, <1>10 DEF Workspace!Reconcile

LEMMA WorkspaceReplaceKeeps == ASSUME Workspace!WorkspaceConstantsOK, Workspace!IInv, Workspace!Replace PROVE Workspace!IInv'
<1> DEFINE k == workspaceOp.key
           w == CHOOSE v \in Workspace!Candidates(journal.handoffs[k]) : TRUE
           id == journal.reservations[k].id
<1>1. workspaceOp # Workspace!None /\ workspaceOp.kind = "reconcile" /\ workspaceOp.at = "replace" /\ workspaceOp \in WorkspaceReconciling /\ ~poisoned
  BY WorkspaceFiles, WorkspaceReconcilingIs DEF Workspace!Replace, Workspace!IInv, Workspace!Shapes
<1>2. /\ k \in Workspace!Observers(journal) \ workspaceOp.todo /\ workspaceOp.todo \subseteq Workspace!Observers(journal)
      /\ Workspace!Candidates(journal.handoffs[k]) # {} /\ k \in Keys
  BY <1>1 DEF Workspace!IInv, Workspace!HolderInv, Workspace!Observers
<1>3. id \in Workspace!Spaces /\ w \in Windows
  <2>1. Workspace!Held(journal.reservations, k)
    BY <1>2, WorkspaceFiles DEF Workspace!Kept, Workspace!Observers
  <2>2. w \in Workspace!Candidates(journal.handoffs[k])
    BY <1>2
  <2> QED
    BY <1>2, <2>1, <2>2, WorkspaceJournalIs, WorkspaceFiles DEF Workspace!Reservation, Workspace!Candidates
<1>4. /\ desk' = desk \/ desk' = [desk EXCEPT !.at[w] = id]
      /\ pins' = pins \/ pins' = [pins EXCEPT ![k] = "present"]
      /\ turns' = turns \/ Workspace!Spend
      /\ \E at \in {"adopt", "cancel"} : workspaceOp' = [workspaceOp EXCEPT !.at = at]
      /\ UNCHANGED <<journal, workspaceDisk, poisoned, watchers, intake, grace, workspaceSent, used>>
  BY DEF Workspace!Replace
<1>5. desk' \in Workspace!Desk /\ turns' \in 0..WorkspaceEnv /\ pins' \in [Keys -> {"none", "present", "moved", "gone"}]
  <2>1. desk' \in Workspace!Desk
    <3>1. id \in 0..WorkspaceIds
      BY <1>3 DEF Workspace!Spaces, Workspace!WorkspaceConstantsOK
    <3> HIDE DEF id, w
    <3> QED
      BY <3>1, <1>3, <1>4, WorkspaceFiles DEF Workspace!Desk
  <2>2. turns' \in 0..WorkspaceEnv
    BY <1>4 DEF Workspace!Spend, Workspace!IInv, Workspace!Shapes, Workspace!WorkspaceConstantsOK
  <2>3. pins' \in [Keys -> {"none", "present", "moved", "gone"}]
    BY <1>2, <1>4 DEF Workspace!IInv, Workspace!Shapes
  <2> QED
    BY <2>1, <2>2, <2>3
<1>6. Workspace!FileInv'
  BY <1>1, <1>4, WorkspaceFilesStay DEF Workspace!IInv
<1>7. workspaceOp' \in Workspace!Steps /\ Workspace!HolderInv' /\ Workspace!NoRevival'
  <2>1. workspaceOp' \in WorkspaceReconciling /\ workspaceOp'.kind = "reconcile" /\ workspaceOp'.at \in {"adopt", "cancel"} /\ workspaceOp'.key = k
        /\ workspaceOp'.seen = workspaceOp.seen /\ workspaceOp'.todo = workspaceOp.todo
    BY <1>1, <1>4 DEF WorkspaceReconciling
  <2>2. Workspace!Candidates(journal.handoffs[workspaceOp.key])' # {}
    BY <2>1, <1>2, <1>4 DEF Workspace!Candidates
  <2>3. Workspace!Observers(journal)' = Workspace!Observers(journal)
    BY <1>4 DEF Workspace!Observers
  <2> QED
    BY <2>1, <2>2, <2>3, <1>2, WorkspaceReconcilingIs DEF Workspace!HolderInv, Workspace!NoRevival
<1> QED
  BY <1>4, <1>5, <1>6, <1>7 DEF Workspace!IInv, Workspace!Shapes

LEMMA WorkspaceReplacedKeeps == ASSUME Workspace!WorkspaceConstantsOK, Workspace!IInv, Workspace!Replaced PROVE Workspace!IInv'
<1> DEFINE k == workspaceOp.key
           h == journal.handoffs[k]
           w == CHOOSE v \in Workspace!Candidates(h) : TRUE
           next == [workspaceOp EXCEPT !.at = "look", !.key = "-", !.moved = @ \/ workspaceOp.at = "adopt"]
<1>1. workspaceOp # Workspace!None /\ workspaceOp.kind = "reconcile" /\ workspaceOp.at \in {"adopt", "cancel"} /\ workspaceOp \in WorkspaceReconciling /\ ~poisoned
  BY WorkspaceFiles, WorkspaceReconcilingIs DEF Workspace!Replaced, Workspace!IInv, Workspace!Shapes
<1>2. /\ k \in Workspace!Observers(journal) \ workspaceOp.todo /\ workspaceOp.todo \subseteq Workspace!Observers(journal)
      /\ Workspace!Candidates(h) # {} /\ k \in Keys
  BY <1>1 DEF Workspace!IInv, Workspace!HolderInv, Workspace!Observers
<1>3. w \in Windows /\ h \in Workspace!Handoff /\ Workspace!Held(journal.handoffs, k)
  <2>1. Workspace!Held(journal.handoffs, k)
    BY <1>2 DEF Workspace!Observers
  <2>2. w \in Workspace!Candidates(h)
    BY <1>2
  <2> QED
    BY <1>2, <2>1, <2>2, WorkspaceJournalIs, WorkspaceFiles DEF Workspace!Candidates
<1>4. UNCHANGED <<desk, watchers, intake, workspaceSent, used>>
  BY DEF Workspace!Replaced
<1>5. next \in WorkspaceReconciling /\ next.kind = "reconcile" /\ next.at = "look" /\ next.todo = workspaceOp.todo
  BY <1>1 DEF WorkspaceReconciling
<1>6. ASSUME NEW n \in Workspace!Handoff \cup {Workspace!None}, Workspace!Save(WorkspaceWithHandoffs([journal.handoffs EXCEPT ![k] = n]), next),
             pins' = pins \/ pins' = [pins EXCEPT ![k] = "none"], grace' = grace \/ grace' = [grace EXCEPT ![k] = "none"]
      PROVE  Workspace!IInv'
  <2> DEFINE hs == [journal.handoffs EXCEPT ![k] = n]
             j == WorkspaceWithHandoffs(hs)
  <2> HIDE DEF h, w, next
  <2>1. /\ hs \in [Keys -> Workspace!Handoff \cup {Workspace!None}]
        /\ \A i \in Keys : Workspace!Held(hs, i) => Workspace!Held(journal.handoffs, i)
        /\ \A i \in Keys \ {k} : hs[i] = journal.handoffs[i]
    BY <1>2, <1>3, WorkspaceHandoffIs
  <2> HIDE DEF hs
  <2>2. /\ WorkspaceFollows(j, journal) /\ j.handoffs = hs /\ j.closes = journal.closes
    BY <2>1, WorkspaceHandoffsFollow
  <2>3. \A i \in watchers' : i \in Keys /\ Workspace!Held(j.closes, i)
    BY <1>4, <2>2 DEF Workspace!IInv, Workspace!FileInv
  <2> HIDE DEF j
  <2>4. Workspace!Save(j, next)
    BY <1>6 DEF j, hs
  <2>5. Workspace!FileInv' /\ journal' = j /\ poisoned' \in BOOLEAN /\ turns' \in 0..WorkspaceEnv /\ (workspaceOp' = Workspace!None \/ workspaceOp' = next)
    BY <2>2, <2>3, <2>4, <1>4, WorkspaceSaveKeeps DEF Workspace!IInv
  <2>6. ASSUME workspaceOp' = next PROVE workspaceOp' \in Workspace!Steps /\ Workspace!HolderInv' /\ Workspace!NoRevival'
    <3>1. workspaceOp'.todo \subseteq Workspace!Observers(journal)'
      BY <2>1, <2>2, <2>5, <2>6, <1>2, <1>5 DEF Workspace!Observers, Workspace!Held
    <3> QED
      BY <3>1, <2>6, <1>5, WorkspaceReconcilingIs DEF Workspace!HolderInv, Workspace!NoRevival
  <2>7. pins' \in [Keys -> {"none", "present", "moved", "gone"}] /\ grace' \in [Workspace!Ids \cup Keys -> {"none", "running", "over"}]
    <3> HIDE DEF k
    <3>1. pins \in [Keys -> {"none", "present", "moved", "gone"}] /\ grace \in [Workspace!Ids \cup Keys -> {"none", "running", "over"}]
      BY DEF Workspace!IInv, Workspace!Shapes
    <3>2. /\ [pins EXCEPT ![k] = "none"] \in [Keys -> {"none", "present", "moved", "gone"}]
          /\ [grace EXCEPT ![k] = "none"] \in [Workspace!Ids \cup Keys -> {"none", "running", "over"}]
      BY <3>1
    <3> QED
      BY <3>1, <3>2, <1>6
  <2> QED
    BY <1>4, <2>5, <2>6, <2>7, WorkspaceNobody DEF Workspace!IInv, Workspace!Shapes
<1>7. CASE workspaceOp.at = "adopt"
  <2> DEFINE n == [h EXCEPT !.window = w, !.replaced = TRUE, !.watching = TRUE]
  <2>1. n \in Workspace!Handoff
    <3> HIDE DEF h, w
    <3> QED
      BY <1>3 DEF Workspace!Handoff
  <2>2. [journal EXCEPT !.handoffs[k] = [@ EXCEPT !.window = w, !.replaced = TRUE, !.watching = TRUE]]
        = WorkspaceWithHandoffs([journal.handoffs EXCEPT ![k] = n])
    BY WorkspaceFiles DEF WorkspaceWithHandoffs, Workspace!Journal
  <2>3. /\ Workspace!Save([journal EXCEPT !.handoffs[k] = [@ EXCEPT !.window = w, !.replaced = TRUE, !.watching = TRUE]], next)
        /\ grace' = [grace EXCEPT ![k] = "none"] /\ UNCHANGED pins
    BY <1>7 DEF Workspace!Replaced
  <2>4. Workspace!Save(WorkspaceWithHandoffs([journal.handoffs EXCEPT ![k] = n]), next)
    <3> HIDE DEF h, w, next, n
    <3> QED
      BY <2>2, <2>3
  <2> HIDE DEF n, next
  <2> QED
    BY <2>1, <2>3, <2>4, <1>6
<1>8. CASE workspaceOp.at = "cancel"
  <2>1. /\ Workspace!Save(Workspace!Without(journal, {k}), next) /\ pins' = [pins EXCEPT ![k] = "none"] /\ UNCHANGED grace
    BY <1>8 DEF Workspace!Replaced
  <2> HIDE DEF next
  <2>2. Workspace!Save(WorkspaceWithHandoffs([journal.handoffs EXCEPT ![k] = Workspace!None]), next)
    BY <2>1, <1>2, WorkspaceWithoutIs
  <2> QED
    BY <2>1, <2>2, <1>6
<1> QED
  BY <1>1, <1>7, <1>8

-----------------------------------------------------------------------------

LEMMA WorkspaceRefreshKeeps == ASSUME Workspace!WorkspaceConstantsOK, Workspace!IInv, Workspace!Refresh PROVE Workspace!IInv'
<1>1. workspaceOp # Workspace!None /\ workspaceOp \in WorkspaceReconciling /\ ~poisoned
  BY WorkspaceFiles, WorkspaceReconcilingIs DEF Workspace!Refresh, Workspace!IInv, Workspace!Shapes
<1>2. workspaceOp' \in [kind: {"retire"}, key: {"-"}, at: {"look"}, seen: Workspace!Desk, todo: SUBSET Workspace!Ids]
      /\ \A i \in workspaceOp'.todo : Workspace!Held(journal.entries, i)
  BY <1>1, WorkspaceFiles DEF Workspace!Refresh, WorkspaceReconciling
<1>3. workspaceOp' \in Workspace!Steps /\ Workspace!HolderInv' /\ Workspace!NoRevival'
  BY <1>2 DEF Workspace!Steps, Workspace!HolderInv, Workspace!NoRevival, Workspace!Refresh
<1>4. Workspace!FileInv'
  BY <1>1, WorkspaceFilesStay DEF Workspace!Refresh, Workspace!IInv
<1> QED
  BY <1>3, <1>4 DEF Workspace!Refresh, Workspace!IInv, Workspace!Shapes

WorkspaceWithEntries(high, es) == [journal EXCEPT !.high = high, !.entries = es]

\* A journal that differs in its entries, where no workspace of a user goes.
LEMMA WorkspaceEntriesFollow ==
  ASSUME Workspace!IInv, NEW es \in [Workspace!Ids -> Workspace!Entry \cup {Workspace!None}], NEW high \in Workspace!Spaces, high >= journal.high,
         \A i \in Workspace!Ids : Workspace!Held(journal.entries, i) /\ journal.entries[i].keep /\ i <= journal.high
                        => Workspace!Held(es, i) /\ es[i].keep,
         NEW j, j = WorkspaceWithEntries(high, es)
  PROVE  /\ WorkspaceFollows(j, journal) /\ j.entries = es /\ j.high = high /\ j.reservations = journal.reservations
         /\ j.closes = journal.closes /\ j.handoffs = journal.handoffs
<1>1. /\ j.high = high /\ j.entries = es /\ j.reservations = journal.reservations
      /\ j.closes = journal.closes /\ j.handoffs = journal.handoffs
      /\ j = [high |-> high, entries |-> es, reservations |-> journal.reservations,
              closes |-> journal.closes, handoffs |-> journal.handoffs]
  BY WorkspaceFiles DEF Workspace!Journal, WorkspaceWithEntries
<1>2. j \in Workspace!Journal
  BY <1>1, WorkspaceJournalIs, WorkspaceFiles
<1> QED
  BY <1>1, <1>2, WorkspaceFiles DEF WorkspaceFollows, Workspace!Kept

\* One entry changes or goes.
LEMMA WorkspaceEntryIs ==
  ASSUME Workspace!IInv, NEW id \in Workspace!Ids, NEW n \in Workspace!Entry \cup {Workspace!None},
         Workspace!Held(journal.entries, id) /\ journal.entries[id].keep /\ id <= journal.high => n # Workspace!None /\ n.keep,
         NEW j, j = WorkspaceWithEntries(journal.high, [journal.entries EXCEPT ![id] = n])
  PROVE  /\ WorkspaceFollows(j, journal) /\ j.high = journal.high /\ j.reservations = journal.reservations
         /\ j.closes = journal.closes /\ j.handoffs = journal.handoffs
         /\ \A i \in Workspace!Ids \ {id} : Workspace!Held(journal.entries, i) => Workspace!Held(j.entries, i) /\ j.entries[i] = journal.entries[i]
<1> DEFINE es == [journal.entries EXCEPT ![id] = n]
<1>1. /\ es \in [Workspace!Ids -> Workspace!Entry \cup {Workspace!None}] /\ es[id] = n /\ \A i \in Workspace!Ids \ {id} : es[i] = journal.entries[i]
  BY WorkspaceJournalIs, WorkspaceFiles
<1>2. j = WorkspaceWithEntries(journal.high, es)
  OBVIOUS
<1> HIDE DEF es
<1>3. journal.high \in Workspace!Spaces /\ journal.high >= journal.high
  BY WorkspaceJournalIs, WorkspaceFiles DEF Workspace!Spaces
<1>4. \A i \in Workspace!Ids : Workspace!Held(journal.entries, i) /\ journal.entries[i].keep /\ i <= journal.high => Workspace!Held(es, i) /\ es[i].keep
  BY <1>1 DEF Workspace!Held
<1>5. /\ WorkspaceFollows(j, journal) /\ j.entries = es /\ j.high = journal.high /\ j.reservations = journal.reservations
      /\ j.closes = journal.closes /\ j.handoffs = journal.handoffs
  BY <1>1, <1>2, <1>3, <1>4, WorkspaceEntriesFollow
<1> QED
  BY <1>1, <1>5 DEF Workspace!Held

\* The records of a call that retires.
WorkspaceRetiring == [kind: {"retire"}, key: {"-"}, at: {"look"}, seen: Workspace!Desk, todo: SUBSET Workspace!Ids]
WorkspaceLeaving == [kind: {"retire"}, key: {"-"}, at: {"leave"}, seen: Workspace!Desk, todo: SUBSET Workspace!Ids, from: Workspace!Ids, to: Workspace!Spaces]

LEMMA WorkspaceRetiringIs ==
  /\ WorkspaceRetiring \subseteq Workspace!Steps /\ WorkspaceLeaving \subseteq Workspace!Steps
  /\ \A o \in Workspace!Steps : o.kind = "retire" => (o \in WorkspaceRetiring /\ o.at = "look") \/ (o \in WorkspaceLeaving /\ o.at = "leave")
BY DEF Workspace!Steps, WorkspaceRetiring, WorkspaceLeaving

\* An entry that stays, changed, or goes without being kept.
LEMMA WorkspaceStayKeeps ==
  ASSUME Workspace!WorkspaceConstantsOK, Workspace!IInv, workspaceOp # Workspace!None, workspaceOp.kind = "retire", workspaceOp.at = "look", NEW id \in workspaceOp.todo,
         NEW n \in Workspace!Entry \cup {Workspace!None}, journal.entries[id].keep => n # Workspace!None /\ n.keep,
         NEW timer \in {"none", "running", "over"},
         journal' = [journal EXCEPT !.entries[id] = n], workspaceOp' = [workspaceOp EXCEPT !.todo = @ \ {id}],
         grace' = [grace EXCEPT ![id] = timer], UNCHANGED <<workspaceDisk, poisoned, turns, used, desk, watchers, intake, pins, workspaceSent>>
  PROVE  Workspace!IInv'
<1>1. workspaceOp \in WorkspaceRetiring /\ id \in Workspace!Ids /\ Workspace!Held(journal.entries, id) /\ ~poisoned
  BY WorkspaceRetiringIs, WorkspaceFiles DEF Workspace!IInv, Workspace!Shapes, Workspace!HolderInv, WorkspaceRetiring
<1> DEFINE j == WorkspaceWithEntries(journal.high, [journal.entries EXCEPT ![id] = n])
<1>2. journal' = j
  BY WorkspaceFiles DEF WorkspaceWithEntries, Workspace!Journal
<1>3. /\ WorkspaceFollows(j, journal) /\ j.high = journal.high /\ j.reservations = journal.reservations
      /\ j.closes = journal.closes /\ j.handoffs = journal.handoffs
      /\ \A i \in Workspace!Ids \ {id} : Workspace!Held(journal.entries, i) => Workspace!Held(j.entries, i) /\ j.entries[i] = journal.entries[i]
  BY <1>1, WorkspaceEntryIs
<1> HIDE DEF j
<1>4. Workspace!FileInv'
  BY <1>1, <1>2, <1>3, WorkspaceMemoryKeeps DEF Workspace!IInv
<1>5. workspaceOp' \in WorkspaceRetiring /\ workspaceOp'.kind = "retire" /\ workspaceOp'.at = "look" /\ workspaceOp'.todo = workspaceOp.todo \ {id}
  BY <1>1 DEF WorkspaceRetiring
<1>6. \A i \in workspaceOp'.todo : Workspace!Held(journal'.entries, i)
  BY <1>1, <1>2, <1>3, <1>5 DEF Workspace!IInv, Workspace!HolderInv, WorkspaceRetiring
<1>7. workspaceOp' \in Workspace!Steps /\ Workspace!HolderInv' /\ Workspace!NoRevival'
  BY <1>5, <1>6, WorkspaceRetiringIs DEF Workspace!HolderInv, Workspace!NoRevival
<1>8. grace' \in [Workspace!Ids \cup Keys -> {"none", "running", "over"}]
  BY DEF Workspace!IInv, Workspace!Shapes
<1> QED
  BY <1>4, <1>7, <1>8 DEF Workspace!IInv, Workspace!Shapes

\* An empty workspace is left for another one.
LEMMA WorkspaceLeavingIs ==
  ASSUME Workspace!IInv, workspaceOp \in WorkspaceRetiring, workspaceOp' # Workspace!None, NEW id \in workspaceOp.todo, NEW to \in Workspace!Spaces,
         workspaceOp' = Workspace!leaving([workspaceOp EXCEPT !.todo = @ \ {id}], id, to), Workspace!Held(journal'.entries, id), ~journal'.entries[id].keep,
         \A i \in workspaceOp.todo : Workspace!Held(journal'.entries, i)
  PROVE  workspaceOp' \in Workspace!Steps /\ Workspace!HolderInv' /\ Workspace!NoRevival'
<1>1. workspaceOp' \in WorkspaceLeaving /\ workspaceOp'.kind = "retire" /\ workspaceOp'.at = "leave" /\ workspaceOp'.todo = workspaceOp.todo \ {id} /\ workspaceOp'.from = id
  BY DEF WorkspaceRetiring, WorkspaceLeaving, Workspace!leaving
<1> QED
  BY <1>1, WorkspaceRetiringIs DEF Workspace!HolderInv, Workspace!NoRevival

LEMMA WorkspaceRetireKeeps == ASSUME Workspace!WorkspaceConstantsOK, Workspace!IInv, NEW id \in Workspace!Ids, Workspace!Retire(id) PROVE Workspace!IInv'
<1> DEFINE e == journal.entries[id]
           rest == [workspaceOp EXCEPT !.todo = @ \ {id}]
           adoptable == ~e.occupied /\ workspaceOp.seen.active = id
           Stay(n, timer) == /\ journal' = [journal EXCEPT !.entries[id] = n] /\ workspaceOp' = rest
                             /\ grace' = [grace EXCEPT ![id] = timer] /\ UNCHANGED <<workspaceDisk, poisoned, turns, used>>
           next == Workspace!allocate(journal, workspaceOp.seen)
           pad == [gen |-> "fallback", occupied |-> FALSE, pad |-> TRUE, keep |-> FALSE]
<1>1. workspaceOp # Workspace!None /\ workspaceOp.kind = "retire" /\ workspaceOp.at = "look" /\ id \in workspaceOp.todo /\ workspaceOp \in WorkspaceRetiring /\ ~poisoned
  BY WorkspaceRetiringIs, WorkspaceFiles DEF Workspace!Retire, Workspace!IInv, Workspace!Shapes
<1>2. Workspace!Held(journal.entries, id) /\ e \in Workspace!Entry /\ \A i \in workspaceOp.todo : Workspace!Held(journal.entries, i)
  BY <1>1, WorkspaceJournalIs, WorkspaceFiles DEF Workspace!IInv, Workspace!HolderInv
<1>3. UNCHANGED <<desk, watchers, intake, pins, workspaceSent>>
  BY DEF Workspace!Retire
<1>4. grace[id] \in {"none", "running", "over"}
  BY DEF Workspace!IInv, Workspace!Shapes
<1>5. ASSUME NEW n \in Workspace!Entry, n.keep = e.keep, NEW timer \in {"none", "running", "over"}, Stay(n, timer) PROVE Workspace!IInv'
  <2>1. n # Workspace!None
    BY WorkspaceNoneIs
  <2> QED
    BY <1>1, <1>3, <1>5, <2>1, WorkspaceStayKeeps
<1>6. [e EXCEPT !.occupied = TRUE] \in Workspace!Entry /\ [e EXCEPT !.occupied = TRUE].keep = e.keep
      /\ [e EXCEPT !.pad = TRUE] \in Workspace!Entry /\ [e EXCEPT !.pad = TRUE].keep = e.keep
  <2> HIDE DEF e
  <2> QED
    BY <1>2 DEF Workspace!Entry
<1>7. \/ Stay([e EXCEPT !.occupied = TRUE], "none")
      \/ Stay(IF ~Workspace!closing(journal, id) /\ adoptable THEN [e EXCEPT !.pad = TRUE] ELSE e, grace[id])
      \/ Stay(e, grace[id])
      \/ Stay(e, IF grace[id] = "none" THEN "running" ELSE grace[id])
      \/ /\ ~Workspace!retained(e, adoptable)
         /\ \/ /\ journal' = [journal EXCEPT !.entries[id] = Workspace!None] /\ grace' = [grace EXCEPT ![id] = "none"]
               /\ workspaceOp' = rest /\ UNCHANGED <<workspaceDisk, poisoned, turns, used>>
            \/ /\ UNCHANGED grace
               /\ \/ \E to \in Workspace!fallback(id) :
                        /\ workspaceOp' = Workspace!leaving(rest, id, to)
                        /\ UNCHANGED <<journal, workspaceDisk, poisoned, turns, used>>
                  \/ /\ next <= WorkspaceIds
                     /\ Workspace!Save([journal EXCEPT !.high = next, !.entries[next] = pad], Workspace!leaving(rest, id, next))
                     /\ used' = IF poisoned' THEN used ELSE [used EXCEPT ![next] = @ + 1]
                  \/ workspaceOp' = Workspace!None /\ UNCHANGED <<journal, workspaceDisk, poisoned, turns, used>>
  BY DEF Workspace!Retire
<1>8. CASE Stay([e EXCEPT !.occupied = TRUE], "none")
  BY <1>5, <1>6, <1>8
<1>9. CASE Stay(IF ~Workspace!closing(journal, id) /\ adoptable THEN [e EXCEPT !.pad = TRUE] ELSE e, grace[id])
  <2> DEFINE n == IF ~Workspace!closing(journal, id) /\ adoptable THEN [e EXCEPT !.pad = TRUE] ELSE e
  <2>1. n \in Workspace!Entry /\ n.keep = e.keep
    BY <1>2, <1>6
  <2>2. Stay(n, grace[id])
    BY <1>9
  <2> HIDE DEF n
  <2> QED
    BY <1>4, <1>5, <2>1, <2>2
<1>10. CASE Stay(e, grace[id])
  BY <1>2, <1>4, <1>5, <1>10
<1>11. CASE Stay(e, IF grace[id] = "none" THEN "running" ELSE grace[id])
  <2> DEFINE timer == IF grace[id] = "none" THEN "running" ELSE grace[id]
  <2>1. timer \in {"none", "running", "over"} /\ Stay(e, timer)
    BY <1>4, <1>11
  <2> HIDE DEF timer
  <2> QED
    BY <1>2, <1>5, <2>1
<1>12. ASSUME ~Workspace!retained(e, adoptable) PROVE ~e.keep
  BY <1>12 DEF Workspace!retained
<1>13. CASE /\ ~e.keep /\ journal' = [journal EXCEPT !.entries[id] = Workspace!None] /\ grace' = [grace EXCEPT ![id] = "none"]
            /\ workspaceOp' = rest /\ UNCHANGED <<workspaceDisk, poisoned, turns, used>>
  BY <1>1, <1>3, <1>13, WorkspaceStayKeeps
<1>14. ASSUME ~e.keep, UNCHANGED grace, NEW to \in Workspace!fallback(id), workspaceOp' = Workspace!leaving(rest, id, to),
              UNCHANGED <<journal, workspaceDisk, poisoned, turns, used>>
       PROVE  Workspace!IInv'
  <2>1. to \in Workspace!Spaces
    BY <1>1 DEF Workspace!fallback, Workspace!Live, WorkspaceRetiring, Workspace!Desk, Workspace!Spaces, Workspace!WorkspaceConstantsOK
  <2>2. workspaceOp' # Workspace!None
    <3>1. "kind" \in DOMAIN workspaceOp' /\ DOMAIN Workspace!None = {"none"}
      BY <1>14 DEF Workspace!leaving, Workspace!None
    <3> QED
      BY <3>1
  <2>3. workspaceOp' \in Workspace!Steps /\ Workspace!HolderInv' /\ Workspace!NoRevival'
    BY <1>1, <1>2, <1>14, <2>1, <2>2, WorkspaceLeavingIs
  <2>4. Workspace!FileInv'
    BY <1>1, <1>3, <1>14, WorkspaceFilesStay DEF Workspace!IInv
  <2> QED
    BY <1>3, <1>14, <2>3, <2>4 DEF Workspace!IInv, Workspace!Shapes
<1>15. ASSUME ~e.keep, UNCHANGED grace, next <= WorkspaceIds,
              Workspace!Save([journal EXCEPT !.high = next, !.entries[next] = pad], Workspace!leaving(rest, id, next)),
              used' = IF poisoned' THEN used ELSE [used EXCEPT ![next] = @ + 1]
       PROVE  Workspace!IInv'
  <2> DEFINE es == [journal.entries EXCEPT ![next] = pad]
             j == WorkspaceWithEntries(next, es)
             goes == Workspace!leaving(rest, id, next)
  <2>1. next \in Workspace!Ids /\ next \in Workspace!Spaces /\ next > journal.high /\ next >= journal.high /\ next \in Nat
    <3>1. next \in Nat /\ next > journal.high /\ next >= 2
      BY <1>1, WorkspaceAllocateIs, WorkspaceFiles DEF WorkspaceRetiring
    <3>2. journal.high \in Nat
      BY WorkspaceJournalIs, WorkspaceFiles DEF Workspace!Spaces
    <3> HIDE DEF next
    <3> QED
      BY <1>15, <3>1, <3>2 DEF Workspace!Ids, Workspace!Spaces, Workspace!WorkspaceConstantsOK
  <2>2. pad \in Workspace!Entry /\ ~pad.keep
    BY DEF Workspace!Entry
  <2>3. [journal EXCEPT !.high = next, !.entries[next] = pad] = j
    BY WorkspaceFiles DEF WorkspaceWithEntries, Workspace!Journal
  <2>4. Workspace!Save(j, goes)
    <3> HIDE DEF next, rest, pad, j
    <3> QED
      BY <2>3, <1>15
  <2> HIDE DEF next, pad, rest, goes
  <2>5. es \in [Workspace!Ids -> Workspace!Entry \cup {Workspace!None}] /\ es[next] = pad /\ \A i \in Workspace!Ids \ {next} : es[i] = journal.entries[i]
    BY <2>1, <2>2, WorkspaceJournalIs, WorkspaceFiles
  <2> HIDE DEF es
  <2>6. \A i \in Workspace!Ids : Workspace!Held(journal.entries, i) => Workspace!Held(es, i) /\ (i <= journal.high => es[i] = journal.entries[i])
    BY <2>1, <2>2, <2>5, WorkspaceNoneIs, WorkspaceJournalIs, WorkspaceFiles DEF Workspace!Held, Workspace!Ids, Workspace!Spaces
  <2>7. /\ WorkspaceFollows(j, journal) /\ j.entries = es /\ j.high = next /\ j.closes = journal.closes
    BY <2>1, <2>5, <2>6, WorkspaceEntriesFollow
  <2> HIDE DEF j
  <2>8. /\ Workspace!FileInv' /\ journal' = j /\ poisoned' \in BOOLEAN /\ turns' \in 0..WorkspaceEnv
        /\ workspaceOp' = Workspace!None \/ workspaceOp' = goes
    <3>1. \A i \in Workspace!Ids : used'[i] = 1 => used[i] = 1 \/ (~poisoned' /\ i <= j.high)
      BY <1>15, <2>1, <2>7 DEF Workspace!IInv, Workspace!Shapes
    <3>2. \A i \in watchers' : i \in Keys /\ Workspace!Held(j.closes, i)
      BY <1>3, <2>7 DEF Workspace!IInv, Workspace!FileInv
    <3> QED
      BY <2>4, <2>7, <3>1, <3>2, <1>3, WorkspaceSaveKeeps DEF Workspace!IInv
  <2>9. used' \in [Workspace!Ids -> 0..1]
    <3>1. used[next] = 0
      <4>1. used[next] # 1
        BY <2>1, <1>1, WorkspaceJournalIs, WorkspaceFiles DEF Workspace!IInv, Workspace!FileInv, Workspace!Spaces
      <4> QED
        BY <4>1, <2>1 DEF Workspace!IInv, Workspace!Shapes
    <3> QED
      BY <3>1, <1>15, <2>1 DEF Workspace!IInv, Workspace!Shapes
  <2>10. ASSUME workspaceOp' # Workspace!None PROVE workspaceOp' \in Workspace!Steps /\ Workspace!HolderInv' /\ Workspace!NoRevival'
    <3>1. workspaceOp' = Workspace!leaving([workspaceOp EXCEPT !.todo = @ \ {id}], id, next)
      BY <2>8, <2>10 DEF goes, rest
    <3>2. Workspace!Held(journal'.entries, id) /\ ~journal'.entries[id].keep /\ \A i \in workspaceOp.todo : Workspace!Held(journal'.entries, i)
      <4>1. ~es[id].keep
        BY <1>15, <2>2, <2>5
      <4>2. workspaceOp.todo \subseteq Workspace!Ids
        BY <1>1 DEF WorkspaceRetiring
      <4> QED
        BY <4>1, <4>2, <1>2, <2>6, <2>7, <2>8
    <3> QED
      BY <1>1, <2>1, <2>10, <3>1, <3>2, WorkspaceLeavingIs
  <2> QED
    BY <1>3, <1>15, <2>8, <2>9, <2>10, WorkspaceNobody DEF Workspace!IInv, Workspace!Shapes
<1>16. CASE workspaceOp' = Workspace!None /\ UNCHANGED <<journal, workspaceDisk, poisoned, turns, used, grace>>
  <2>1. Workspace!FileInv'
    BY <1>1, <1>3, <1>16, WorkspaceFilesStay DEF Workspace!IInv
  <2> QED
    BY <1>3, <1>16, <2>1, WorkspaceNobody DEF Workspace!IInv, Workspace!Shapes
<1> HIDE DEF rest, next, pad, e
<1> QED
  BY <1>7, <1>8, <1>9, <1>10, <1>11, <1>12, <1>13, <1>14, <1>15, <1>16

LEMMA WorkspaceLeaveKeeps == ASSUME Workspace!WorkspaceConstantsOK, Workspace!IInv, Workspace!Leave PROVE Workspace!IInv'
<1>1. workspaceOp # Workspace!None /\ workspaceOp.kind = "retire" /\ workspaceOp.at = "leave" /\ workspaceOp \in WorkspaceLeaving /\ ~poisoned
  BY WorkspaceRetiringIs, WorkspaceFiles DEF Workspace!Leave, Workspace!IInv, Workspace!Shapes
<1>2. /\ workspaceOp.from \in Workspace!Ids \ workspaceOp.todo /\ workspaceOp.to \in Workspace!Spaces /\ Workspace!Held(journal.entries, workspaceOp.from) /\ ~journal.entries[workspaceOp.from].keep
      /\ \A i \in workspaceOp.todo : i \in Workspace!Ids /\ Workspace!Held(journal.entries, i)
  BY <1>1 DEF Workspace!IInv, Workspace!HolderInv, WorkspaceLeaving
<1>3. desk' \in Workspace!Desk
  BY <1>2, WorkspaceFiles DEF Workspace!Leave, Workspace!Desk
<1>4. UNCHANGED <<workspaceDisk, poisoned, watchers, intake, pins, workspaceSent, used, turns>>
  BY DEF Workspace!Leave
<1>5. CASE /\ journal' = [journal EXCEPT !.entries[workspaceOp.from] = Workspace!None]
           /\ grace' = [grace EXCEPT ![workspaceOp.from] = "none"]
           /\ workspaceOp' = [kind |-> "retire", key |-> "-", at |-> "look", seen |-> workspaceOp.seen, todo |-> workspaceOp.todo]
  <2> DEFINE j == WorkspaceWithEntries(journal.high, [journal.entries EXCEPT ![workspaceOp.from] = Workspace!None])
  <2>1. journal' = j
    BY <1>5, WorkspaceFiles DEF WorkspaceWithEntries, Workspace!Journal
  <2>2. /\ WorkspaceFollows(j, journal) /\ j.high = journal.high /\ j.reservations = journal.reservations
        /\ j.closes = journal.closes
        /\ \A i \in Workspace!Ids \ {workspaceOp.from} : Workspace!Held(journal.entries, i) => Workspace!Held(j.entries, i)
    BY <1>2, WorkspaceEntryIs
  <2> HIDE DEF j
  <2>3. Workspace!FileInv'
    BY <1>1, <1>4, <2>1, <2>2, WorkspaceMemoryKeeps DEF Workspace!IInv
  <2>4. workspaceOp' \in WorkspaceRetiring /\ workspaceOp'.kind = "retire" /\ workspaceOp'.at = "look" /\ workspaceOp'.todo = workspaceOp.todo
    BY <1>1, <1>5 DEF WorkspaceRetiring, WorkspaceLeaving
  <2>5. workspaceOp' \in Workspace!Steps /\ Workspace!HolderInv' /\ Workspace!NoRevival'
    BY <1>2, <2>1, <2>2, <2>4, WorkspaceRetiringIs DEF Workspace!HolderInv, Workspace!NoRevival
  <2>6. grace' \in [Workspace!Ids \cup Keys -> {"none", "running", "over"}]
    BY <1>5 DEF Workspace!IInv, Workspace!Shapes
  <2> QED
    BY <1>3, <1>4, <2>3, <2>5, <2>6 DEF Workspace!IInv, Workspace!Shapes
<1>6. CASE workspaceOp' = Workspace!None /\ UNCHANGED <<journal, grace>>
  <2>1. Workspace!FileInv'
    BY <1>1, <1>4, <1>6, WorkspaceFilesStay DEF Workspace!IInv
  <2> QED
    BY <1>3, <1>4, <1>6, <2>1, WorkspaceNobody DEF Workspace!IInv, Workspace!Shapes
<1> QED
  BY <1>5, <1>6 DEF Workspace!Leave

\* A journal goes on from itself.
LEMMA WorkspaceFollowsItself == ASSUME Workspace!IInv PROVE WorkspaceFollows(journal, journal)
BY WorkspaceJournalIs, WorkspaceFiles DEF WorkspaceFollows, Workspace!Kept, Workspace!Spaces

LEMMA WorkspaceRetireEndsKeeps == ASSUME Workspace!WorkspaceConstantsOK, Workspace!IInv, Workspace!RetireEnds PROVE Workspace!IInv'
<1>1. workspaceOp # Workspace!None /\ ~poisoned /\ UNCHANGED <<desk, watchers, intake, pins, grace, workspaceSent, used>>
  BY WorkspaceFiles DEF Workspace!RetireEnds
<1>2. CASE Workspace!Save(journal, Workspace!None)
  <2>1. Workspace!FileInv' /\ poisoned' \in BOOLEAN /\ turns' \in 0..WorkspaceEnv /\ workspaceOp' = Workspace!None
    BY <1>1, <1>2, WorkspaceFollowsItself, WorkspaceSaveKeeps DEF Workspace!IInv, Workspace!FileInv
  <2> QED
    BY <1>1, <2>1, WorkspaceNobody DEF Workspace!IInv, Workspace!Shapes
<1>3. CASE workspaceOp' = Workspace!None /\ UNCHANGED <<journal, workspaceDisk, poisoned, turns>>
  <2>1. Workspace!FileInv'
    BY <1>1, <1>3, WorkspaceFilesStay DEF Workspace!IInv
  <2> QED
    BY <1>1, <1>3, <2>1, WorkspaceNobody DEF Workspace!IInv, Workspace!Shapes
<1> QED
  BY <1>2, <1>3 DEF Workspace!RetireEnds

LEMMA WorkspaceGraceEndsKeeps == ASSUME Workspace!WorkspaceConstantsOK, Workspace!IInv, NEW x \in Workspace!Ids \cup Keys, Workspace!GraceEnds(x) PROVE Workspace!IInv'
<1>1. Workspace!FileInv'
  BY WorkspaceFilesStay DEF Workspace!GraceEnds, Workspace!IInv, Workspace!FileInv
<1>2. Workspace!HolderInv' /\ Workspace!NoRevival'
  BY DEF Workspace!GraceEnds, Workspace!IInv, Workspace!HolderInv, Workspace!NoRevival, Workspace!Observers, Workspace!Candidates, Workspace!closing, Workspace!Held
<1>3. grace' \in [Workspace!Ids \cup Keys -> {"none", "running", "over"}]
  BY DEF Workspace!GraceEnds, Workspace!IInv, Workspace!Shapes
<1> QED
  BY <1>1, <1>2, <1>3 DEF Workspace!GraceEnds, Workspace!IInv, Workspace!Shapes

-----------------------------------------------------------------------------

\* What the user does to the desktop leaves what a call established.
LEMMA WorkspaceHolderStays ==
  ASSUME Workspace!IInv, UNCHANGED <<journal, workspaceOp, workspaceSent>>
  PROVE  Workspace!HolderInv' /\ Workspace!NoRevival' /\ workspaceOp' \in Workspace!Steps \cup {Workspace!None}
BY DEF Workspace!IInv, Workspace!Shapes, Workspace!HolderInv, Workspace!NoRevival, Workspace!Observers, Workspace!Candidates, Workspace!closing, Workspace!Held

LEMMA WorkspaceSpendIs == ASSUME Workspace!WorkspaceConstantsOK, Workspace!IInv, Workspace!Spend PROVE turns' \in 0..WorkspaceEnv
BY DEF Workspace!IInv, Workspace!Shapes, Workspace!Spend, Workspace!WorkspaceConstantsOK

LEMMA WorkspaceMovesIs ==
  ASSUME Workspace!IInv, NEW w \in Windows, NEW id \in 0..WorkspaceIds, Workspace!Moves(w, id)
  PROVE  desk' \in Workspace!Desk /\ pins' \in [Keys -> {"none", "present", "moved", "gone"}]
BY WorkspaceFiles DEF Workspace!Moves, Workspace!Desk, Workspace!IInv, Workspace!Shapes

LEMMA WorkspaceSelectKeeps ==
  ASSUME Workspace!WorkspaceConstantsOK, Workspace!IInv, NEW id \in Workspace!Spaces, NEW windows \in {{}, Windows}, Workspace!select(id, windows)
  PROVE  Workspace!IInv'
<1>1. Workspace!Spend /\ Workspace!Free /\ UNCHANGED <<journal, workspaceOp, watchers, grace, workspaceSent, used>>
  BY DEF Workspace!select
<1>2. id \in 0..WorkspaceIds
  BY DEF Workspace!Spaces
<1>3. /\ desk' \in Workspace!Desk /\ pins' \in [Keys -> {"none", "present", "moved", "gone"}]
      /\ intake' \in [moved: SUBSET (Windows \X (0..WorkspaceIds)), lost: BOOLEAN]
  <2>1. CASE windows = {}
    BY <2>1, WorkspaceFiles DEF Workspace!select, Workspace!Desk, Workspace!IInv, Workspace!Shapes
  <2>2. CASE windows = Windows /\ windows # {}
    <3>1. PICK w \in Windows : Workspace!Moves(w, id) /\ intake' = [intake EXCEPT !.moved = @ \cup {<<w, id>>}]
      BY <2>2 DEF Workspace!select
    <3>2. intake' \in [moved: SUBSET (Windows \X (0..WorkspaceIds)), lost: BOOLEAN]
      BY <1>2, <3>1 DEF Workspace!IInv, Workspace!Shapes
    <3> QED
      BY <1>2, <3>1, <3>2, WorkspaceMovesIs
  <2> QED
    BY <2>1, <2>2
<1>4. \/ UNCHANGED <<workspaceDisk, poisoned>> \/ (workspaceDisk' = journal /\ UNCHANGED poisoned) \/ (poisoned' = TRUE /\ UNCHANGED workspaceDisk)
  BY DEF Workspace!select
<1>5. workspaceOp = Workspace!None /\ ~poisoned
  BY <1>1 DEF Workspace!Free
<1>6. Workspace!Kept(journal)' /\ Workspace!Kept(workspaceDisk)'
  BY <1>1, <1>4, WorkspaceFiles DEF Workspace!Kept
<1>7. Workspace!FileInv' /\ poisoned' \in BOOLEAN
  <2>1. \A i \in Workspace!Ids : used'[i] = 1 => i <= workspaceDisk'.high
    BY <1>1, <1>4, <1>5 DEF Workspace!IInv, Workspace!FileInv
  <2>2. \A i \in watchers' : i \in Keys /\ Workspace!Held(journal'.closes, i)
    BY <1>1 DEF Workspace!IInv, Workspace!FileInv
  <2>3. IF poisoned' THEN workspaceOp' = Workspace!None
        ELSE workspaceDisk'.reservations = journal'.reservations /\ workspaceDisk'.closes = journal'.closes /\ workspaceDisk'.high = journal'.high
    BY <1>1, <1>4, <1>5 DEF Workspace!IInv, Workspace!FileInv
  <2>4. poisoned' \in BOOLEAN
    BY <1>4, <1>5 DEF Workspace!IInv, Workspace!Shapes
  <2> QED
    BY <1>6, <2>1, <2>2, <2>3, <2>4 DEF Workspace!FileInv
<1> QED
  BY <1>1, <1>3, <1>7, WorkspaceHolderStays, WorkspaceSpendIs DEF Workspace!IInv, Workspace!Shapes

LEMMA WorkspaceCycleKeeps == ASSUME Workspace!WorkspaceConstantsOK, Workspace!IInv, Workspace!cycle PROVE Workspace!IInv'
<1>1. Workspace!Spend /\ UNCHANGED <<journal, workspaceDisk, poisoned, workspaceOp, watchers, intake, pins, grace, workspaceSent, used>>
  BY DEF Workspace!cycle
<1> DEFINE above == {i \in Workspace!workspace_ids : i > desk.active}
           below == {i \in Workspace!workspace_ids : i < desk.active}
<1>2. PICK id \in {IF above = {} THEN Workspace!Min(Workspace!workspace_ids) ELSE Workspace!Min(above), IF below = {} THEN Workspace!Max(Workspace!workspace_ids) ELSE Workspace!Max(below)} :
          desk' = [desk EXCEPT !.active = id]
  BY DEF Workspace!cycle
<1>3. Workspace!workspace_ids \subseteq Workspace!Spaces /\ Workspace!workspace_ids # {}
  BY WorkspaceFiles DEF Workspace!workspace_ids, Workspace!Live, Workspace!Desk, Workspace!Spaces, Workspace!Ids, Workspace!WorkspaceConstantsOK
<1>4. above \subseteq Workspace!Spaces /\ below \subseteq Workspace!Spaces
  BY <1>3
<1> HIDE DEF above, below
<1>5. id \in Workspace!Spaces
  BY <1>2, <1>3, <1>4, WorkspaceBoundsAre
<1>6. desk' \in Workspace!Desk
  BY <1>2, <1>5, WorkspaceFiles DEF Workspace!Desk
<1>7. Workspace!FileInv'
  BY <1>1, WorkspaceFilesStay DEF Workspace!cycle, Workspace!IInv, Workspace!Free
<1> QED
  BY <1>1, <1>6, <1>7, WorkspaceHolderStays, WorkspaceSpendIs DEF Workspace!IInv, Workspace!Shapes

LEMMA WorkspaceUserKeeps == ASSUME Workspace!WorkspaceConstantsOK, Workspace!IInv, Workspace!User PROVE Workspace!IInv'
<1>1. Workspace!Spend /\ UNCHANGED <<journal, workspaceDisk, poisoned, workspaceOp, watchers, grace, workspaceSent, used>>
  BY DEF Workspace!User
<1>2. /\ desk' \in Workspace!Desk /\ pins' \in [Keys -> {"none", "present", "moved", "gone"}]
      /\ intake' \in [moved: SUBSET (Windows \X (0..WorkspaceIds)), lost: BOOLEAN]
  <2>1. ASSUME NEW w \in Windows, NEW id \in Workspace!Spaces \cup {0}, Workspace!Moves(w, id),
               intake' = intake \/ intake' = [intake EXCEPT !.moved = @ \cup {<<w, id>>}]
        PROVE  /\ desk' \in Workspace!Desk /\ pins' \in [Keys -> {"none", "present", "moved", "gone"}]
               /\ intake' \in [moved: SUBSET (Windows \X (0..WorkspaceIds)), lost: BOOLEAN]
    <3>1. id \in 0..WorkspaceIds
      BY DEF Workspace!Spaces, Workspace!WorkspaceConstantsOK
    <3>2. intake' \in [moved: SUBSET (Windows \X (0..WorkspaceIds)), lost: BOOLEAN]
      BY <2>1, <3>1 DEF Workspace!IInv, Workspace!Shapes
    <3> QED
      BY <2>1, <3>1, <3>2, WorkspaceMovesIs
  <2>2. ASSUME NEW id \in Workspace!Live(desk) \cup {1} \cup {i \in Workspace!Ids : Workspace!Held(journal.entries, i)},
               desk' = [desk EXCEPT !.active = id], UNCHANGED <<intake, pins>>
        PROVE  /\ desk' \in Workspace!Desk /\ pins' \in [Keys -> {"none", "present", "moved", "gone"}]
               /\ intake' \in [moved: SUBSET (Windows \X (0..WorkspaceIds)), lost: BOOLEAN]
    <3>1. id \in Workspace!Spaces
      BY WorkspaceFiles DEF Workspace!Live, Workspace!Desk, Workspace!Spaces, Workspace!Ids, Workspace!WorkspaceConstantsOK
    <3> QED
      BY <2>2, <3>1, WorkspaceFiles DEF Workspace!Desk, Workspace!IInv, Workspace!Shapes
  <2>3. ASSUME intake' = [intake EXCEPT !.lost = TRUE], UNCHANGED <<desk, pins>>
        PROVE  /\ desk' \in Workspace!Desk /\ pins' \in [Keys -> {"none", "present", "moved", "gone"}]
               /\ intake' \in [moved: SUBSET (Windows \X (0..WorkspaceIds)), lost: BOOLEAN]
    BY <2>3, WorkspaceFiles DEF Workspace!IInv, Workspace!Shapes
  <2>4. \/ \E w \in Windows, id \in Workspace!Spaces \cup {0} :
             Workspace!Moves(w, id) /\ (intake' = intake \/ intake' = [intake EXCEPT !.moved = @ \cup {<<w, id>>}])
        \/ \E id \in Workspace!Live(desk) \cup {1} \cup {i \in Workspace!Ids : Workspace!Held(journal.entries, i)} :
             desk' = [desk EXCEPT !.active = id] /\ UNCHANGED <<intake, pins>>
        \/ intake' = [intake EXCEPT !.lost = TRUE] /\ UNCHANGED <<desk, pins>>
    BY DEF Workspace!User
  <2> QED
    BY <2>1, <2>2, <2>3, <2>4
<1>3. Workspace!FileInv'
  BY <1>1, WorkspaceFilesStay DEF Workspace!IInv, Workspace!FileInv
<1> QED
  BY <1>1, <1>2, <1>3, WorkspaceHolderStays, WorkspaceSpendIs DEF Workspace!IInv, Workspace!Shapes

\* A restarted daemon has what the file had admitted, and fences it.
LEMMA WorkspaceLoadKeeps == ASSUME Workspace!IInv, NEW j, Workspace!Kept(j) PROVE Workspace!Kept(Workspace!load(j)) /\ Workspace!load(j).high = j.high
<1> DEFINE rs == [k \in Keys |-> IF Workspace!Held(j.reservations, k) /\ ~j.reservations[k].released
                                 THEN [j.reservations[k] EXCEPT !.released = TRUE, !.status = "unknown"] ELSE j.reservations[k]]
           cs == [k \in Keys |-> IF Workspace!Held(j.closes, k) /\ j.closes[k].status \in {"dispatching", "waiting"}
                                 THEN [j.closes[k] EXCEPT !.status = "unknown"] ELSE j.closes[k]]
           hs == [k \in Keys |-> IF Workspace!Held(j.handoffs, k) THEN [j.handoffs[k] EXCEPT !.watching = FALSE] ELSE j.handoffs[k]]
           l == Workspace!load(j)
<1>0. j \in Workspace!Journal
  BY DEF Workspace!Kept
<1>1. /\ l.high = j.high /\ l.entries = j.entries /\ l.reservations = rs /\ l.closes = cs /\ l.handoffs = hs
      /\ l = [high |-> j.high, entries |-> j.entries, reservations |-> rs, closes |-> cs, handoffs |-> hs]
  <2>1. j = [high |-> j.high, entries |-> j.entries, reservations |-> j.reservations, closes |-> j.closes, handoffs |-> j.handoffs]
    BY <1>0 DEF Workspace!Journal
  <2>2. l = [j EXCEPT !.reservations = rs, !.closes = cs, !.handoffs = hs]
    BY <2>1 DEF Workspace!load
  <2> HIDE DEF l, rs, cs, hs
  <2> QED
    BY <2>1, <2>2
<1> HIDE DEF l
<1>2. /\ rs \in [Keys -> Workspace!Reservation \cup {Workspace!None}]
      /\ \A k \in Keys : Workspace!Held(rs, k) <=> Workspace!Held(j.reservations, k)
      /\ \A k \in Keys : Workspace!Held(j.reservations, k) =>
            /\ rs[k].purpose = j.reservations[k].purpose /\ rs[k].id = j.reservations[k].id
            /\ rs[k].status = "reserved" => j.reservations[k].status = "reserved"
  <2>1. \A r \in Workspace!Reservation :
           LET n == [r EXCEPT !.released = TRUE, !.status = "unknown"]
           IN n \in Workspace!Reservation /\ n.purpose = r.purpose /\ n.id = r.id /\ n.status = "unknown"
    BY DEF Workspace!Reservation
  <2>2. ASSUME NEW k \in Keys, Workspace!Held(j.reservations, k)
        PROVE  /\ rs[k] \in Workspace!Reservation
               /\ rs[k].purpose = j.reservations[k].purpose /\ rs[k].id = j.reservations[k].id
               /\ rs[k].status = "reserved" => j.reservations[k].status = "reserved"
    <3>1. j.reservations[k] \in Workspace!Reservation
      BY <1>0, <2>2, WorkspaceJournalIs
    <3> QED
      BY <2>1, <2>2, <3>1
  <2>3. \A k \in Keys : ~Workspace!Held(j.reservations, k) => rs[k] = Workspace!None
    BY DEF Workspace!Held
  <2> QED
    BY <2>2, <2>3, WorkspaceNoneIs DEF Workspace!Held
<1>3. /\ cs \in [Keys -> Workspace!Close \cup {Workspace!None}]
      /\ \A k \in Keys : Workspace!Held(j.closes, k) => Workspace!Held(cs, k) /\ cs[k].id = j.closes[k].id /\ cs[k].attempted = j.closes[k].attempted
  <2>1. \A c \in Workspace!Close : LET n == [c EXCEPT !.status = "unknown"]
                         IN n \in Workspace!Close /\ n.id = c.id /\ n.attempted = c.attempted
    BY DEF Workspace!Close
  <2>2. ASSUME NEW k \in Keys, Workspace!Held(j.closes, k)
        PROVE  cs[k] \in Workspace!Close /\ cs[k].id = j.closes[k].id /\ cs[k].attempted = j.closes[k].attempted
    <3>1. j.closes[k] \in Workspace!Close
      BY <1>0, <2>2, WorkspaceJournalIs
    <3> QED
      BY <2>1, <2>2, <3>1
  <2>3. \A k \in Keys : ~Workspace!Held(j.closes, k) => cs[k] = Workspace!None
    BY DEF Workspace!Held
  <2> QED
    BY <2>2, <2>3, WorkspaceNoneIs DEF Workspace!Held
<1>4. hs \in [Keys -> Workspace!Handoff \cup {Workspace!None}] /\ \A k \in Keys : Workspace!Held(hs, k) => Workspace!Held(j.handoffs, k)
  <2>1. \A r \in Workspace!Handoff : [r EXCEPT !.watching = FALSE] \in Workspace!Handoff
    BY DEF Workspace!Handoff
  <2>2. \A k \in Keys : hs[k] \in Workspace!Handoff \cup {Workspace!None} /\ (Workspace!Held(hs, k) => Workspace!Held(j.handoffs, k))
    BY <1>0, <2>1, WorkspaceJournalIs DEF Workspace!Held
  <2> QED
    BY <2>2
<1> HIDE DEF rs, cs, hs
<1>5. l \in Workspace!Journal
  BY <1>0, <1>1, <1>2, <1>3, <1>4, WorkspaceJournalIs
<1>6. l.high >= j.high
  BY <1>0, <1>1, WorkspaceJournalIs DEF Workspace!Spaces
<1>7. \A k \in Keys : Workspace!Held(l.handoffs, k) => Workspace!Held(l.reservations, k)
  BY <1>1, <1>2, <1>4 DEF Workspace!Kept
<1>8. WorkspaceFollows(l, j)
  BY <1>1, <1>2, <1>3, <1>5, <1>6, <1>7 DEF WorkspaceFollows, Workspace!Held
<1> QED
  BY <1>1, <1>8, WorkspaceFollowsKept DEF l

LEMMA WorkspaceCrashKeeps == ASSUME Workspace!WorkspaceConstantsOK, Workspace!IInv, Workspace!Crash PROVE Workspace!IInv'
<1> DEFINE l == Workspace!load(workspaceDisk)
<1>1. Workspace!Kept(l) /\ l.high = workspaceDisk.high
  BY WorkspaceFiles, WorkspaceLoadKeeps
<1>2. journal' = l /\ workspaceDisk' = l /\ poisoned' = FALSE /\ workspaceOp' = Workspace!None /\ watchers' = {} /\ UNCHANGED <<desk, workspaceSent, used>>
  BY DEF Workspace!Crash
<1> HIDE DEF l
<1>3. Workspace!Kept(journal)' /\ Workspace!Kept(workspaceDisk)'
  BY <1>1, <1>2 DEF Workspace!Kept
<1>4. Workspace!FileInv'
  BY <1>1, <1>2, <1>3 DEF Workspace!IInv, Workspace!FileInv
<1>5. /\ intake' \in [moved: SUBSET (Windows \X (0..WorkspaceIds)), lost: BOOLEAN]
      /\ pins' \in [Keys -> {"none", "present", "moved", "gone"}]
      /\ grace' \in [Workspace!Ids \cup Keys -> {"none", "running", "over"}]
  BY DEF Workspace!Crash, Workspace!NoEvents, Workspace!Quiet
<1>6. turns' \in 0..WorkspaceEnv
  BY WorkspaceSpendIs DEF Workspace!Crash
<1> QED
  BY <1>2, <1>4, <1>5, <1>6, WorkspaceNobody DEF Workspace!IInv, Workspace!Shapes

LEMMA WorkspaceNextKeeps == ASSUME Workspace!WorkspaceConstantsOK, Workspace!IInv, [Workspace!Next]_(Workspace!workspaceVars) PROVE Workspace!IInv'
<1>1. ASSUME Workspace!Request PROVE Workspace!IInv'
  BY <1>1, WorkspaceCreateKeeps, WorkspaceCloseKeeps, WorkspaceReleaseKeeps, WorkspacePlaceKeeps, WorkspaceCycleKeeps, WorkspaceSelectKeeps DEF Workspace!Request
<1>2. ASSUME Workspace!Works PROVE Workspace!IInv'
  BY <1>2, WorkspaceFocusPadKeeps, WorkspaceRecordPadKeeps, WorkspaceDispatchPlaceKeeps, WorkspaceRecordPlaceKeeps, WorkspaceFollowKeeps, WorkspaceAttemptCloseKeeps, WorkspaceAskCloseKeeps,
     WorkspaceFenceKeeps, WorkspaceReconcileKeeps, WorkspaceReplaceKeeps, WorkspaceReplacedKeeps, WorkspaceRefreshKeeps, WorkspaceRetireKeeps, WorkspaceLeaveKeeps, WorkspaceRetireEndsKeeps
     DEF Workspace!Works
<1>3. ASSUME UNCHANGED Workspace!workspaceVars PROVE Workspace!IInv'
  <2>1. Workspace!FileInv'
    BY <1>3, WorkspaceFilesStay DEF Workspace!workspaceVars, Workspace!IInv, Workspace!FileInv
  <2> QED
    BY <1>3, <2>1, WorkspaceHolderStays DEF Workspace!workspaceVars, Workspace!IInv, Workspace!Shapes
<1> QED
  BY <1>1, <1>2, <1>3, WorkspaceProjectKeeps, WorkspaceObserveCloseKeeps, WorkspaceGraceEndsKeeps, WorkspaceUserKeeps, WorkspaceCrashKeeps DEF Workspace!Next

LEMMA WorkspaceSafeFollows == ASSUME Workspace!WorkspaceConstantsOK, Workspace!IInv PROVE Workspace!TypeOK /\ Workspace!Safe
<1>1. Workspace!EffectsOnce
  BY DEF Workspace!IInv, Workspace!FileInv, Workspace!Kept, Workspace!Shapes, Workspace!EffectsOnce
<1>2. Workspace!IdsFresh
  BY DEF Workspace!IInv, Workspace!Shapes, Workspace!IdsFresh
<1>3. Workspace!RetainedKept
  BY WorkspaceFiles DEF Workspace!Kept, Workspace!RetainedKept
<1>4. Workspace!TypeOK
  <2>1. workspaceOp = Workspace!None \/ (workspaceOp.kind \in {"create", "place", "follow", "close", "reconcile", "retire"} /\ workspaceOp.key \in Keys \cup {"-"})
    BY DEF Workspace!IInv, Workspace!Shapes, Workspace!Steps
  <2>2. watchers \subseteq Keys
    BY DEF Workspace!IInv, Workspace!FileInv
  <2>3. \A k \in Keys : workspaceSent[k].moves \in 0..2 /\ workspaceSent[k].closed \subseteq Windows
    BY DEF Workspace!IInv, Workspace!Shapes
  <2>4. used \in [Workspace!Ids -> 0..2]
    BY DEF Workspace!IInv, Workspace!Shapes
  <2> QED
    BY <2>1, <2>2, <2>3, <2>4, WorkspaceFiles DEF Workspace!IInv, Workspace!Shapes, Workspace!TypeOK
<1> QED
  BY <1>1, <1>2, <1>3, <1>4 DEF Workspace!IInv, Workspace!Safe

HIDE DEF desk, journal, workspaceDisk, poisoned, workspaceOp, watchers, intake, pins, grace, workspaceSent, used, turns

=============================================================================
