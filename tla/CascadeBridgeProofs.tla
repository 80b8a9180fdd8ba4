------------------------ MODULE CascadeBridgeProofs ------------------------
(* Theorems about the learned suppressors, for all types, patterns, numbers *)
(* of confirmations, page sizes and times to live: the confirmations travel *)
(* with a type (Vetted), and without a clash of two threads a type's five   *)
(* structures agree wherever its thread is (Orderly) and what is active was *)
(* activated after the verdicts read (Applied).                             *)
EXTENDS CascadeBridge, SequenceTheorems, TLAPS

USE DiscoverableAssumption, NoneAssumption, NumbersAssumption

----------------------------------------------------------------------------
(* The inductive invariant *)

\* Who works, works on a type; what a pass considers was proposed; the saved
\* watermark is not ahead of the ledger.
Typed ==
  /\ TypeOK
  /\ \A x \in Thread : at[x] \in Working => on[x] \in Type
  /\ todo \subseteq known
  /\ saved.mark <= Len(ledger)

\* The confirmations travel with the type: into the activation that has begun,
\* the row being saved, and, with the counts, the row that is stored.
ActivationConfirmed == at[Main] = "list" => Confirmed(on[Main])
RowConfirmed        == \A t \in row.listed : Confirmed(t)
SavedConfirmed      == \A t \in saved.listed : saved.counts[t] >= Confirmations

Vetted == Qualified /\ ActivationConfirmed /\ RowConfirmed /\ SavedConfirmed

IInv == Typed /\ Vetted

----------------------------------------------------------------------------
(* Rows *)

LEMMA EmptyRow ==
  Empty \in Row /\ Empty.listed = {} /\ Empty.mark = 0
  BY DEF Empty, Row, Pattern

\* What a save writes into a row gives a row.
LEMMA RowFields ==
  ASSUME NEW r \in Row
  PROVE  /\ \A l \in SUBSET Type :
              [ r EXCEPT !.listed = l ] \in Row /\ [ r EXCEPT !.listed = l ].listed = l
         /\ \A p \in [Type -> Pattern \cup {None}] :
              /\ [ r EXCEPT !.pattern = p ] \in Row
              /\ [ r EXCEPT !.pattern = p ].listed = r.listed
         /\ \A s \in [Type -> 0..MaxTime] :
              /\ [ r EXCEPT !.stamp = s ] \in Row
              /\ [ r EXCEPT !.stamp = s ].listed = r.listed
  BY Zenon DEF Row

----------------------------------------------------------------------------
(* Typed holds at the start and is kept by every step *)

LEMMA InitTyped == Init => Typed
<1> SUFFICES ASSUME Init PROVE Typed
  OBVIOUS
<1>1. TypeOK
  BY EmptyRow DEF Init, TypeOK, Row, Empty, Pattern, Thread, Main, Shadow, Poll, Place,
                  Phase
<1>2. QED
  BY <1>1, EmptyRow DEF Init, Typed, Working, Thread, Main, Shadow, Poll

LEMMA DiscoverTyped ==
  ASSUME Typed, NEW new \in SUBSET (Discoverable \ known), Discover(new)
  PROVE  Typed'
  BY DEF Typed, TypeOK, Discover, lists, threads, pass, outside, history, Place, Phase, Pattern, Thread, Main, Shadow, Poll, Working

LEMMA Bounded ==
  ASSUME Typed
  PROVE  Len(ledger) \in Nat /\ mark \in 0..MaxVerdicts /\ now \in 0..MaxTime
<1>1. Len(ledger) \in Nat
  BY LenProperties DEF Typed, TypeOK
<1>2. QED
  BY <1>1 DEF Typed, TypeOK

LEMMA ConsiderTyped ==
  ASSUME Typed, NEW pair \in todo, Consider(pair)
  PROVE  Typed'
<1>1. pair[1] \in Type /\ pair[2] \in Pattern /\ pair \in Discoverable /\ pair \in known
  BY DEF Typed, TypeOK
<1>2. CASE pair[1] \notin listed /\ Confirmed(pair[1])
  <2>1. /\ at' = [ at EXCEPT ![Main] = "list" ]
        /\ on' = [ on EXCEPT ![Main] = pair[1] ]
        /\ pop' = [ pop EXCEPT ![Main] = pair[2] ]
        /\ clash' \in {clash, clash \cup {pair[1]}}
    BY <1>2 DEF Consider, Enter
  <2>2. /\ repeat' \in {repeat, repeat \cup {pair[1]}}
        /\ noise' \in {noise, noise \cup {pair[1]}}
    BY <1>2 DEF Consider
  <2>3. QED
    BY <1>1, <2>1, <2>2 DEF Typed, TypeOK, Consider, outside, Place, Phase, Pattern, Thread, Main, Shadow, Poll, Working
<1>3. CASE ~(pair[1] \notin listed /\ Confirmed(pair[1]))
  BY <1>1, <1>3 DEF Typed, TypeOK, Consider, threads, outside
<1>4. QED
  BY <1>2, <1>3

LEMMA AddTypeTyped ==
  ASSUME Typed, AddType
  PROVE  Typed'
<1>1. on[Main] \in Type
  BY DEF Typed, AddType, Thread, Working
<1>2. /\ listed' \subseteq Type
      /\ since' \in [Type -> 0..MaxVerdicts]
  BY <1>1, Bounded DEF Typed, TypeOK, AddType
<1>3. /\ at' \in [Thread -> Place]
      /\ \A x \in Thread : at'[x] \in Working => at[x] \in Working
  BY DEF Typed, TypeOK, AddType, Goto, Place, Working
<1>4. QED
  BY <1>2, <1>3 DEF Typed, TypeOK, AddType, pass, outside

LEMMA SetPatternTyped ==
  ASSUME Typed, SetPattern
  PROVE  Typed'
  BY DEF Typed, TypeOK, SetPattern, Goto, lists, threads, pass, outside, history, Place, Phase, Pattern, Thread, Main, Shadow, Poll, Working

LEMMA SetStampTyped ==
  ASSUME Typed, SetStamp
  PROVE  Typed'
<1>1. stamp' \in [Type -> 0..MaxTime]
  BY Bounded DEF Typed, TypeOK, SetStamp
<1>2. /\ at' \in [Thread -> Place] /\ on' \in [Thread -> Type \cup {None}]
      /\ pop' \in [Thread -> Pattern \cup {None}]
      /\ \A x \in Thread : at'[x] \in Working => at[x] \in Working /\ on'[x] = on[x]
  BY DEF Typed, TypeOK, SetStamp, Leave, Place, Working, Thread, Main
<1>3. QED
  BY <1>1, <1>2 DEF Typed, TypeOK, SetStamp, pass, outside, history

LEMMA RecheckTyped ==
  ASSUME Typed, Recheck
  PROVE  Typed'
  BY DEF Typed, TypeOK, Recheck, lists, threads, pass, outside, history, Place, Phase, Pattern, Thread, Main, Shadow, Poll, Working

LEMMA ExpireTyped ==
  ASSUME Typed, Expire
  PROVE  Typed'
  BY DEF Typed, TypeOK, Expire, lists, threads, pass, outside, history, Place, Phase, Pattern, Thread, Main, Shadow, Poll, Working

LEMMA ExpireNextTyped ==
  ASSUME Typed, NEW t \in due, ExpireNext(t)
  PROVE  Typed'
  BY DEF Typed, TypeOK, ExpireNext, Enter, lists, threads, pass, outside, history, Place, Phase, Pattern, Thread, Main, Shadow, Poll, Working

LEMMA PopPatternTyped ==
  ASSUME Typed, NEW x \in Thread, PopPattern(x)
  PROVE  Typed'
  BY DEF Typed, TypeOK, PopPattern, Goto, lists, threads, pass, outside, history, Place, Phase, Pattern, Thread, Main, Shadow, Poll, Working

LEMMA UnlistTyped ==
  ASSUME Typed, NEW x \in Thread, Unlist(x)
  PROVE  Typed'
  BY DEF Typed, TypeOK, Unlist, Goto, lists, threads, pass, outside, history, Place, Phase, Pattern, Thread, Main, Shadow, Poll, Working

LEMMA UnstampTyped ==
  ASSUME Typed, NEW x \in Thread, Unstamp(x)
  PROVE  Typed'
<1>1. stamp' \in [Type -> 0..MaxTime]
  <2>1. 0 \in 0..MaxTime
    OBVIOUS
  <2>2. QED
    BY <2>1 DEF Typed, TypeOK, Unstamp
<1>2. /\ at' \in [Thread -> Place]
      /\ \A y \in Thread : at'[y] \in Working => at[y] \in Working
  BY DEF Typed, TypeOK, Unstamp, Goto, Place, Working
<1>3. QED
  BY <1>1, <1>2 DEF Typed, TypeOK, Unstamp, pass, outside, history

LEMMA UnsuppressTyped ==
  ASSUME Typed, NEW x \in Thread, Unsuppress(x)
  PROVE  Typed'
  BY DEF Typed, TypeOK, Unsuppress, Leave, lists, threads, pass, outside, history, Place, Phase, Pattern, Thread, Main, Shadow, Poll, Working

LEMMA SaveTypesTyped ==
  ASSUME Typed, SaveTypes
  PROVE  Typed'
  BY RowFields DEF Typed, TypeOK, SaveTypes, Goto, lists, threads, pass, outside, history, Place, Phase, Pattern, Thread, Main, Shadow, Poll, Working

LEMMA SavePatternsTyped ==
  ASSUME Typed, SavePatterns
  PROVE  Typed'
  BY RowFields DEF Typed, TypeOK, SavePatterns, Goto, lists, threads, pass, outside, history, Place, Phase, Pattern, Thread, Main, Shadow, Poll, Working

LEMMA SaveStampsTyped ==
  ASSUME Typed, SaveStamps
  PROVE  Typed'
  BY RowFields DEF Typed, TypeOK, SaveStamps, Goto, lists, threads, pass, outside, history, Place, Phase, Pattern, Thread, Main, Shadow, Poll, Working

LEMMA SaveRestTyped ==
  ASSUME Typed, NEW written \in BOOLEAN, NEW answered \in BOOLEAN, SaveRest(written, answered)
  PROVE  Typed'
<1> DEFINE full == [ row EXCEPT !.mark = mark, !.counts = counts, !.known = known,
                            !.clash = clash, !.since = since ]
<1>1. full \in Row /\ full.mark = mark
  <2>1. /\ row \in Row /\ mark \in 0..MaxVerdicts /\ counts \in [Type -> 0..Confirmations]
        /\ known \in SUBSET Discoverable /\ clash \in SUBSET Type
        /\ since \in [Type -> 0..MaxVerdicts]
    BY Bounded DEF Typed, TypeOK
  <2>2. QED
    BY <2>1 DEF Row
<1> HIDE DEF full
<1>2. saved' \in Row /\ saved'.mark <= Len(ledger)
  <2>1. saved' \in {full, saved}
    BY DEF SaveRest, full
  <2>2. QED
    BY <1>1, <2>1, Bounded DEF Typed, TypeOK
<1>3. upto' \in 0..Len(ledger)
  <2>1. NextPage \in 0..Len(ledger)
    <3>1. Page \in Nat /\ mark \in 0..Len(ledger) /\ Len(ledger) \in Nat
      BY Bounded DEF Typed, TypeOK
    <3>2. QED
      BY <3>1 DEF NextPage
  <2>2. upto' \in {upto, NextPage}
    BY DEF SaveRest
  <2>3. QED
    BY <2>1, <2>2 DEF Typed, TypeOK
<1>4. /\ at' \in [Thread -> Place]
      /\ \A x \in Thread : at'[x] \in Working => at[x] \in Working
  BY DEF Typed, TypeOK, SaveRest, Goto, Place, Working
<1>5. QED
  BY <1>2, <1>3, <1>4, EmptyRow DEF Typed, TypeOK, SaveRest, lists, outside, history, Phase

LEMMA ShadowTyped ==
  ASSUME Typed, NEW t \in Type, ShadowImportant(t)
  PROVE  Typed'
  BY DEF Typed, TypeOK, ShadowImportant, Enter, lists, threads, pass, outside, history, Place, Phase, Pattern, Thread, Main, Shadow, Poll, Working

LEMMA ReadVerdictTyped ==
  ASSUME Typed, ReadVerdict
  PROVE  Typed'
<1> DEFINE t == ledger[mark + 1]
<1>1. mark + 1 \in 1..Len(ledger) /\ t \in Type
  <2>1. /\ mark \in 0..Len(ledger) /\ upto \in 0..Len(ledger) /\ mark < upto
        /\ Len(ledger) \in Nat /\ ledger \in Seq(Type)
    BY Bounded DEF Typed, TypeOK, ReadVerdict
  <2>2. mark + 1 \in 1..Len(ledger)
    BY <2>1
  <2>3. QED
    BY <2>1, <2>2, ElementOfSeq
<1> HIDE DEF t
<1>2. mark' \in 0..Len(ledger)
  BY <1>1, Bounded DEF Typed, TypeOK, ReadVerdict
<1>3. CASE t \in listed
  <2>1. /\ at' = [ at EXCEPT ![Poll] = "pop" ]
        /\ on' = [ on EXCEPT ![Poll] = t ]
        /\ pop' = [ pop EXCEPT ![Poll] = None ]
        /\ clash' \in {clash, clash \cup {t}}
    BY <1>3 DEF ReadVerdict, Judge, Enter, t
  <2>2. QED
    BY <1>1, <1>2, <2>1 DEF Typed, TypeOK, ReadVerdict, lists, pass, outside, Place,
                            Pattern, Thread, Main, Shadow, Poll, Working
<1>4. CASE t \notin listed
  BY <1>2, <1>4 DEF Typed, TypeOK, ReadVerdict, Judge, t, lists, threads, pass, outside
<1>5. QED
  BY <1>3, <1>4

LEMMA ConfirmTyped ==
  ASSUME Typed, NEW t \in Type, Confirm(t)
  PROVE  Typed'
<1>1. counts' \in [Type -> 0..Confirmations]
  BY DEF Typed, TypeOK, Confirm
<1>2. QED
  BY <1>1 DEF Typed, TypeOK, Confirm, lists, threads, pass, outside, history

LEMMA VerdictTyped ==
  ASSUME Typed, NEW t \in Type, Verdict(t)
  PROVE  Typed'
<1>1. /\ ledger' \in Seq(Type)
      /\ Len(ledger') = Len(ledger) + 1
  BY AppendProperties DEF Typed, TypeOK, Verdict
<1>2. /\ Len(ledger') <= MaxVerdicts
      /\ mark' \in 0..Len(ledger') /\ upto' \in 0..Len(ledger')
      /\ saved.mark <= Len(ledger')
  <2>1. saved.mark \in 0..MaxVerdicts
    BY DEF Typed, TypeOK, Row
  <2>2. QED
    <3>1. /\ mark \in 0..Len(ledger) /\ upto \in 0..Len(ledger) /\ saved.mark <= Len(ledger)
          /\ Len(ledger) \in Nat /\ Len(ledger) < MaxVerdicts
          /\ mark' = mark /\ upto' = upto
      BY Bounded DEF Typed, TypeOK, Verdict
    <3>2. QED
      BY <1>1, <2>1, <3>1
<1>3. QED
  BY <1>1, <1>2 DEF Typed, TypeOK, Verdict, lists, threads, pass, history

LEMMA TickTyped ==
  ASSUME Typed, Tick
  PROVE  Typed'
<1>1. now' \in 1..MaxTime
  BY DEF Typed, TypeOK, Tick
<1>2. QED
  BY <1>1 DEF Typed, TypeOK, Tick, lists, threads, pass, history

LEMMA RestartTyped ==
  ASSUME Typed, NEW from \in {saved, Empty}, Restart(from)
  PROVE  Typed'
<1>1. /\ from.listed \subseteq Type /\ from.pattern \in [Type -> Pattern \cup {None}]
      /\ from.stamp \in [Type -> 0..MaxTime] /\ from.mark \in 0..MaxVerdicts
      /\ from.counts \in [Type -> 0..Confirmations] /\ from.known \subseteq Discoverable
      /\ from.clash \subseteq Type /\ from.since \in [Type -> 0..MaxVerdicts]
  BY EmptyRow DEF Typed, TypeOK, Row
<1>2. /\ from.mark \in 0..Len(ledger)
      /\ boots' \in 0..MaxBoots
  <2>1. Len(ledger) \in Nat /\ saved.mark <= Len(ledger)
    BY DEF Typed, TypeOK
  <2>2. from.mark \in 0..Len(ledger)
    BY <1>1, <2>1, EmptyRow
  <2>3. QED
    BY <2>2, Bounded DEF Typed, TypeOK, Restart
<1>3. /\ at' \in [Thread -> Place] /\ on' \in [Thread -> Type \cup {None}]
      /\ pop' \in [Thread -> Pattern \cup {None}]
      /\ \A x \in Thread : at'[x] \notin Working
  BY DEF Restart, Place, Working
<1>4. repeat' \subseteq Type /\ noise' \subseteq Type
  BY <1>1 DEF Restart
<1>5. QED
  BY <1>1, <1>2, <1>3, <1>4, EmptyRow DEF Typed, TypeOK, Restart, Phase

LEMMA StutterTyped == Typed /\ UNCHANGED vars => Typed'
  BY DEF Typed, TypeOK, vars, lists, threads, pass, outside, history

LEMMA DeactivateTyped ==
  ASSUME Typed, NEW x \in Thread, Deactivate(x)
  PROVE  Typed'
  BY PopPatternTyped, UnlistTyped, UnstampTyped, UnsuppressTyped DEF Deactivate

LEMMA TypedStep == Typed /\ [Next]_vars => Typed'
<1> SUFFICES ASSUME Typed, [Next]_vars PROVE Typed'
  OBVIOUS
<1>1. CASE \E new \in SUBSET (Discoverable \ known) : Discover(new)
  BY <1>1, DiscoverTyped
<1>2. CASE \E pair \in todo : Consider(pair)
  BY <1>2, ConsiderTyped
<1>3. CASE AddType
  BY <1>3, AddTypeTyped
<1>4. CASE SetPattern
  BY <1>4, SetPatternTyped
<1>5. CASE SetStamp
  BY <1>5, SetStampTyped
<1>6. CASE Recheck
  BY <1>6, RecheckTyped
<1>7. CASE Expire
  BY <1>7, ExpireTyped
<1>8. CASE \E t \in due : ExpireNext(t)
  BY <1>8, ExpireNextTyped
<1>9. CASE \E x \in Thread : Deactivate(x)
  BY <1>9, DeactivateTyped
<1>10. CASE SaveTypes
  BY <1>10, SaveTypesTyped
<1>11. CASE SavePatterns
  BY <1>11, SavePatternsTyped
<1>12. CASE SaveStamps
  BY <1>12, SaveStampsTyped
<1>13. CASE \E written, answered \in BOOLEAN : SaveRest(written, answered)
  BY <1>13, SaveRestTyped
<1>14. CASE \E t \in Type : ShadowImportant(t)
  BY <1>14, ShadowTyped
<1>15. CASE ReadVerdict
  BY <1>15, ReadVerdictTyped
<1>16. CASE \E t \in Type : Confirm(t)
  BY <1>16, ConfirmTyped
<1>17. CASE \E t \in Type : Verdict(t)
  BY <1>17, VerdictTyped
<1>18. CASE Tick
  BY <1>18, TickTyped
<1>19. CASE \E from \in {saved, Empty} : Restart(from)
  BY <1>19, RestartTyped
<1>20. CASE UNCHANGED vars
  BY <1>20, StutterTyped
<1>21. QED
  BY <1>1, <1>2, <1>3, <1>4, <1>5, <1>6, <1>7, <1>8, <1>9, <1>10,
     <1>11, <1>12, <1>13, <1>14, <1>15, <1>16, <1>17, <1>18, <1>19, <1>20
  DEF Next, Pass, Thread

----------------------------------------------------------------------------
(* Vetted *)

\* A step that adds nothing to a structure, a row or the activation begun.
Sheds ==
  /\ counts' = counts /\ saved' = saved
  /\ listed' \subseteq listed /\ repeat' \subseteq repeat /\ noise' \subseteq noise
  /\ row'.listed \subseteq row.listed
  /\ at'[Main] = "list" => at[Main] = "list" /\ on'[Main] = on[Main]

LEMMA ShedsVetted == Vetted /\ Sheds => Vetted'
  BY DEF Vetted, Sheds, Qualified, Suppressed, Confirmed, ActivationConfirmed, RowConfirmed,
         SavedConfirmed

LEMMA PassSheds ==
  ASSUME Typed,
         \/ \E new \in SUBSET (Discoverable \ known) : Discover(new)
         \/ SetPattern \/ SetStamp \/ Recheck \/ Expire
         \/ \E t \in due : ExpireNext(t)
         \/ SavePatterns \/ SaveStamps
  PROVE  Sheds
<1>1. CASE \E new \in SUBSET (Discoverable \ known) : Discover(new)
  BY <1>1 DEF Discover, Sheds, lists, threads
<1>2. CASE SetPattern
  BY <1>2 DEF Typed, TypeOK, SetPattern, Goto, Sheds, pass, Thread, Main
<1>3. CASE SetStamp
  BY <1>3 DEF Typed, TypeOK, SetStamp, Leave, Sheds, pass, Thread, Main
<1>4. CASE Recheck \/ Expire
  BY <1>4 DEF Recheck, Expire, Sheds, lists, threads
<1>5. CASE \E t \in due : ExpireNext(t)
  BY <1>5 DEF Typed, TypeOK, ExpireNext, Enter, Sheds, lists, Thread, Main
<1>6. CASE SavePatterns
  BY <1>6, RowFields DEF Typed, TypeOK, SavePatterns, Goto, Sheds, lists, Thread, Main
<1>7. CASE SaveStamps
  BY <1>7, RowFields DEF Typed, TypeOK, SaveStamps, Goto, Sheds, lists, Thread, Main
<1>8. QED
  BY <1>1, <1>2, <1>3, <1>4, <1>5, <1>6, <1>7

LEMMA FeedbackSheds ==
  ASSUME Typed,
         \/ \E x \in Thread : Deactivate(x)
         \/ \E t \in Type : ShadowImportant(t)
         \/ ReadVerdict
         \/ \E t \in Type : Verdict(t)
         \/ Tick
         \/ UNCHANGED vars
  PROVE  Sheds
<1>1. CASE \E x \in Thread : Deactivate(x)
  <2>1. PICK x \in Thread : Deactivate(x)
    BY <1>1
  <2>2. CASE PopPattern(x)
    BY <2>2 DEF Typed, TypeOK, PopPattern, Goto, Sheds, pass, Thread, Main
  <2>3. CASE Unlist(x)
    BY <2>3 DEF Typed, TypeOK, Unlist, Goto, Sheds, pass, Thread, Main
  <2>4. CASE Unstamp(x)
    BY <2>4 DEF Typed, TypeOK, Unstamp, Goto, Sheds, pass, Thread, Main
  <2>5. CASE Unsuppress(x)
    BY <2>5 DEF Typed, TypeOK, Unsuppress, Leave, Sheds, pass, Thread, Main
  <2>6. QED
    BY <2>1, <2>2, <2>3, <2>4, <2>5 DEF Deactivate
<1>2. CASE \E t \in Type : ShadowImportant(t)
  BY <1>2 DEF Typed, TypeOK, ShadowImportant, Enter, Sheds, lists, pass, Thread, Main, Shadow
<1>3. CASE ReadVerdict
  BY <1>3 DEF Typed, TypeOK, ReadVerdict, Judge, Enter, Sheds, lists, threads, pass, Thread,
              Main, Poll
<1>4. CASE \E t \in Type : Verdict(t)
  BY <1>4 DEF Verdict, Sheds, lists, threads, pass
<1>5. CASE Tick
  BY <1>5 DEF Tick, Sheds, lists, threads, pass
<1>6. CASE UNCHANGED vars
  BY <1>6 DEF vars, Sheds, lists, threads, pass
<1>7. QED
  BY <1>1, <1>2, <1>3, <1>4, <1>5, <1>6

\* The steps that add: each adds what was confirmed a step before.

LEMMA ConsiderVetted ==
  ASSUME Typed, Vetted, NEW pair \in todo, Consider(pair)
  PROVE  Vetted'
<1>1. counts' = counts /\ saved' = saved /\ listed' = listed /\ row' = row
  BY DEF Consider, outside
<1>2. CASE pair[1] \notin listed /\ Confirmed(pair[1])
  <2>1. /\ repeat' \subseteq repeat \cup {pair[1]}
        /\ noise' \subseteq noise \cup {pair[1]}
        /\ on'[Main] = pair[1]
    BY <1>2 DEF Typed, TypeOK, Consider, Enter, Thread, Main
  <2>2. QED
    BY <1>1, <1>2, <2>1 DEF Vetted, Qualified, Suppressed, Confirmed, ActivationConfirmed,
                            RowConfirmed, SavedConfirmed
<1>3. CASE ~(pair[1] \notin listed /\ Confirmed(pair[1]))
  <2>1. repeat' = repeat /\ noise' = noise /\ at' = at /\ on' = on
    BY <1>3 DEF Consider, threads
  <2>2. QED
    BY <1>1, <2>1 DEF Vetted, Qualified, Suppressed, Confirmed, ActivationConfirmed,
                      RowConfirmed, SavedConfirmed
<1>4. QED
  BY <1>2, <1>3

LEMMA AddTypeVetted == Typed /\ Vetted /\ AddType => Vetted'
  BY DEF Typed, TypeOK, Vetted, AddType, Goto, pass, Thread, Main, Qualified, Suppressed,
         Confirmed, ActivationConfirmed, RowConfirmed, SavedConfirmed

LEMMA SaveTypesVetted == Typed /\ Vetted /\ SaveTypes => Vetted'
<1> SUFFICES ASSUME Typed, Vetted, SaveTypes PROVE Vetted'
  OBVIOUS
<1>1. row'.listed = listed
  BY RowFields DEF Typed, TypeOK, SaveTypes
<1>2. /\ counts' = counts /\ saved' = saved /\ listed' = listed
      /\ repeat' = repeat /\ noise' = noise /\ at'[Main] # "list"
  BY DEF Typed, TypeOK, SaveTypes, Goto, lists, Thread, Main
<1>3. QED
  BY <1>1, <1>2 DEF Vetted, Qualified, Suppressed, Confirmed, ActivationConfirmed,
                    RowConfirmed, SavedConfirmed

\* The row is stored with the counts its types were confirmed by.
LEMMA SaveRestVetted ==
  ASSUME Typed, Vetted, NEW written \in BOOLEAN, NEW answered \in BOOLEAN,
         SaveRest(written, answered)
  PROVE  Vetted'
<1> DEFINE full == [ row EXCEPT !.mark = mark, !.counts = counts, !.known = known,
                            !.clash = clash, !.since = since ]
<1>1. full.listed = row.listed /\ full.counts = counts
  <2>1. row \in Row
    BY DEF Typed, TypeOK
  <2>2. QED
    BY <2>1 DEF Row
<1>2. saved' \in {full, saved}
  BY DEF SaveRest
<1> HIDE DEF full
<1>3. SavedConfirmed'
  BY <1>1, <1>2 DEF Vetted, RowConfirmed, SavedConfirmed, Confirmed
<1>4. /\ counts' = counts /\ listed' = listed /\ repeat' = repeat /\ noise' = noise
      /\ row'.listed = {} /\ at'[Main] # "list"
  BY EmptyRow DEF Typed, TypeOK, SaveRest, Goto, lists, Thread, Main
<1>5. QED
  BY <1>3, <1>4 DEF Vetted, Qualified, Suppressed, Confirmed, ActivationConfirmed,
                    RowConfirmed

LEMMA ConfirmVetted ==
  ASSUME Typed, Vetted, NEW t \in Type, Confirm(t)
  PROVE  Vetted'
<1>1. \A u \in Type : Confirmed(u) => Confirmed(u)'
  BY DEF Typed, TypeOK, Confirm, Confirmed
<1>2. /\ listed' = listed /\ repeat' = repeat /\ noise' = noise /\ row' = row
      /\ saved' = saved /\ at' = at /\ on' = on
  BY DEF Confirm, lists, threads, pass
<1>3. /\ listed \subseteq Type /\ repeat \subseteq Type /\ noise \subseteq Type
      /\ row.listed \subseteq Type
      /\ at[Main] = "list" => on[Main] \in Type
  BY DEF Typed, TypeOK, Row, Thread, Working
<1>4. QED
  BY <1>1, <1>2, <1>3 DEF Vetted, Qualified, Suppressed, ActivationConfirmed, RowConfirmed,
                          SavedConfirmed

LEMMA RestartVetted ==
  ASSUME Typed, Vetted, NEW from \in {saved, Empty}, Restart(from)
  PROVE  Vetted'
<1>1. \A t \in from.listed : from.counts[t] >= Confirmations
  BY EmptyRow DEF Vetted, SavedConfirmed
<1>2. QED
  BY <1>1, EmptyRow DEF Vetted, Restart, Thread, Main, Qualified, Suppressed, Confirmed,
                        ActivationConfirmed, RowConfirmed, SavedConfirmed

LEMMA VettedStep == Typed /\ Vetted /\ [Next]_vars => Vetted'
<1> SUFFICES ASSUME Typed, Vetted, [Next]_vars PROVE Vetted'
  OBVIOUS
<1>1. CASE \E pair \in todo : Consider(pair)
  BY <1>1, ConsiderVetted
<1>2. CASE AddType
  BY <1>2, AddTypeVetted
<1>3. CASE SaveTypes
  BY <1>3, SaveTypesVetted
<1>4. CASE \E written, answered \in BOOLEAN : SaveRest(written, answered)
  BY <1>4, SaveRestVetted
<1>5. CASE \E t \in Type : Confirm(t)
  BY <1>5, ConfirmVetted
<1>6. CASE \E from \in {saved, Empty} : Restart(from)
  BY <1>6, RestartVetted
<1>7. CASE \/ \E new \in SUBSET (Discoverable \ known) : Discover(new)
           \/ SetPattern \/ SetStamp \/ Recheck \/ Expire
           \/ \E t \in due : ExpireNext(t)
           \/ SavePatterns \/ SaveStamps
  BY <1>7, PassSheds, ShedsVetted
<1>8. CASE \/ \E x \in Thread : Deactivate(x)
           \/ \E t \in Type : ShadowImportant(t)
           \/ ReadVerdict
           \/ \E t \in Type : Verdict(t)
           \/ Tick
           \/ UNCHANGED vars
  BY <1>8, FeedbackSheds, ShedsVetted
<1>9. QED
  BY <1>1, <1>2, <1>3, <1>4, <1>5, <1>6, <1>7, <1>8 DEF Next, Pass, Thread

----------------------------------------------------------------------------
(* Theorems *)

LEMMA InitVetted == Init => Vetted
  BY EmptyRow DEF Init, Vetted, Qualified, Suppressed, Confirmed, ActivationConfirmed,
                  RowConfirmed, SavedConfirmed, Thread, Main

\* Types of every variable, with the facts about threads, work lists and the
\* saved watermark they need.
THEOREM TypeCorrect == Spec => []TypeOK
<1>1. Init => Typed
  BY InitTyped
<1>2. Typed /\ [Next]_vars => Typed'
  BY TypedStep
<1>3. Typed => TypeOK
  BY DEF Typed
<1>4. QED
  BY <1>1, <1>2, <1>3, PTL DEF Spec

\* "only activate after promotion validates them": with any number of types and
\* of restarts, however the threads interleave, whatever saves and requests
\* fail, nothing is suppressed or listed without its confirmations.
THEOREM QualifiedCorrect == Spec => []Qualified
<1>1. Init => IInv
  BY InitTyped, InitVetted DEF IInv
<1>2. IInv /\ [Next]_vars => IInv'
  BY TypedStep, VettedStep DEF IInv
<1>3. IInv => Qualified
  BY DEF IInv, Vetted
<1>4. QED
  BY <1>1, <1>2, <1>3, PTL DEF Spec

----------------------------------------------------------------------------
(* The five structures agree: the invariant *)

\* Thread x is at work on t, and this is how far it has got.  An activation has
\* set the suppressor, then lists the type, sets its pattern and its stamp; a
\* deactivation has taken the pattern away, and takes away what went with it.
Shape(x, t) ==
  IF at[x] = "pop" THEN Agree(t)
  ELSE /\ t \in repeat <=> pop[x] = "repeat_flood"
       /\ t \in noise <=> pop[x] = "dominant_type"
       /\ t \in listed <=> \/ at[x] \in {"pattern", "stamp"}
                           \/ at[x] = "unlist" /\ pop[x] # None
       /\ pattern[t] = IF at[x] = "stamp" THEN pop[x] ELSE None
       /\ stamp[t] # 0 <=> at[x] \in {"unlist", "unstamp"} /\ pop[x] # None
       /\ at[x] \in {"list", "pattern", "stamp"} => x = Main /\ pop[x] # None

Rests(t) == \A x \in Thread : ~WorksOn(x, t)

\* What the row being saved has taken of t so far.
RowAgrees(t) ==
  /\ t \in row.listed <=> t \in listed
  /\ at[Main] \in {"stamps", "rest"} => row.pattern[t] = pattern[t]
  /\ at[Main] = "rest" => row.stamp[t] = stamp[t]

Consistent(t) ==
  /\ \A x, y \in Thread : WorksOn(x, t) /\ WorksOn(y, t) => x = y
  /\ \A x \in Thread : WorksOn(x, t) => Shape(x, t)
  /\ Rests(t) => Agree(t)
  /\ Saving => Rests(t) /\ RowAgrees(t)

SavePlace == Saving <=> at[Main] \in {"patterns", "stamps", "rest"}

SavedAgrees ==
  \A t \in Type \ saved.clash :
     /\ t \in saved.listed <=> saved.pattern[t] # None
     /\ t \in saved.listed <=> saved.stamp[t] # 0

Orderly == SavePlace /\ SavedAgrees /\ \A t \in Type \ clash : Consistent(t)

\* Every verdict on t up to position m came before the activation.
Before(t, m, s) == \A n \in 1..m : ledger[n] = t => n <= s[t]

Leaving(t) == \E x \in Thread : at[x] \in {"pop", "unlist"} /\ on[x] = t

Applied ==
  /\ \A t \in listed \ clash : Before(t, mark, since) \/ Leaving(t)
  /\ \A t \in saved.listed \ saved.clash : Before(t, saved.mark, saved.since)

----------------------------------------------------------------------------
(* What a step leaves of the types it is not about *)

SameLists(t) ==
  /\ t \in listed' <=> t \in listed
  /\ t \in repeat' <=> t \in repeat
  /\ t \in noise'  <=> t \in noise
  /\ pattern'[t] = pattern[t]
  /\ stamp'[t] = stamp[t]

SameWork(t) ==
  \A x \in Thread : /\ WorksOn(x, t)' <=> WorksOn(x, t)
                    /\ WorksOn(x, t) => at'[x] = at[x] /\ pop'[x] = pop[x]

\* A save under way is where it was, with the row it had.
SameSave ==
  /\ Saving' <=> Saving
  /\ Saving => row' = row /\ at'[Main] = at[Main]

LEMMA AgreeKept ==
  ASSUME NEW t, SameLists(t)
  PROVE  Agree(t)' <=> Agree(t)
  BY DEF SameLists, Agree

LEMMA ConsistentKept ==
  ASSUME NEW t, Consistent(t), SameLists(t), SameWork(t), SameSave
  PROVE  Consistent(t)'
<1>1. Agree(t)' <=> Agree(t)
  BY AgreeKept
<1>2. \A x, y \in Thread : WorksOn(x, t)' /\ WorksOn(y, t)' => x = y
  BY DEF Consistent, SameWork
<1>3. ASSUME NEW x \in Thread, WorksOn(x, t)'
      PROVE  Shape(x, t)'
  <2>1. WorksOn(x, t) /\ at'[x] = at[x] /\ pop'[x] = pop[x]
    BY <1>3 DEF SameWork
  <2>2. Shape(x, t)
    BY <2>1 DEF Consistent
  <2>3. CASE at[x] = "pop"
    BY <1>1, <2>1, <2>2, <2>3 DEF Shape
  <2>4. CASE at[x] # "pop"
    BY <2>1, <2>2, <2>4 DEF Shape, SameLists
  <2>5. QED
    BY <2>3, <2>4
<1>4. Rests(t)' <=> Rests(t)
  BY DEF Rests, SameWork
<1>5. Saving' => RowAgrees(t)'
  BY DEF Consistent, RowAgrees, SameSave, SameLists
<1>6. (\A x, y \in Thread : WorksOn(x, t) /\ WorksOn(y, t) => x = y)'
  BY <1>2
<1>7. (\A x \in Thread : WorksOn(x, t) => Shape(x, t))'
  BY <1>3
<1>8. (Rests(t) => Agree(t))' /\ (Saving => Rests(t) /\ RowAgrees(t))'
  BY <1>1, <1>4, <1>5 DEF Consistent, SameSave
<1>9. QED
  BY <1>6, <1>7, <1>8 DEF Consistent

\* A step that changes no structure and moves no thread.
LEMMA QuietOrderly ==
  ASSUME Orderly, UNCHANGED <<lists, threads, row, clash, saved>>, Saving' <=> Saving
  PROVE  Orderly'
<1>1. SameSave /\ \A t \in Type : SameLists(t) /\ SameWork(t)
  BY DEF SameSave, SameLists, SameWork, WorksOn, lists, threads
<1>2. \A t \in Type \ clash : Consistent(t)'
  BY <1>1, ConsistentKept DEF Orderly
<1>3. SavePlace' /\ SavedAgrees'
  BY DEF Orderly, SavePlace, SavedAgrees, threads
<1>4. QED
  BY <1>2, <1>3 DEF Orderly

\* Thread x, which works on u, goes on or is done, and touches no other type.
LEMMA MoveOrderly ==
  ASSUME Orderly, NEW x \in Thread, NEW u \in Type, WorksOn(x, u),
         \A y \in Thread \ {x} : at'[y] = at[y] /\ on'[y] = on[y] /\ pop'[y] = pop[y],
         \/ WorksOn(x, u)'
         \/ at'[x] = "idle",
         \A t \in Type \ {u} : SameLists(t),
         UNCHANGED <<phase, row, clash, saved>>,
         Shape(x, u) => IF at'[x] = "idle" THEN Agree(u)' ELSE Shape(x, u)'
  PROVE  Orderly'
<1>1. Main \in Thread /\ at[x] \in Working
  BY DEF Thread, WorksOn
<1>2. "idle" \notin Working /\ Working \cap {"patterns", "stamps", "rest"} = {}
  BY DEF Working
<1>3. Saving' <=> Saving
  BY DEF Saving
<1>4. at'[x] \notin {"patterns", "stamps", "rest"}
  BY <1>2 DEF WorksOn
<1>5. SavePlace'
  BY <1>1, <1>2, <1>3, <1>4 DEF Orderly, SavePlace
<1>6. SavedAgrees'
  BY DEF Orderly, SavedAgrees
<1>7. SameSave
  BY <1>1, <1>2, <1>3 DEF SameSave, Orderly, SavePlace
<1>8. ASSUME NEW t \in Type \ clash, t # u PROVE Consistent(t)'
  <2>1. SameWork(t)
    BY <1>2, <1>8 DEF SameWork, WorksOn
  <2>2. SameLists(t)
    BY <1>8
  <2>3. QED
    BY <1>7, <1>8, <2>1, <2>2, ConsistentKept DEF Orderly
<1>9. ASSUME NEW t \in Type \ clash, t = u PROVE Consistent(t)'
  <2>1. Consistent(t) /\ WorksOn(x, t)
    BY <1>9 DEF Orderly, WorksOn
  <2>2. Shape(x, t) /\ ~Saving /\ \A y \in Thread \ {x} : ~WorksOn(y, t)
    BY <2>1 DEF Consistent, Rests
  <2>3. \A y \in Thread \ {x} : ~WorksOn(y, t)'
    BY <2>2 DEF WorksOn
  <2>4. CASE at'[x] = "idle"
    <3>1. Agree(t)' /\ ~WorksOn(x, t)'
      BY <1>2, <1>9, <2>2, <2>4 DEF WorksOn
    <3>2. \A y \in Thread : ~WorksOn(y, t)'
      BY <2>3, <3>1
    <3>3. QED
      BY <1>3, <2>2, <3>1, <3>2 DEF Consistent
  <2>5. CASE at'[x] # "idle"
    <3>1. WorksOn(x, t)'
      BY <1>9, <2>5
    <3>2. Shape(x, t)'
      BY <1>9, <2>2, <2>5
    <3>3. ~Rests(t)'
      BY <3>1 DEF Rests
    <3>4. QED
      BY <1>3, <2>2, <2>3, <3>1, <3>2, <3>3 DEF Consistent
  <2>6. QED
    BY <2>4, <2>5
<1>10. \A t \in Type \ clash' : Consistent(t)'
  BY <1>8, <1>9
<1>11. QED
  BY <1>5, <1>6, <1>10 DEF Orderly

\* Thread x starts work on t, which is not written off.
LEMMA EnterOrderly ==
  ASSUME Typed, Orderly, NEW x \in Thread, NEW t \in Type, NEW place \in Working,
         NEW p \in Pattern \cup {None},
         at[x] = "idle", Enter(x, t, place, p),
         \A s \in Type \ {t} : SameLists(s),
         UNCHANGED <<phase, row, saved>>,
         Agree(t) => Shape(x, t)'
  PROVE  Orderly'
<1>1. /\ at'[x] = place /\ on'[x] = t /\ pop'[x] = p
      /\ \A y \in Thread \ {x} : at'[y] = at[y] /\ on'[y] = on[y] /\ pop'[y] = pop[y]
  BY DEF Enter, Typed, TypeOK
<1>2. "idle" \notin Working /\ Working \cap {"patterns", "stamps", "rest"} = {}
  BY DEF Working
<1>3. Saving' <=> Saving
  BY DEF Saving
<1>4. Main \in Thread
  BY DEF Thread
<1>5. SavePlace' /\ SavedAgrees'
  BY <1>1, <1>2, <1>3, <1>4 DEF Orderly, SavePlace, SavedAgrees
<1>6. SameSave
  BY <1>1, <1>2, <1>3, <1>4 DEF SameSave, Orderly, SavePlace
<1>7. clash \subseteq clash' /\ (t \notin clash' => ~Saving /\ \A y \in Thread \ {x} : ~WorksOn(y, t))
  BY DEF Enter
<1>8. ASSUME NEW s \in Type \ clash', s # t PROVE Consistent(s)'
  <2>1. SameWork(s)
    BY <1>1, <1>2, <1>8 DEF SameWork, WorksOn
  <2>2. SameLists(s) /\ Consistent(s)
    BY <1>7, <1>8 DEF Orderly
  <2>3. QED
    BY <1>6, <2>1, <2>2, ConsistentKept
<1>9. ASSUME t \notin clash' PROVE Consistent(t)'
  <2>1. ~Saving /\ \A y \in Thread : ~WorksOn(y, t)
    BY <1>2, <1>7, <1>9 DEF WorksOn
  <2>2. Agree(t)
    BY <1>7, <1>9, <2>1 DEF Orderly, Consistent, Rests
  <2>3. Shape(x, t)'
    BY <2>2
  <2>4. WorksOn(x, t)' /\ \A y \in Thread \ {x} : ~WorksOn(y, t)'
    BY <1>1, <2>1 DEF WorksOn
  <2>5. ~Rests(t)'
    BY <2>4 DEF Rests
  <2>6. QED
    BY <1>3, <2>1, <2>3, <2>4, <2>5 DEF Consistent
<1>10. QED
  BY <1>5, <1>8, <1>9 DEF Orderly

----------------------------------------------------------------------------
(* Orderly holds at the start and is kept by every step *)

LEMMA InitOrderly == Init => Orderly
<1> SUFFICES ASSUME Init PROVE Orderly
  OBVIOUS
<1>1. SavePlace /\ SavedAgrees
  BY DEF Init, SavePlace, Saving, SavedAgrees, Empty, Thread, Main
<1>2. \A t \in Type : Agree(t) /\ Rests(t) /\ ~Saving
  BY DEF Init, Agree, Rests, WorksOn, Working, Empty, Saving
<1>3. \A t \in Type : Consistent(t)
  BY <1>2 DEF Consistent, Rests
<1>4. QED
  BY <1>1, <1>3 DEF Orderly

LEMMA QuietSteps ==
  ASSUME Orderly,
         \/ \E new \in SUBSET (Discoverable \ known) : Discover(new)
         \/ Recheck \/ Expire
         \/ \E t \in Type : Confirm(t) \/ Verdict(t)
         \/ Tick
         \/ UNCHANGED vars
  PROVE  Orderly'
<1>1. UNCHANGED <<lists, threads, row, clash, saved>> /\ (Saving' <=> Saving)
  <2>1. CASE \E new \in SUBSET (Discoverable \ known) : Discover(new)
    BY <2>1 DEF Discover, Saving, history
  <2>2. CASE Recheck \/ Expire
    BY <2>2 DEF Recheck, Expire, Saving, history
  <2>3. CASE \E t \in Type : Confirm(t) \/ Verdict(t)
    BY <2>3 DEF Confirm, Verdict, Saving, pass, history
  <2>4. CASE Tick
    BY <2>4 DEF Tick, Saving, pass, history
  <2>5. CASE UNCHANGED vars
    BY <2>5 DEF vars, Saving, pass, history
  <2>6. QED
    BY <2>1, <2>2, <2>3, <2>4, <2>5
<1>2. QED
  BY <1>1, QuietOrderly

LEMMA ConsiderOrderly ==
  ASSUME Typed, Orderly, NEW pair \in todo, Consider(pair)
  PROVE  Orderly'
<1>1. pair[1] \in Type /\ pair[2] \in Pattern /\ Main \in Thread
  BY DEF Typed, TypeOK, Thread
<1>2. CASE pair[1] \notin listed /\ Confirmed(pair[1])
  <2> DEFINE t == pair[1]
             p == pair[2]
  <2>1. /\ Enter(Main, t, "list", p) /\ at[Main] = "idle"
        /\ repeat' = IF p = "repeat_flood" THEN repeat \cup {t} ELSE repeat
        /\ noise'  = IF p = "repeat_flood" THEN noise ELSE noise \cup {t}
        /\ UNCHANGED <<listed, pattern, stamp, phase, row, saved>>
    BY <1>2 DEF Consider
  <2>2. at'[Main] = "list" /\ pop'[Main] = p
    BY <1>1, <2>1 DEF Enter, Typed, TypeOK
  <2>3. t \in Type /\ p \in {"repeat_flood", "dominant_type"} /\ p # None /\ t \notin listed
    BY <1>1, <1>2 DEF Pattern
  <2> HIDE DEF t, p
  <2>4. \A s \in Type \ {t} : SameLists(s)
    BY <2>1 DEF SameLists
  <2>5. Agree(t) => Shape(Main, t)'
    <3> SUFFICES ASSUME Agree(t) PROVE Shape(Main, t)'
      OBVIOUS
    <3>1. /\ t \notin repeat /\ t \notin noise /\ pattern'[t] = None /\ stamp'[t] = 0
          /\ t \notin listed'
      BY <2>1, <2>3 DEF Agree
    <3>2. /\ t \in repeat' <=> p = "repeat_flood"
          /\ t \in noise'  <=> p = "dominant_type"
      BY <2>1, <2>3, <3>1
    <3>3. QED
      BY <2>2, <2>3, <3>1, <3>2 DEF Shape
  <2>6. "list" \in Working /\ p \in Pattern \cup {None}
    BY <2>3 DEF Working, Pattern
  <2>7. QED
    BY <1>1, <2>1, <2>3, <2>4, <2>5, <2>6, EnterOrderly
<1>3. CASE ~(pair[1] \notin listed /\ Confirmed(pair[1]))
  <2>1. UNCHANGED <<lists, threads, row, clash, saved, phase>>
    BY <1>3 DEF Consider, lists
  <2>2. QED
    BY <2>1, QuietOrderly DEF Saving
<1>4. QED
  BY <1>2, <1>3

\* A deactivation begins where the structures are found.
LEMMA EnterPopOrderly ==
  ASSUME Typed, Orderly, NEW x \in Thread, NEW t \in Type, at[x] = "idle",
         Enter(x, t, "pop", None), UNCHANGED <<lists, phase, row, saved>>
  PROVE  Orderly'
<1>1. \A s \in Type : SameLists(s)
  BY DEF SameLists, lists
<1>2. at'[x] = "pop"
  BY DEF Enter, Typed, TypeOK
<1>3. Agree(t) => Shape(x, t)'
  BY <1>1, <1>2, AgreeKept DEF Shape
<1>4. "pop" \in Working
  BY DEF Working
<1>5. QED
  BY <1>1, <1>3, <1>4, EnterOrderly

LEMMA BeginSteps ==
  ASSUME Typed, Orderly,
         \/ \E t \in due : ExpireNext(t)
         \/ \E t \in Type : ShadowImportant(t)
         \/ ReadVerdict
  PROVE  Orderly'
<1> USE DEF Thread, Main, Shadow, Poll
<1>1. CASE \E t \in due : ExpireNext(t)
  <2>1. PICK t \in due : ExpireNext(t)
    BY <1>1
  <2>2. t \in Type
    BY DEF Typed, TypeOK
  <2>3. QED
    BY <2>1, <2>2, EnterPopOrderly DEF ExpireNext
<1>2. CASE \E t \in Type : ShadowImportant(t)
  BY <1>2, EnterPopOrderly DEF ShadowImportant, pass
<1>3. CASE ReadVerdict
  <2> DEFINE t == ledger[mark + 1]
  <2>1. mark + 1 \in 1..Len(ledger)
    BY <1>3, Bounded DEF Typed, TypeOK, ReadVerdict
  <2>2. t \in Type
    BY <2>1, ElementOfSeq DEF Typed, TypeOK
  <2>3. Judge(t) /\ at[Poll] = "idle" /\ UNCHANGED <<lists, phase, row, saved>>
    BY <1>3 DEF ReadVerdict, pass
  <2> HIDE DEF t
  <2>4. CASE t \in listed
    BY <2>2, <2>3, <2>4, EnterPopOrderly DEF Judge
  <2>5. CASE t \notin listed
    BY <2>3, <2>5, QuietOrderly DEF Judge, Saving
  <2>6. QED
    BY <2>4, <2>5
<1>4. QED
  BY <1>1, <1>2, <1>3

\* What Goto and Leave make of the threads.
LEMMA Gone ==
  ASSUME Typed, NEW x \in Thread, NEW place, Goto(x, place), UNCHANGED on
  PROVE  /\ at'[x] = place /\ on'[x] = on[x]
         /\ \A y \in Thread \ {x} : at'[y] = at[y] /\ on'[y] = on[y]
  BY DEF Goto, Typed, TypeOK

LEMMA Left ==
  ASSUME Typed, NEW x \in Thread, Leave(x)
  PROVE  /\ at'[x] = "idle"
         /\ \A y \in Thread \ {x} : at'[y] = at[y] /\ on'[y] = on[y] /\ pop'[y] = pop[y]
  BY DEF Leave, Typed, TypeOK

LEMMA ActivateOrderly ==
  ASSUME Typed, Orderly, AddType \/ SetPattern \/ SetStamp
  PROVE  Orderly'
<1>1. PICK u \in Type : on[Main] = u /\ WorksOn(Main, u) /\ Main \in Thread
  BY DEF AddType, SetPattern, SetStamp, Typed, WorksOn, Working, Thread
<1>2. UNCHANGED <<phase, row, clash, saved>>
  BY DEF AddType, SetPattern, SetStamp, pass, history
<1>3. CASE AddType
  <2>1. /\ at'[Main] = "pattern" /\ on'[Main] = u
        /\ \A y \in Thread \ {Main} : at'[y] = at[y] /\ on'[y] = on[y]
        /\ pop' = pop /\ at[Main] = "list"
    BY <1>1, <1>3, Gone DEF AddType
  <2>2. WorksOn(Main, u)'
    BY <2>1 DEF WorksOn, Working
  <2>3. listed' = listed \cup {u} /\ UNCHANGED <<pattern, stamp, repeat, noise>>
    BY <1>1, <1>3 DEF AddType
  <2>4. \A t \in Type \ {u} : SameLists(t)
    BY <2>3 DEF SameLists
  <2>5. Shape(Main, u) => Shape(Main, u)'
    BY <2>1, <2>3 DEF Shape
  <2>6. QED
    BY <1>1, <1>2, <2>1, <2>2, <2>4, <2>5, MoveOrderly
<1>4. CASE SetPattern
  <2>1. /\ at'[Main] = "stamp" /\ on'[Main] = u
        /\ \A y \in Thread \ {Main} : at'[y] = at[y] /\ on'[y] = on[y]
        /\ pop' = pop /\ at[Main] = "pattern"
    BY <1>1, <1>4, Gone DEF SetPattern
  <2>2. WorksOn(Main, u)'
    BY <2>1 DEF WorksOn, Working
  <2>3. /\ pattern'[u] = pop[Main] /\ \A t \in Type \ {u} : pattern'[t] = pattern[t]
        /\ UNCHANGED <<listed, stamp, repeat, noise>>
    BY <1>1, <1>4 DEF SetPattern, Typed, TypeOK
  <2>4. \A t \in Type \ {u} : SameLists(t)
    BY <2>3 DEF SameLists
  <2>5. Shape(Main, u) => Shape(Main, u)'
    BY <2>1, <2>3 DEF Shape
  <2>6. QED
    BY <1>1, <1>2, <2>1, <2>2, <2>4, <2>5, MoveOrderly
<1>5. CASE SetStamp
  <2>1. /\ at'[Main] = "idle"
        /\ \A y \in Thread \ {Main} : at'[y] = at[y] /\ on'[y] = on[y] /\ pop'[y] = pop[y]
        /\ at[Main] = "stamp"
    BY <1>1, <1>5, Left DEF SetStamp
  <2>2. /\ stamp'[u] = now /\ \A t \in Type \ {u} : stamp'[t] = stamp[t]
        /\ UNCHANGED <<listed, pattern, repeat, noise>>
    BY <1>1, <1>5 DEF SetStamp, Typed, TypeOK
  <2>3. now # 0
    BY DEF Typed, TypeOK
  <2>4. pop[Main] \in Pattern \cup {None}
    BY <1>1 DEF Typed, TypeOK
  <2>5. \A t \in Type \ {u} : SameLists(t)
    BY <2>2 DEF SameLists
  <2>6. Shape(Main, u) => Agree(u)'
    BY <2>1, <2>2, <2>3, <2>4 DEF Shape, Agree
  <2>7. QED
    BY <1>1, <1>2, <2>1, <2>5, <2>6, MoveOrderly
<1>6. QED
  BY <1>3, <1>4, <1>5

LEMMA DeactivateOrderly ==
  ASSUME Typed, Orderly, NEW x \in Thread, Deactivate(x)
  PROVE  Orderly'
<1>1. PICK u \in Type : on[x] = u /\ WorksOn(x, u)
  BY DEF Deactivate, PopPattern, Unlist, Unstamp, Unsuppress, Typed, WorksOn, Working
<1>2. UNCHANGED <<phase, row, clash, saved>>
  BY DEF Deactivate, PopPattern, Unlist, Unstamp, Unsuppress, pass, history
<1>3. CASE PopPattern(x)
  <2>1. /\ at'[x] = "unlist" /\ on'[x] = u
        /\ \A y \in Thread \ {x} : at'[y] = at[y] /\ on'[y] = on[y] /\ pop'[y] = pop[y]
        /\ pop'[x] = pattern[u] /\ at[x] = "pop"
    BY <1>1, <1>3, Gone DEF PopPattern, Typed, TypeOK
  <2>2. WorksOn(x, u)'
    BY <2>1 DEF WorksOn, Working
  <2>3. /\ pattern'[u] = None /\ \A t \in Type \ {u} : pattern'[t] = pattern[t]
        /\ UNCHANGED <<listed, stamp, repeat, noise>>
    BY <1>1, <1>3 DEF PopPattern, Typed, TypeOK
  <2>4. \A t \in Type \ {u} : SameLists(t)
    BY <2>3 DEF SameLists
  <2>5. None \notin {"repeat_flood", "dominant_type"}
    BY DEF Pattern
  <2>6. Shape(x, u) => Shape(x, u)'
    BY <2>1, <2>3, <2>5 DEF Shape, Agree
  <2>7. QED
    BY <1>1, <1>2, <2>1, <2>2, <2>4, <2>6, MoveOrderly
<1>4. CASE Unlist(x)
  <2>1. /\ at'[x] = "unstamp" /\ on'[x] = u
        /\ \A y \in Thread \ {x} : at'[y] = at[y] /\ on'[y] = on[y]
        /\ pop' = pop /\ at[x] = "unlist"
    BY <1>1, <1>4, Gone DEF Unlist
  <2>2. WorksOn(x, u)'
    BY <2>1 DEF WorksOn, Working
  <2>3. listed' = listed \ {u} /\ UNCHANGED <<pattern, stamp, repeat, noise>>
    BY <1>1, <1>4 DEF Unlist
  <2>4. \A t \in Type \ {u} : SameLists(t)
    BY <2>3 DEF SameLists
  <2>5. Shape(x, u) => Shape(x, u)'
    BY <2>1, <2>3 DEF Shape
  <2>6. QED
    BY <1>1, <1>2, <2>1, <2>2, <2>4, <2>5, MoveOrderly
<1>5. CASE Unstamp(x)
  <2>1. /\ at'[x] = "unsuppress" /\ on'[x] = u
        /\ \A y \in Thread \ {x} : at'[y] = at[y] /\ on'[y] = on[y]
        /\ pop' = pop /\ at[x] = "unstamp"
    BY <1>1, <1>5, Gone DEF Unstamp
  <2>2. WorksOn(x, u)'
    BY <2>1 DEF WorksOn, Working
  <2>3. /\ stamp'[u] = 0 /\ \A t \in Type \ {u} : stamp'[t] = stamp[t]
        /\ UNCHANGED <<listed, pattern, repeat, noise>>
    BY <1>1, <1>5 DEF Unstamp, Typed, TypeOK
  <2>4. \A t \in Type \ {u} : SameLists(t)
    BY <2>3 DEF SameLists
  <2>5. Shape(x, u) => Shape(x, u)'
    BY <2>1, <2>3 DEF Shape
  <2>6. QED
    BY <1>1, <1>2, <2>1, <2>2, <2>4, <2>5, MoveOrderly
<1>6. CASE Unsuppress(x)
  <2>1. /\ at'[x] = "idle"
        /\ \A y \in Thread \ {x} : at'[y] = at[y] /\ on'[y] = on[y] /\ pop'[y] = pop[y]
        /\ at[x] = "unsuppress"
    BY <1>1, <1>6, Left DEF Unsuppress
  <2>2. /\ repeat' = IF pop[x] = "repeat_flood"  THEN repeat \ {u} ELSE repeat
        /\ noise'  = IF pop[x] = "dominant_type" THEN noise \ {u}  ELSE noise
        /\ UNCHANGED <<listed, pattern, stamp>>
    BY <1>1, <1>6 DEF Unsuppress
  <2>3. \A t \in Type \ {u} : SameLists(t)
    BY <2>2 DEF SameLists
  <2>4. None \notin {"repeat_flood", "dominant_type"}
    BY DEF Pattern
  <2>5. Shape(x, u) => Agree(u)'
    BY <2>1, <2>2, <2>4 DEF Shape, Agree
  <2>6. QED
    BY <1>1, <1>2, <2>1, <2>3, <2>5, MoveOrderly
<1>7. QED
  BY <1>3, <1>4, <1>5, <1>6 DEF Deactivate

\* The steps of a save move Main through its places and write the row.
LEMMA SaveMoves ==
  ASSUME Typed, Orderly, NEW place \in {"patterns", "stamps", "rest", "idle"},
         Goto(Main, place), UNCHANGED <<lists, on, pop>>,
         at[Main] \in {"idle", "patterns", "stamps", "rest"}
  PROVE  /\ at'[Main] = place
         /\ \A t : /\ SameLists(t)
                   /\ Rests(t)' <=> Rests(t)
                   /\ \A x \in Thread : WorksOn(x, t)' <=> WorksOn(x, t)
                   /\ \A x \in Thread : WorksOn(x, t) => at'[x] = at[x] /\ pop'[x] = pop[x]
<1>1. Main \in Thread
  BY DEF Thread
<1>2. at'[Main] = place /\ \A y \in Thread \ {Main} : at'[y] = at[y] /\ on'[y] = on[y]
  BY <1>1, Gone
<1>3. \A t : /\ \A x \in Thread : WorksOn(x, t)' <=> WorksOn(x, t)
             /\ \A x \in Thread : WorksOn(x, t) => at'[x] = at[x] /\ pop'[x] = pop[x]
  BY <1>2 DEF WorksOn, Working
<1>4. \A t : Rests(t)' <=> Rests(t)
  BY <1>3 DEF Rests
<1>5. \A t : SameLists(t)
  BY DEF SameLists, lists
<1>6. QED
  BY <1>2, <1>3, <1>4, <1>5

\* What a save needs of a type that no thread works on.
LEMMA RestingConsistent ==
  ASSUME NEW t, Rests(t), Agree(t), RowAgrees(t)
  PROVE  Consistent(t)
  BY DEF Consistent, Rests

LEMMA SaveTypesOrderly ==
  ASSUME Typed, Orderly, SaveTypes
  PROVE  Orderly'
<1>1. /\ at'[Main] = "patterns" /\ phase' = "save" /\ saved' = saved
      /\ row' = [ row EXCEPT !.listed = listed ]
      /\ clash' = clash \cup { t \in Type : \E x \in Thread : WorksOn(x, t) }
      /\ UNCHANGED lists
  BY SaveMoves DEF SaveTypes
<1>2. row'.listed = listed
  BY <1>1, RowFields DEF Typed, TypeOK
<1>3. ASSUME NEW t \in Type \ clash'
      PROVE  Consistent(t)'
  <2>1. Rests(t) /\ Consistent(t)
    BY <1>1, <1>3 DEF Rests, Orderly
  <2>2. Rests(t)' /\ SameLists(t)
    BY <2>1, SaveMoves DEF SaveTypes
  <2>3. Agree(t)'
    BY <2>1, <2>2, AgreeKept DEF Consistent
  <2>4. RowAgrees(t)'
    BY <1>1, <1>2 DEF RowAgrees, lists
  <2>5. QED
    BY <2>2, <2>3, <2>4 DEF Consistent, Rests
<1>4. SavePlace' /\ SavedAgrees'
  BY <1>1 DEF SavePlace, Saving, SavedAgrees, Orderly
<1>5. QED
  BY <1>3, <1>4 DEF Orderly

LEMMA SaveFieldOrderly ==
  ASSUME Typed, Orderly, SavePatterns \/ SaveStamps
  PROVE  Orderly'
<1>1. /\ at[Main] \in {"patterns", "stamps"} /\ at'[Main] \in {"stamps", "rest"}
      /\ UNCHANGED <<phase, clash, saved, lists>>
  <2>1. CASE SavePatterns
    BY <2>1, SaveMoves DEF SavePatterns, history
  <2>2. CASE SaveStamps
    BY <2>2, SaveMoves DEF SaveStamps, history
  <2>3. QED
    BY <2>1, <2>2
<1>2. Saving /\ Saving'
  BY <1>1 DEF Orderly, SavePlace, Saving
<1>3. ASSUME NEW t \in Type \ clash
      PROVE  Consistent(t)'
  <2>1. Rests(t) /\ Agree(t) /\ RowAgrees(t)
    BY <1>2, <1>3 DEF Orderly, Consistent
  <2>2. Rests(t)' /\ SameLists(t)
    BY <2>1, SaveMoves DEF SavePatterns, SaveStamps
  <2>3. Agree(t)'
    BY <2>1, <2>2, AgreeKept
  <2>4. RowAgrees(t)'
    <3>1. CASE SavePatterns
      <4>1. /\ row'.listed = row.listed /\ row'.pattern = pattern
            /\ at'[Main] = "stamps"
        BY <3>1, SaveMoves DEF SavePatterns, Typed, TypeOK, Row
      <4>2. QED
        BY <1>1, <2>1, <4>1 DEF RowAgrees, lists
    <3>2. CASE SaveStamps
      <4>1. /\ row'.listed = row.listed /\ row'.pattern = row.pattern /\ row'.stamp = stamp
            /\ at'[Main] = "rest" /\ at[Main] = "stamps"
        BY <3>2, SaveMoves DEF SaveStamps, Typed, TypeOK, Row
      <4>2. QED
        BY <1>1, <2>1, <4>1 DEF RowAgrees, lists
    <3>3. QED
      BY <3>1, <3>2
  <2>5. QED
    BY <2>2, <2>3, <2>4 DEF Consistent, Rests
<1>4. SavePlace' /\ SavedAgrees'
  BY <1>1, <1>2 DEF SavePlace, SavedAgrees, Orderly
<1>5. QED
  BY <1>1, <1>3, <1>4 DEF Orderly

LEMMA SaveRestOrderly ==
  ASSUME Typed, Orderly, NEW written \in BOOLEAN, NEW answered \in BOOLEAN,
         SaveRest(written, answered)
  PROVE  Orderly'
<1> DEFINE full == [ row EXCEPT !.mark = mark, !.counts = counts, !.known = known,
                            !.clash = clash, !.since = since ]
<1>1. /\ at[Main] = "rest" /\ at'[Main] = "idle"
      /\ UNCHANGED <<clash, lists>> /\ ~Saving'
      /\ saved' \in {full, saved}
  BY SaveMoves DEF SaveRest, history, Saving
<1>2. /\ full.listed = row.listed /\ full.pattern = row.pattern /\ full.stamp = row.stamp
      /\ full.clash = clash
  BY DEF Typed, TypeOK, Row
<1> HIDE DEF full
<1>3. Saving
  BY <1>1 DEF Orderly, SavePlace
<1>4. \A t \in Type \ clash : Rests(t) /\ Agree(t) /\ RowAgrees(t)
  BY <1>3 DEF Orderly, Consistent
<1>5. SavedAgrees'
  <2>1. CASE saved' = saved
    BY <2>1 DEF Orderly, SavedAgrees
  <2>2. CASE saved' = full
    <3>1. \A t \in Type \ full.clash : /\ t \in full.listed <=> full.pattern[t] # None
                                       /\ t \in full.listed <=> full.stamp[t] # 0
      BY <1>1, <1>2, <1>4 DEF RowAgrees, Agree
    <3>2. QED
      BY <2>2, <3>1 DEF SavedAgrees
  <2>3. QED
    BY <1>1, <2>1, <2>2
<1>6. ASSUME NEW t \in Type \ clash
      PROVE  Consistent(t)'
  <2>1. Rests(t)' /\ SameLists(t)
    BY <1>4, <1>6, SaveMoves DEF SaveRest
  <2>2. Agree(t)'
    BY <1>4, <1>6, <2>1, AgreeKept
  <2>3. QED
    BY <1>1, <2>1, <2>2 DEF Consistent, Rests
<1>7. SavePlace'
  BY <1>1 DEF SavePlace
<1>8. QED
  BY <1>1, <1>5, <1>6, <1>7 DEF Orderly

\* A process starts from the newest row: what the row agrees on, the suppressors
\* rebuilt from it agree on too.
LEMMA RestartOrderly ==
  ASSUME Typed, Orderly, NEW from \in {saved, Empty}, Restart(from)
  PROVE  Orderly'
<1>1. /\ listed' = from.listed /\ pattern' = from.pattern /\ stamp' = from.stamp
      /\ repeat' = { t \in from.listed : from.pattern[t] = "repeat_flood" }
      /\ noise'  = { t \in from.listed : from.pattern[t] # "repeat_flood" }
      /\ clash' = from.clash /\ saved' = saved
      /\ \A x \in Thread : at'[x] = "idle"
      /\ ~Saving'
  BY DEF Restart, Saving
<1>2. from.pattern \in [Type -> Pattern \cup {None}]
  BY EmptyRow DEF Typed, TypeOK, Row
<1>3. ASSUME NEW t \in Type \ clash'
      PROVE  Consistent(t)'
  <2>1. /\ t \in from.listed <=> from.pattern[t] # None
        /\ t \in from.listed <=> from.stamp[t] # 0
    <3>1. CASE from = saved
      BY <1>1, <1>3, <3>1 DEF Orderly, SavedAgrees
    <3>2. CASE from = Empty
      BY <1>3, <3>2 DEF Empty
    <3>3. QED
      BY <3>1, <3>2
  <2>2. from.pattern[t] \in {"repeat_flood", "dominant_type", None}
    BY <1>2 DEF Pattern
  <2>3. Agree(t)'
    BY <1>1, <2>1, <2>2 DEF Agree
  <2>4. \A x \in Thread : ~WorksOn(x, t)'
    BY <1>1 DEF WorksOn, Working
  <2>5. QED
    BY <1>1, <2>3, <2>4 DEF Consistent
<1>4. SavePlace' /\ SavedAgrees'
  BY <1>1 DEF SavePlace, SavedAgrees, Orderly, Thread
<1>5. QED
  BY <1>3, <1>4 DEF Orderly

LEMMA OrderlyStep == Typed /\ Orderly /\ [Next]_vars => Orderly'
<1> SUFFICES ASSUME Typed, Orderly, [Next]_vars PROVE Orderly'
  OBVIOUS
<1>1. CASE \E pair \in todo : Consider(pair)
  BY <1>1, ConsiderOrderly
<1>2. CASE AddType \/ SetPattern \/ SetStamp
  BY <1>2, ActivateOrderly
<1>3. CASE \E x \in Thread : Deactivate(x)
  BY <1>3, DeactivateOrderly
<1>4. CASE SaveTypes
  BY <1>4, SaveTypesOrderly
<1>5. CASE SavePatterns \/ SaveStamps
  BY <1>5, SaveFieldOrderly
<1>6. CASE \E written, answered \in BOOLEAN : SaveRest(written, answered)
  BY <1>6, SaveRestOrderly
<1>7. CASE \/ \E t \in due : ExpireNext(t)
           \/ \E t \in Type : ShadowImportant(t)
           \/ ReadVerdict
  BY <1>7, BeginSteps
<1>8. CASE \/ \E new \in SUBSET (Discoverable \ known) : Discover(new)
           \/ Recheck \/ Expire
           \/ \E t \in Type : Confirm(t) \/ Verdict(t)
           \/ Tick
           \/ UNCHANGED vars
  BY <1>8, QuietSteps
<1>9. CASE \E from \in {saved, Empty} : Restart(from)
  BY <1>9, RestartOrderly
<1>10. QED
  BY <1>1, <1>2, <1>3, <1>4, <1>5, <1>6, <1>7, <1>8, <1>9 DEF Next, Pass, Thread

LEMMA OrderlyAlways == Spec => [](Typed /\ Orderly)
<1> DEFINE Inv == Typed /\ Orderly
<1>1. Init => Inv
  BY InitTyped, InitOrderly
<1>2. Inv /\ [Next]_vars => Inv'
  BY TypedStep, OrderlyStep
<1>3. QED
  BY <1>1, <1>2, PTL DEF Spec

\* What is listed is what is suppressed, has its pattern and will expire, when
\* no thread is at work on it: activation, expiry, demotion, saving and restart
\* keep the five structures together, for all types, unless two threads worked
\* on one type at once or a save read it in between.
THEOREM AgreesCorrect == Spec => []AgreesUnlessClashed
<1>1. Orderly => AgreesUnlessClashed
  BY DEF Orderly, Consistent, Rests, AgreesUnlessClashed
<1>2. QED
  BY <1>1, OrderlyAlways, PTL

----------------------------------------------------------------------------
(* Verdicts stay applied *)

\* A step that lists nothing, reads no verdict and stores no row.
LEMMA AppliedKept ==
  ASSUME Typed, Applied,
         listed' \ clash' \subseteq listed \ clash,
         \A t \in listed' \ clash' : Leaving(t) => Leaving(t)',
         UNCHANGED <<mark, since, saved>>,
         \A n \in 1..Len(ledger) : ledger'[n] = ledger[n]
  PROVE  Applied'
<1>1. Len(ledger) \in Nat /\ mark <= Len(ledger) /\ saved.mark <= Len(ledger)
      /\ mark \in Nat /\ saved.mark \in Nat
  BY Bounded DEF Typed, TypeOK, Row
<1>2. \A t, s : /\ Before(t, mark, s) <=> Before(t, mark, s)'
                /\ Before(t, saved.mark, s) <=> Before(t, saved.mark, s)'
  <2>1. /\ \A n \in 1..mark : n \in 1..Len(ledger)
        /\ \A n \in 1..saved.mark : n \in 1..Len(ledger)
    BY <1>1
  <2>2. QED
    BY <2>1 DEF Before
<1>3. QED
  BY <1>2 DEF Applied

\* Only thread x moves, and it was not leaving anything.
LEMMA LeavingKept ==
  ASSUME NEW x \in Thread, at[x] \notin {"pop", "unlist"},
         \A y \in Thread \ {x} : at'[y] = at[y] /\ on'[y] = on[y]
  PROVE  \A t : Leaving(t) => Leaving(t)'
  BY DEF Leaving

LEMMA Entered ==
  ASSUME Typed, NEW x \in Thread, NEW t \in Type, NEW place \in Place,
         NEW p \in Pattern \cup {None}, Enter(x, t, place, p)
  PROVE  /\ at'[x] = place /\ on'[x] = t
         /\ \A y \in Thread \ {x} : at'[y] = at[y] /\ on'[y] = on[y]
         /\ clash \subseteq clash'
  BY DEF Enter, Typed, TypeOK

LEMMA InitApplied == Init => Applied
  BY DEF Init, Applied, Empty

\* The steps that move no thread.
LEMMA QuietApplied ==
  ASSUME Typed, Applied,
         \/ \E new \in SUBSET (Discoverable \ known) : Discover(new)
         \/ Recheck \/ Expire
         \/ \E t \in Type : Confirm(t) \/ Verdict(t)
         \/ Tick
         \/ UNCHANGED vars
  PROVE  Applied'
<1>1. /\ UNCHANGED <<listed, at, on, clash, mark, since, saved>>
      /\ \A n \in 1..Len(ledger) : ledger'[n] = ledger[n]
  <2>1. CASE \E new \in SUBSET (Discoverable \ known) : Discover(new)
    BY <2>1 DEF Discover, lists, threads, history, outside
  <2>2. CASE Recheck \/ Expire
    BY <2>2 DEF Recheck, Expire, lists, threads, history, outside
  <2>3. CASE \E t \in Type : Confirm(t)
    BY <2>3 DEF Confirm, lists, threads, history, outside
  <2>4. CASE \E t \in Type : Verdict(t)
    BY <2>4 DEF Verdict, lists, threads, history, Typed, TypeOK
  <2>5. CASE Tick
    BY <2>5 DEF Tick, lists, threads, history
  <2>6. CASE UNCHANGED vars
    BY <2>6 DEF vars, lists, threads, history, outside
  <2>7. QED
    BY <2>1, <2>2, <2>3, <2>4, <2>5, <2>6
<1>2. \A t : Leaving(t) => Leaving(t)'
  BY <1>1 DEF Leaving
<1>3. QED
  BY <1>1, <1>2, AppliedKept

LEMMA BeginApplied ==
  ASSUME Typed, Applied,
         \/ \E pair \in todo : Consider(pair)
         \/ \E t \in due : ExpireNext(t)
         \/ \E t \in Type : ShadowImportant(t)
  PROVE  Applied'
<1> USE DEF Thread, Main, Shadow, Poll
<1>1. "list" \in Place /\ "pop" \in Place
  BY DEF Place
<1>2. PICK x \in Thread :
         /\ at[x] = "idle"
         /\ \A y \in Thread \ {x} : at'[y] = at[y] /\ on'[y] = on[y]
         /\ clash \subseteq clash'
         /\ UNCHANGED <<listed, mark, since, saved, ledger>>
  <2>1. CASE \E pair \in todo : Consider(pair)
    <3>1. PICK pair \in todo : Consider(pair)
      BY <2>1
    <3>2. pair[1] \in Type /\ pair[2] \in Pattern
      <4>1. pair \in Type \X Pattern
        BY DEF Typed, TypeOK
      <4>2. QED
        BY <4>1
    <3>3. CASE Enter(Main, pair[1], "list", pair[2])
      BY <1>1, <3>1, <3>2, <3>3, Entered DEF Consider, outside
    <3>4. CASE UNCHANGED <<threads, clash>>
      BY <3>1, <3>4 DEF Consider, threads, outside
    <3>5. QED
      BY <3>1, <3>3, <3>4 DEF Consider
  <2>2. CASE \E t \in due : ExpireNext(t)
    <3>1. PICK t \in due : ExpireNext(t)
      BY <2>2
    <3>2. t \in Type
      BY DEF Typed, TypeOK
    <3>3. QED
      BY <1>1, <3>1, <3>2, Entered DEF ExpireNext, lists, outside
  <2>3. CASE \E t \in Type : ShadowImportant(t)
    BY <1>1, <2>3, Entered DEF ShadowImportant, lists, outside
  <2>4. QED
    BY <2>1, <2>2, <2>3
<1>3. \A t : Leaving(t) => Leaving(t)'
  BY <1>2, LeavingKept
<1>4. QED
  BY <1>2, <1>3, AppliedKept

\* A verdict on a listed type makes the poll leave it; one on another type
\* moves the watermark over a verdict that is not about what is listed.
LEMMA ReadVerdictApplied ==
  ASSUME Typed, Applied, ReadVerdict
  PROVE  Applied'
<1>1. PICK u \in Type : ledger[mark + 1] = u
  <2>1. mark + 1 \in 1..Len(ledger)
    BY Bounded DEF Typed, TypeOK, ReadVerdict
  <2>2. QED
    BY <2>1, ElementOfSeq DEF Typed, TypeOK
<1>2. /\ mark' = mark + 1 /\ at[Poll] = "idle" /\ Judge(u)
      /\ UNCHANGED <<listed, since, saved, ledger>>
  BY <1>1 DEF ReadVerdict, lists, outside
<1>3. Poll \in Thread /\ "pop" \in Place
  BY DEF Thread, Place
<1>4. /\ \A y \in Thread \ {Poll} : at'[y] = at[y] /\ on'[y] = on[y]
      /\ clash \subseteq clash'
      /\ u \in listed => at'[Poll] = "pop" /\ on'[Poll] = u
  <2>1. CASE u \in listed
    BY <1>2, <1>3, <2>1, Entered DEF Judge
  <2>2. CASE u \notin listed
    BY <1>2, <2>2 DEF Judge, threads
  <2>3. QED
    BY <2>1, <2>2
<1>5. \A t : Leaving(t) => Leaving(t)'
  BY <1>2, <1>3, <1>4, LeavingKept
<1>6. ASSUME NEW t \in listed' \ clash'
      PROVE  Before(t, mark, since)' \/ Leaving(t)'
  <2>1. t \in listed \ clash
    BY <1>2, <1>4, <1>6
  <2>2. CASE t = u
    BY <1>3, <1>4, <2>1, <2>2 DEF Leaving
  <2>3. CASE t # u /\ Before(t, mark, since)
    <3>1. mark \in Nat /\ \A n \in 1..(mark + 1) : n \in 1..mark \/ n = mark + 1
      BY Bounded DEF Typed, TypeOK
    <3>2. QED
      BY <1>1, <1>2, <2>3, <3>1 DEF Before
  <2>4. QED
    BY <1>5, <2>1, <2>2, <2>3 DEF Applied
<1>7. \A t \in saved'.listed \ saved'.clash : Before(t, saved.mark, saved.since)'
  BY <1>2 DEF Applied, Before
<1>8. QED
  BY <1>6, <1>7 DEF Applied

\* An activation is after every verdict the watermark has passed.
LEMMA AddTypeApplied ==
  ASSUME Typed, Applied, AddType
  PROVE  Applied'
<1>1. PICK u \in Type : on[Main] = u /\ Main \in Thread
  BY DEF AddType, Typed, Thread, Working
<1>2. /\ at[Main] = "list" /\ listed' = listed \cup {u}
      /\ since' = [ since EXCEPT ![u] = mark ] /\ Goto(Main, "pattern")
      /\ UNCHANGED <<on, mark, ledger, saved, clash>>
  BY <1>1 DEF AddType, outside
<1>3. \A y \in Thread \ {Main} : at'[y] = at[y] /\ on'[y] = on[y]
  BY <1>1, <1>2, Gone
<1>4. \A t : Leaving(t) => Leaving(t)'
  BY <1>1, <1>2, <1>3, LeavingKept
<1>5. since'[u] = mark /\ \A t \in Type \ {u} : since'[t] = since[t]
  BY <1>2 DEF Typed, TypeOK
<1>6. ASSUME NEW t \in listed' \ clash'
      PROVE  Before(t, mark, since)' \/ Leaving(t)'
  <2>1. CASE t = u
    <3>1. mark \in Nat /\ \A n \in 1..mark : n <= mark
      BY Bounded DEF Typed, TypeOK
    <3>2. QED
      BY <1>2, <1>5, <2>1, <3>1 DEF Before
  <2>2. CASE t # u
    <3>1. t \in listed \ clash /\ t \in Type
      BY <1>2, <1>6, <2>2 DEF Typed, TypeOK
    <3>2. Before(t, mark, since) => Before(t, mark, since)'
      BY <1>2, <1>5, <2>2, <3>1 DEF Before
    <3>3. QED
      BY <1>4, <3>1, <3>2 DEF Applied
  <2>3. QED
    BY <2>1, <2>2
<1>7. \A t \in saved'.listed \ saved'.clash : Before(t, saved.mark, saved.since)'
  BY <1>2 DEF Applied, Before
<1>8. QED
  BY <1>6, <1>7 DEF Applied

LEMMA SetApplied ==
  ASSUME Typed, Applied, SetPattern \/ SetStamp
  PROVE  Applied'
<1>1. Main \in Thread
  BY DEF Thread
<1>2. /\ at[Main] \in {"pattern", "stamp"}
      /\ \A y \in Thread \ {Main} : at'[y] = at[y] /\ on'[y] = on[y]
      /\ UNCHANGED <<listed, clash, mark, since, saved, ledger>>
  BY <1>1, Gone, Left DEF SetPattern, SetStamp, history, outside
<1>3. \A t : Leaving(t) => Leaving(t)'
  BY <1>1, <1>2, LeavingKept
<1>4. QED
  BY <1>2, <1>3, AppliedKept

LEMMA DeactivateApplied ==
  ASSUME Typed, Applied, NEW x \in Thread, Deactivate(x)
  PROVE  Applied'
<1>1. PICK u : on[x] = u
  OBVIOUS
<1>2. UNCHANGED <<clash, mark, since, saved, ledger>>
  BY DEF Deactivate, PopPattern, Unlist, Unstamp, Unsuppress, history, outside
<1>3. listed' \subseteq listed /\ \A t \in listed' : Leaving(t) => Leaving(t)'
  <2>1. CASE PopPattern(x)
    <3>1. /\ at'[x] = "unlist" /\ on'[x] = on[x] /\ listed' = listed
          /\ \A y \in Thread \ {x} : at'[y] = at[y] /\ on'[y] = on[y]
      BY <2>1, Gone DEF PopPattern
    <3>2. QED
      BY <3>1 DEF Leaving
  <2>2. CASE Unlist(x)
    <3>1. /\ listed' = listed \ {u}
          /\ \A y \in Thread \ {x} : at'[y] = at[y] /\ on'[y] = on[y]
      BY <1>1, <2>2, Gone DEF Unlist
    <3>2. QED
      BY <1>1, <3>1 DEF Leaving
  <2>3. CASE Unstamp(x) \/ Unsuppress(x)
    <3>1. /\ at[x] \in {"unstamp", "unsuppress"} /\ listed' = listed
          /\ \A y \in Thread \ {x} : at'[y] = at[y] /\ on'[y] = on[y]
      BY <2>3, Gone, Left DEF Unstamp, Unsuppress
    <3>2. QED
      BY <3>1, LeavingKept
  <2>4. QED
    BY <2>1, <2>2, <2>3 DEF Deactivate
<1>4. QED
  BY <1>2, <1>3, AppliedKept

LEMMA SaveApplied ==
  ASSUME Typed, Applied, SaveTypes \/ SavePatterns \/ SaveStamps
  PROVE  Applied'
<1>1. Main \in Thread
  BY DEF Thread
<1>2. /\ at[Main] \in {"idle", "patterns", "stamps"}
      /\ \A y \in Thread \ {Main} : at'[y] = at[y] /\ on'[y] = on[y]
      /\ clash \subseteq clash'
      /\ UNCHANGED <<listed, mark, since, saved, ledger>>
  BY <1>1, Gone DEF SaveTypes, SavePatterns, SaveStamps, lists, history, outside
<1>3. \A t : Leaving(t) => Leaving(t)'
  BY <1>1, <1>2, LeavingKept
<1>4. QED
  BY <1>2, <1>3, AppliedKept

\* The row written holds the types as they are at its end, with no thread at
\* work on them, together with the watermark of its end.
LEMMA SaveRestApplied ==
  ASSUME Typed, Orderly, Applied, NEW written \in BOOLEAN, NEW answered \in BOOLEAN,
         SaveRest(written, answered)
  PROVE  Applied'
<1> DEFINE full == [ row EXCEPT !.mark = mark, !.counts = counts, !.known = known,
                            !.clash = clash, !.since = since ]
<1>1. /\ at[Main] = "rest" /\ Main \in Thread
      /\ \A y \in Thread \ {Main} : at'[y] = at[y] /\ on'[y] = on[y]
      /\ UNCHANGED <<clash, listed, mark, since, ledger>>
      /\ saved' \in {full, saved}
  BY Gone DEF SaveRest, history, lists, outside, Thread
<1>2. full.listed = row.listed /\ full.clash = clash /\ full.mark = mark /\ full.since = since
  BY DEF Typed, TypeOK, Row
<1> HIDE DEF full
<1>3. \A t : Leaving(t) => Leaving(t)'
  BY <1>1, LeavingKept
<1>4. \A t \in listed' \ clash' : Before(t, mark, since)' \/ Leaving(t)'
  BY <1>1, <1>3 DEF Applied, Before
<1>5. CASE saved' = saved
  <2>1. \A t \in saved'.listed \ saved'.clash : Before(t, saved.mark, saved.since)'
    BY <1>1, <1>5 DEF Applied, Before
  <2>2. QED
    BY <1>4, <2>1 DEF Applied
<1>6. CASE saved' = full
  <2>1. ASSUME NEW t \in row.listed \ clash
        PROVE  Before(t, mark, since)
    <3>1. Saving /\ t \in Type
      BY <1>1 DEF Orderly, SavePlace, Typed, TypeOK, Row
    <3>2. Rests(t) /\ t \in listed
      BY <2>1, <3>1 DEF Orderly, Consistent, RowAgrees
    <3>3. ~Leaving(t)
      BY <3>2 DEF Rests, Leaving, WorksOn, Working
    <3>4. QED
      BY <2>1, <3>2, <3>3 DEF Applied
  <2>2. \A t \in saved'.listed \ saved'.clash : Before(t, saved.mark, saved.since)'
    BY <1>1, <1>2, <1>6, <2>1 DEF Before
  <2>3. QED
    BY <1>4, <2>2 DEF Applied
<1>7. QED
  BY <1>1, <1>5, <1>6

LEMMA RestartApplied ==
  ASSUME Typed, Applied, NEW from \in {saved, Empty}, Restart(from)
  PROVE  Applied'
<1>1. /\ listed' = from.listed /\ mark' = from.mark /\ clash' = from.clash
      /\ since' = from.since /\ saved' = saved /\ ledger' = ledger
  BY DEF Restart
<1>2. CASE from = saved
  BY <1>1, <1>2 DEF Applied, Before
<1>3. CASE from = Empty
  BY <1>1, <1>3, EmptyRow DEF Applied, Before
<1>4. QED
  BY <1>2, <1>3

LEMMA AppliedStep == Typed /\ Orderly /\ Applied /\ [Next]_vars => Applied'
<1> SUFFICES ASSUME Typed, Orderly, Applied, [Next]_vars PROVE Applied'
  OBVIOUS
<1>1. CASE \/ \E pair \in todo : Consider(pair)
           \/ \E t \in due : ExpireNext(t)
           \/ \E t \in Type : ShadowImportant(t)
  BY <1>1, BeginApplied
<1>2. CASE AddType
  BY <1>2, AddTypeApplied
<1>3. CASE SetPattern \/ SetStamp
  BY <1>3, SetApplied
<1>4. CASE \E x \in Thread : Deactivate(x)
  BY <1>4, DeactivateApplied
<1>5. CASE SaveTypes \/ SavePatterns \/ SaveStamps
  BY <1>5, SaveApplied
<1>6. CASE \E written, answered \in BOOLEAN : SaveRest(written, answered)
  BY <1>6, SaveRestApplied
<1>7. CASE ReadVerdict
  BY <1>7, ReadVerdictApplied
<1>8. CASE \/ \E new \in SUBSET (Discoverable \ known) : Discover(new)
           \/ Recheck \/ Expire
           \/ \E t \in Type : Confirm(t) \/ Verdict(t)
           \/ Tick
           \/ UNCHANGED vars
  BY <1>8, QuietApplied
<1>9. CASE \E from \in {saved, Empty} : Restart(from)
  BY <1>9, RestartApplied
<1>10. QED
  BY <1>1, <1>2, <1>3, <1>4, <1>5, <1>6, <1>7, <1>8, <1>9 DEF Next, Pass, Thread

\* A verdict the poll has read is applied and stays applied, through later
\* activations, saves that overlap other threads and restarts from any saved
\* row: an active type, with no thread at work on it, was activated after every
\* FAILS verdict on it up to the watermark, unless threads clashed on it.
THEOREM VerdictsCorrect == Spec => []VerdictsApplied
<1> DEFINE Inv == Typed /\ Orderly /\ Applied
<1>1. Init => Inv
  BY InitTyped, InitOrderly, InitApplied
<1>2. Inv /\ [Next]_vars => Inv'
  BY TypedStep, OrderlyStep, AppliedStep
<1>3. Applied => VerdictsApplied
  <2> SUFFICES ASSUME Applied, NEW t \in listed \ clash, NEW n \in 1..mark,
                      ledger[n] = t, \A x \in Thread : ~WorksOn(x, t)
               PROVE  n <= since[t]
    BY DEF VerdictsApplied
  <2>1. ~Leaving(t)
    BY DEF Leaving, WorksOn, Working
  <2>2. QED
    BY <2>1 DEF Applied, Before
<1>4. QED
  BY <1>1, <1>2, <1>3, PTL DEF Spec
=============================================================================
