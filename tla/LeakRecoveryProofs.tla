------------------------- MODULE LeakRecoveryProofs -------------------------
(***************************************************************************)
(* Theorems about the forwards of one remote bind, for any number of       *)
(* records and of instances, of calls and of faults.                       *)
(***************************************************************************)
EXTENDS LeakRecovery, SequenceTheorems, TLAPS

-----------------------------------------------------------------------------
(* The client's list of listeners: one is added at the end, the oldest one *)
(* is taken off.                                                           *)
LEMMA EmptyList ==
    ASSUME NEW S
    PROVE  /\ <<>> \in Seq(S) /\ IsInjective(<<>>) /\ ToSet(<<>>) = {}
           /\ Len(<<>>) = 0
BY DEF IsInjective, ToSet

LEMMA OnlyEmptyList ==
    ASSUME NEW S, NEW q \in Seq(S), ToSet(q) = {}
    PROVE  q = <<>>
<1>1. DOMAIN q = 1..Len(q) /\ Len(q) \in Nat
  BY LenProperties
<1>2. ASSUME Len(q) # 0 PROVE FALSE
  <2>1. 1 \in DOMAIN q
    BY <1>1, <1>2
  <2>2. q[1] \in ToSet(q)
    BY <2>1 DEF ToSet
  <2>3. QED
    BY <2>2
<1>3. QED
  BY <1>2, EmptySeq

LEMMA ListenerAdded ==
    ASSUME NEW S, NEW q \in Seq(S), NEW x \in S, IsInjective(q), x \notin ToSet(q)
    PROVE  /\ Append(q, x) \in Seq(S) /\ IsInjective(Append(q, x))
           /\ ToSet(Append(q, x)) = ToSet(q) \cup {x}
           /\ Len(Append(q, x)) = Len(q) + 1
<1> DEFINE r == Append(q, x)
<1>1. /\ r \in Seq(S) /\ Len(r) = Len(q) + 1 /\ Len(q) \in Nat
      /\ DOMAIN r = 1..Len(q) + 1 /\ DOMAIN q = 1..Len(q)
      /\ \A k \in 1..Len(q) : r[k] = q[k]
      /\ r[Len(q) + 1] = x
  BY AppendProperties, LenProperties
<1>2. \A k \in 1..Len(q) : q[k] \in ToSet(q)
  BY <1>1 DEF ToSet
<1>3. IsInjective(r)
  <2> SUFFICES ASSUME NEW a \in 1..Len(q) + 1, NEW b \in 1..Len(q) + 1, r[a] = r[b]
               PROVE  a = b
    BY <1>1 DEF IsInjective
  <2>1. CASE a \in 1..Len(q) /\ b \in 1..Len(q)
    BY <1>1, <2>1 DEF IsInjective
  <2>2. CASE a = Len(q) + 1 \/ b = Len(q) + 1
    BY <1>1, <1>2, <2>2
  <2>3. QED
    BY <1>1, <2>1, <2>2
<1>4. ToSet(r) = ToSet(q) \cup {x}
  <2> HIDE DEF r
  <2>1. ASSUME NEW y \in ToSet(r) PROVE y \in ToSet(q) \cup {x}
    <3>1. PICK k \in 1..Len(q) + 1 : y = r[k]
      BY <1>1, <2>1 DEF ToSet
    <3>2. QED
      BY <1>1, <1>2, <3>1
  <2>2. ASSUME NEW y \in ToSet(q) PROVE y \in ToSet(r)
    <3>1. PICK k \in 1..Len(q) : y = q[k]
      BY <1>1, <2>2 DEF ToSet
    <3>2. k \in DOMAIN r /\ y = r[k]
      BY <1>1, <3>1
    <3>3. QED
      BY <3>2 DEF ToSet
  <2>3. Len(q) + 1 \in DOMAIN r
    BY <1>1
  <2>4. x \in ToSet(r)
    BY <1>1, <2>3 DEF ToSet
  <2>5. QED
    BY <2>1, <2>2, <2>4
<1>5. QED
  BY <1>1, <1>3, <1>4

LEMMA OldestTakenOff ==
    ASSUME NEW S, NEW q \in Seq(S), IsInjective(q), q # <<>>
    PROVE  /\ Tail(q) \in Seq(S) /\ IsInjective(Tail(q))
           /\ ToSet(Tail(q)) \subseteq ToSet(q)
           /\ Len(Tail(q)) = Len(q) - 1
<1> DEFINE r == Tail(q)
<1>1. /\ r \in Seq(S) /\ Len(r) = Len(q) - 1 /\ Len(q) \in Nat
      /\ DOMAIN r = 1..Len(q) - 1 /\ DOMAIN q = 1..Len(q)
      /\ \A k \in 1..Len(q) - 1 : r[k] = q[k + 1] /\ k + 1 \in 1..Len(q)
  BY HeadTailProperties, LenProperties
<1>2. IsInjective(r)
  BY <1>1 DEF IsInjective
<1>3. ToSet(r) \subseteq ToSet(q)
  <2> HIDE DEF r
  <2>1. QED
    BY <1>1 DEF ToSet
<1>4. QED
  BY <1>1, <1>2, <1>3

-----------------------------------------------------------------------------
LEMMA InitLeak == Init => LeakIInv
<1> SUFFICES ASSUME Init PROVE LeakIInv
  OBVIOUS
<1>1. entries \in Seq(Instances) /\ IsInjective(entries) /\ ToSet(entries) = {}
  BY EmptyList DEF Init
<1>2. TypeOK
  <2>1. calls \in 0..MaxCalls /\ faults \in 0..MaxFaults
    BY LeakAssumption DEF Init
  <2>2. QED
    BY <1>1, <2>1 DEF Init, TypeOK, Starts
<1>3. GuardSeen /\ ListenersStarted
  BY <1>1 DEF Init, GuardSeen, ListenersStarted
<1>4. OneHearerUnlessRaced
  BY EmptyList DEF Init, OneHearerUnlessRaced
<1>5. QED
  BY <1>2, <1>3, <1>4 DEF LeakIInv

(* A listen that succeeds finds the bind free, hence the list empty.       *)
LEMMA SucceedsStep ==
    ASSUME LeakIInv, NEW i \in Instances, Succeeds(i), pc[i] \in Starts
    PROVE  LeakIInv'
<1>1. /\ entries \in Seq(Instances) /\ IsInjective(entries)
      /\ i \notin ToSet(entries)
  BY DEF LeakIInv, TypeOK, ListenersStarted, Starts
<1>2. /\ entries' \in Seq(Instances) /\ IsInjective(entries')
      /\ ToSet(entries') = ToSet(entries) \cup {i}
      /\ Len(entries') = Len(entries) + 1
  BY <1>1, ListenerAdded DEF Succeeds
<1>3. TypeOK'
  BY <1>2, LeakAssumption DEF LeakIInv, TypeOK, Succeeds, Goto, StartOver, Starts
<1>4. GuardSeen' /\ ListenersStarted'
  BY <1>2 DEF LeakIInv, TypeOK, GuardSeen, ListenersStarted, Succeeds, Goto
<1>5. OneHearerUnlessRaced'
  <2>1. ASSUME ~raced PROVE Len(entries) = 0
    BY <2>1, <1>1, EmptyList DEF LeakIInv, OneHearerUnlessRaced, Succeeds
  <2>2. QED
    BY <1>2, <2>1 DEF OneHearerUnlessRaced, Succeeds
<1>6. QED
  BY <1>3, <1>4, <1>5 DEF LeakIInv

(* Whoever closes takes the oldest listener off; alone, its own.           *)
LEMMA CloseStep ==
    ASSUME LeakIInv, NEW i \in Instances, Close(i)
    PROVE  LeakIInv'
<1>1. /\ entries' \in Seq(Instances) /\ IsInjective(entries')
      /\ ToSet(entries') \subseteq ToSet(entries)
      /\ \/ entries' = entries /\ raced' = raced /\ remote' = remote
         \/ /\ ~raced => entries' = <<>>
            /\ ~raced' => ~raced \/ entries' = <<>>
  <2>1. entries \in Seq(Instances) /\ IsInjective(entries) /\ Len(entries) \in Nat
    BY DEF LeakIInv, TypeOK
  <2>2. CASE i \in lost
    BY <2>1, <2>2 DEF Close, CloseListener, bindVars
  <2>3. CASE i \notin lost /\ entries = <<>>
    BY <2>1, <2>3 DEF Close, CloseListener
  <2>4. CASE i \notin lost /\ entries # <<>>
    <3>1. entries' = Tail(entries) /\ raced' = (raced /\ entries' # <<>>)
      BY <2>4 DEF Close, CloseListener
    <3>2. /\ Tail(entries) \in Seq(Instances) /\ IsInjective(Tail(entries))
          /\ ToSet(Tail(entries)) \subseteq ToSet(entries)
          /\ Len(Tail(entries)) = Len(entries) - 1
      BY <2>1, <2>4, OldestTakenOff
    <3>3. ~raced => Tail(entries) = <<>>
      <4> SUFFICES ASSUME ~raced PROVE Tail(entries) = <<>>
        OBVIOUS
      <4>1. Len(Tail(entries)) <= 0 /\ Len(Tail(entries)) \in Nat
        BY <2>1, <3>2, LenProperties DEF LeakIInv, OneHearerUnlessRaced
      <4>2. QED
        BY <3>2, <4>1, EmptySeq, LenProperties
    <3>4. QED
      BY <3>1, <3>2, <3>3
  <2>5. QED
    BY <2>2, <2>3, <2>4
<1>2. TypeOK'
  <2>1. remote' \in {"free", "held", "foreign"} /\ raced' \in BOOLEAN
    BY DEF LeakIInv, TypeOK, Close, CloseListener, bindVars
  <2>2. calls' \in 0..MaxCalls /\ faults' \in 0..MaxFaults
    BY LeakAssumption DEF LeakIInv, TypeOK, Close, CloseListener, Fault
  <2>3. QED
    BY <1>1, <2>1, <2>2 DEF LeakIInv, TypeOK, Close, Goto, Starts, srvVars
<1>3. GuardSeen' /\ ListenersStarted'
  BY <1>1 DEF LeakIInv, TypeOK, GuardSeen, ListenersStarted, Close, Goto
<1>4. OneHearerUnlessRaced'
  BY <1>1, EmptyList DEF LeakIInv, OneHearerUnlessRaced
<1>5. QED
  BY <1>2, <1>3, <1>4 DEF LeakIInv

LEMMA TypeStep ==
    ASSUME LeakIInv, Next
    PROVE  TypeOK'
<1> USE LeakAssumption DEF LeakIInv, TypeOK, Starts, srvVars, instVars, bindVars
<1>1. ASSUME NEW r \in Records, CreateForward(r)
      PROVE  TypeOK'
  BY <1>1 DEF CreateForward
<1>2. ASSUME NEW r \in Records, DeleteForward(r)
      PROVE  TypeOK'
  BY <1>2 DEF DeleteForward
<1>3. ASSUME NEW r \in Records, SyncStop(r)
      PROVE  TypeOK'
  BY <1>3 DEF SyncStop, Goto
<1>4. ASSUME NEW r \in Records, Rebuild(r)
      PROVE  TypeOK'
  BY <1>4 DEF Rebuild, Goto
<1>5. ASSUME NEW r \in Records, NEW i \in Instances, SyncStart(i, r)
      PROVE  TypeOK'
  BY <1>5 DEF SyncStart, Build, LeakRecoveryAllowed, Goto
<1>6. ASSUME NEW i \in Instances, RebuildStart(i)
      PROVE  TypeOK'
  BY <1>6 DEF RebuildStart, Build, LeakRecoveryAllowed, Goto
<1>7. ASSUME NEW i \in Instances, Listen(i)
      PROVE  TypeOK'
  <2>1. CASE Succeeds(i)
    BY <1>7, <2>1, SucceedsStep DEF Listen, LeakIInv, Starts
  <2>2. CASE ~Succeeds(i)
    BY <1>7, <2>2 DEF Listen, Goto
  <2>3. QED
    BY <2>1, <2>2
<1>8. ASSUME NEW i \in Instances, Probe(i)
      PROVE  TypeOK'
  BY <1>8 DEF Probe, Goto, Fails, Discard, StartOver
<1>9. ASSUME NEW i \in Instances, Cancel(i)
      PROVE  TypeOK'
  BY <1>9 DEF Cancel, Goto, Unseen, Fails, Discard, StartOver
<1>10. ASSUME NEW i \in Instances, Relisten(i)
      PROVE  TypeOK'
  <2>1. CASE Succeeds(i)
    BY <1>10, <2>1, SucceedsStep DEF Relisten, LeakIInv, Starts
  <2>2. CASE ~Succeeds(i)
    <3>1. Fails(i) /\ UNCHANGED faults
      BY <1>10, <2>2 DEF Relisten
    <3>2. QED
      BY <3>1 DEF Goto, Fails, Discard, StartOver
  <2>3. QED
    BY <2>1, <2>2
<1>11. ASSUME NEW i \in Instances, StartFails(i)
      PROVE  TypeOK'
  BY <1>11 DEF StartFails, Fault, Goto, Fails, Discard, StartOver
<1>12. ASSUME NEW i \in Instances, NoticesEnd(i)
      PROVE  TypeOK'
  BY <1>12 DEF NoticesEnd, Goto
<1>13. ASSUME NEW i \in Instances, InstanceFails(i)
      PROVE  TypeOK'
  BY <1>13 DEF InstanceFails, Fault, Goto
<1>14. ASSUME NEW i \in Instances, Close(i)
      PROVE  TypeOK'
  BY <1>14, CloseStep DEF LeakIInv
<1>15. ASSUME NEW i \in Instances, StopReturns(i)
      PROVE  TypeOK'
  BY <1>15 DEF StopReturns, Discard, Goto
<1>16. ASSUME RebuildGone
      PROVE  TypeOK'
  BY <1>16 DEF RebuildGone
<1>17. ASSUME SessionLost
      PROVE  TypeOK'
  <2>1. entries' \in Seq(Instances) /\ IsInjective(entries')
    BY <1>17, EmptyList DEF SessionLost
  <2>2. faults' \in 0..MaxFaults /\ calls' = calls
    BY <1>17 DEF SessionLost, Fault
  <2>3. QED
    BY <1>17, <2>1, <2>2 DEF SessionLost
<1>18. ASSUME SshdReclaims
      PROVE  TypeOK'
  BY <1>18 DEF SshdReclaims
<1>19. QED
  BY <1>1, <1>2, <1>3, <1>4, <1>5, <1>6, <1>7, <1>8, <1>9, <1>10, <1>11,
     <1>12, <1>13, <1>14, <1>15, <1>16, <1>17, <1>18 DEF Next, Start

(* The guard's answer stays with the instance, and was right when given.   *)
LEMMA GuardStep ==
    ASSUME LeakIInv, Next
    PROVE  GuardSeen'
<1> USE DEF LeakIInv, TypeOK, GuardSeen, Starts, srvVars, instVars, bindVars
<1>1. ASSUME NEW r \in Records, CreateForward(r)
      PROVE  GuardSeen'
  BY <1>1 DEF CreateForward
<1>2. ASSUME NEW r \in Records, DeleteForward(r)
      PROVE  GuardSeen'
  BY <1>2 DEF DeleteForward
<1>3. ASSUME NEW r \in Records, SyncStop(r)
      PROVE  GuardSeen'
  BY <1>3 DEF SyncStop, Goto
<1>4. ASSUME NEW r \in Records, Rebuild(r)
      PROVE  GuardSeen'
  BY <1>4 DEF Rebuild, Goto
<1>5. ASSUME NEW r \in Records, NEW i \in Instances, SyncStart(i, r)
      PROVE  GuardSeen'
  BY <1>5 DEF SyncStart, Build, LeakRecoveryAllowed, Goto
<1>6. ASSUME NEW i \in Instances, RebuildStart(i)
      PROVE  GuardSeen'
  BY <1>6 DEF RebuildStart, Build, LeakRecoveryAllowed, Goto
<1>7. ASSUME NEW i \in Instances, Listen(i)
      PROVE  GuardSeen'
  <2>1. CASE Succeeds(i)
    BY <1>7, <2>1, SucceedsStep DEF Listen, LeakIInv, Starts
  <2>2. CASE ~Succeeds(i)
    BY <1>7, <2>2 DEF Listen, Goto
  <2>3. QED
    BY <2>1, <2>2
<1>8. ASSUME NEW i \in Instances, Probe(i)
      PROVE  GuardSeen'
  BY <1>8 DEF Probe, Goto, Fails, Discard, StartOver
<1>9. ASSUME NEW i \in Instances, Cancel(i)
      PROVE  GuardSeen'
  BY <1>9 DEF Cancel, Goto, Unseen, Fails, Discard, StartOver
<1>10. ASSUME NEW i \in Instances, Relisten(i)
      PROVE  GuardSeen'
  <2>1. CASE Succeeds(i)
    BY <1>10, <2>1, SucceedsStep DEF Relisten, LeakIInv, Starts
  <2>2. CASE ~Succeeds(i)
    BY <1>10, <2>2 DEF Relisten, Goto, Fails, Discard, StartOver
  <2>3. QED
    BY <2>1, <2>2
<1>11. ASSUME NEW i \in Instances, StartFails(i)
      PROVE  GuardSeen'
  BY <1>11 DEF StartFails, Fault, Goto, Fails, Discard, StartOver
<1>12. ASSUME NEW i \in Instances, NoticesEnd(i)
      PROVE  GuardSeen'
  BY <1>12 DEF NoticesEnd, Goto
<1>13. ASSUME NEW i \in Instances, InstanceFails(i)
      PROVE  GuardSeen'
  BY <1>13 DEF InstanceFails, Fault, Goto
<1>14. ASSUME NEW i \in Instances, Close(i)
      PROVE  GuardSeen'
  BY <1>14, CloseStep DEF LeakIInv
<1>15. ASSUME NEW i \in Instances, StopReturns(i)
      PROVE  GuardSeen'
  BY <1>15 DEF StopReturns, Discard, Goto
<1>16. ASSUME RebuildGone
      PROVE  GuardSeen'
  BY <1>16 DEF RebuildGone
<1>17. ASSUME SessionLost
      PROVE  GuardSeen'
  BY <1>17 DEF SessionLost, Fault
<1>18. ASSUME SshdReclaims
      PROVE  GuardSeen'
  BY <1>18 DEF SshdReclaims
<1>19. QED
  BY <1>1, <1>2, <1>3, <1>4, <1>5, <1>6, <1>7, <1>8, <1>9, <1>10, <1>11,
     <1>12, <1>13, <1>14, <1>15, <1>16, <1>17, <1>18 DEF Next, Start

(* A step of Start that does not succeed concerns no listener.             *)
LEMMA ListenersKept ==
    ASSUME LeakIInv, NEW i \in Instances, pc[i] \in Starts, entries' = entries,
           \A j \in Instances \ {i} : pc'[j] = pc[j]
    PROVE  ListenersStarted'
<1>1. i \notin ToSet(entries)
  BY DEF LeakIInv, ListenersStarted, Starts
<1>2. ToSet(entries) \subseteq Instances
  <2>1. \A k \in DOMAIN entries : entries[k] \in Instances
    BY ElementOfSeq, LenProperties DEF LeakIInv, TypeOK
  <2>2. QED
    BY <2>1 DEF ToSet
<1>3. QED
  BY <1>1, <1>2 DEF LeakIInv, ListenersStarted

LEMMA ListenersStep ==
    ASSUME LeakIInv, Next
    PROVE  ListenersStarted'
<1> USE DEF LeakIInv, TypeOK, ListenersStarted, Starts, srvVars, instVars, bindVars
<1>1. ASSUME NEW r \in Records, CreateForward(r)
      PROVE  ListenersStarted'
  BY <1>1 DEF CreateForward
<1>2. ASSUME NEW r \in Records, DeleteForward(r)
      PROVE  ListenersStarted'
  BY <1>2 DEF DeleteForward
<1>3. ASSUME NEW r \in Records, SyncStop(r)
      PROVE  ListenersStarted'
  BY <1>3 DEF SyncStop, Goto
<1>4. ASSUME NEW r \in Records, Rebuild(r)
      PROVE  ListenersStarted'
  BY <1>4 DEF Rebuild, Goto
<1>5. ASSUME NEW r \in Records, NEW i \in Instances, SyncStart(i, r)
      PROVE  ListenersStarted'
  BY <1>5 DEF SyncStart, Build, LeakRecoveryAllowed, Goto
<1>6. ASSUME NEW i \in Instances, RebuildStart(i)
      PROVE  ListenersStarted'
  BY <1>6 DEF RebuildStart, Build, LeakRecoveryAllowed, Goto
<1>7. ASSUME NEW i \in Instances, Listen(i)
      PROVE  ListenersStarted'
  <2>1. CASE Succeeds(i)
    BY <1>7, <2>1, SucceedsStep DEF Listen
  <2>2. CASE ~Succeeds(i)
    <3>1. /\ entries' = entries /\ pc[i] \in Starts
          /\ \A j \in Instances \ {i} : pc'[j] = pc[j]
      BY <1>7, <2>2 DEF Listen, Goto
    <3>2. QED
      BY <3>1, ListenersKept
  <2>3. QED
    BY <2>1, <2>2
<1>8. ASSUME NEW i \in Instances, Probe(i)
      PROVE  ListenersStarted'
  <2>1. /\ entries' = entries /\ pc[i] \in Starts
        /\ \A j \in Instances \ {i} : pc'[j] = pc[j]
    BY <1>8 DEF Probe, Fails, Discard, Goto
  <2>2. QED
    BY <2>1, ListenersKept
<1>9. ASSUME NEW i \in Instances, Cancel(i)
      PROVE  ListenersStarted'
  <2>1. /\ entries' = entries /\ pc[i] \in Starts
        /\ \A j \in Instances \ {i} : pc'[j] = pc[j]
    BY <1>9 DEF Cancel, Fails, Discard, Goto
  <2>2. QED
    BY <2>1, ListenersKept
<1>10. ASSUME NEW i \in Instances, Relisten(i)
      PROVE  ListenersStarted'
  <2>1. CASE Succeeds(i)
    BY <1>10, <2>1, SucceedsStep DEF Relisten
  <2>2. CASE ~Succeeds(i)
    <3>1. /\ entries' = entries /\ pc[i] \in Starts
          /\ \A j \in Instances \ {i} : pc'[j] = pc[j]
      BY <1>10, <2>2 DEF Relisten, Fails, Discard, Goto
    <3>2. QED
      BY <3>1, ListenersKept
  <2>3. QED
    BY <2>1, <2>2
<1>11. ASSUME NEW i \in Instances, StartFails(i)
      PROVE  ListenersStarted'
  BY <1>11 DEF StartFails, Fault, Goto, Fails, Discard, StartOver
<1>12. ASSUME NEW i \in Instances, NoticesEnd(i)
      PROVE  ListenersStarted'
  BY <1>12 DEF NoticesEnd, Goto
<1>13. ASSUME NEW i \in Instances, InstanceFails(i)
      PROVE  ListenersStarted'
  BY <1>13 DEF InstanceFails, Fault, Goto
<1>14. ASSUME NEW i \in Instances, Close(i)
      PROVE  ListenersStarted'
  BY <1>14, CloseStep DEF LeakIInv
<1>15. ASSUME NEW i \in Instances, StopReturns(i)
      PROVE  ListenersStarted'
  BY <1>15 DEF StopReturns, Discard, Goto
<1>16. ASSUME RebuildGone
      PROVE  ListenersStarted'
  BY <1>16 DEF RebuildGone
<1>17. ASSUME SessionLost
      PROVE  ListenersStarted'
  BY <1>17, EmptyList DEF SessionLost, Fault
<1>18. ASSUME SshdReclaims
      PROVE  ListenersStarted'
  BY <1>18 DEF SshdReclaims
<1>19. QED
  BY <1>1, <1>2, <1>3, <1>4, <1>5, <1>6, <1>7, <1>8, <1>9, <1>10, <1>11,
     <1>12, <1>13, <1>14, <1>15, <1>16, <1>17, <1>18 DEF Next, Start

LEMMA HearerStep ==
    ASSUME LeakIInv, Next
    PROVE  OneHearerUnlessRaced'
<1> USE DEF LeakIInv, OneHearerUnlessRaced, srvVars, instVars, bindVars
<1>1. ASSUME NEW r \in Records, CreateForward(r)
      PROVE  OneHearerUnlessRaced'
  BY <1>1 DEF CreateForward
<1>2. ASSUME NEW r \in Records, DeleteForward(r)
      PROVE  OneHearerUnlessRaced'
  BY <1>2 DEF DeleteForward
<1>3. ASSUME NEW r \in Records, SyncStop(r)
      PROVE  OneHearerUnlessRaced'
  BY <1>3 DEF SyncStop, Goto
<1>4. ASSUME NEW r \in Records, Rebuild(r)
      PROVE  OneHearerUnlessRaced'
  BY <1>4 DEF Rebuild, Goto
<1>5. ASSUME NEW r \in Records, NEW i \in Instances, SyncStart(i, r)
      PROVE  OneHearerUnlessRaced'
  BY <1>5 DEF SyncStart, Build, LeakRecoveryAllowed, Goto
<1>6. ASSUME NEW i \in Instances, RebuildStart(i)
      PROVE  OneHearerUnlessRaced'
  BY <1>6 DEF RebuildStart, Build, LeakRecoveryAllowed, Goto
<1>7. ASSUME NEW i \in Instances, Listen(i)
      PROVE  OneHearerUnlessRaced'
  <2>1. CASE Succeeds(i)
    BY <1>7, <2>1, SucceedsStep DEF Listen, LeakIInv, Starts
  <2>2. CASE ~Succeeds(i)
    BY <1>7, <2>2 DEF Listen, Goto
  <2>3. QED
    BY <2>1, <2>2
<1>8. ASSUME NEW i \in Instances, Probe(i)
      PROVE  OneHearerUnlessRaced'
  BY <1>8 DEF Probe, Goto, Fails, Discard, StartOver
<1>9. ASSUME NEW i \in Instances, Cancel(i)
      PROVE  OneHearerUnlessRaced'
  <2>1. CASE remote = "held"
    <3> SUFFICES ASSUME ~raced' PROVE entries = <<>>
      BY <1>9, <2>1, EmptyList DEF Cancel
    <3>1. /\ pc[i] = "cancel" /\ ~raced
          /\ \A j \in ToSet(entries) : owner[j] # owner[i] /\ owner[j] \in seen[i]
      BY <1>9, <2>1 DEF Cancel, Unseen
    <3>2. seen[i] \subseteq {owner[i]}
      BY <3>1 DEF GuardSeen
    <3>3. ToSet(entries) = {}
      BY <3>1, <3>2
    <3>4. QED
      BY <3>3, OnlyEmptyList DEF TypeOK
  <2>2. CASE remote # "held"
    BY <1>9, <2>2 DEF Cancel, Fails
  <2>3. QED
    BY <2>1, <2>2
<1>10. ASSUME NEW i \in Instances, Relisten(i)
      PROVE  OneHearerUnlessRaced'
  <2>1. CASE Succeeds(i)
    BY <1>10, <2>1, SucceedsStep DEF Relisten, LeakIInv, Starts
  <2>2. CASE ~Succeeds(i)
    BY <1>10, <2>2 DEF Relisten, Goto, Fails, Discard, StartOver
  <2>3. QED
    BY <2>1, <2>2
<1>11. ASSUME NEW i \in Instances, StartFails(i)
      PROVE  OneHearerUnlessRaced'
  BY <1>11 DEF StartFails, Fault, Goto, Fails, Discard, StartOver
<1>12. ASSUME NEW i \in Instances, NoticesEnd(i)
      PROVE  OneHearerUnlessRaced'
  BY <1>12 DEF NoticesEnd, Goto
<1>13. ASSUME NEW i \in Instances, InstanceFails(i)
      PROVE  OneHearerUnlessRaced'
  BY <1>13 DEF InstanceFails, Fault, Goto
<1>14. ASSUME NEW i \in Instances, Close(i)
      PROVE  OneHearerUnlessRaced'
  BY <1>14, CloseStep DEF LeakIInv
<1>15. ASSUME NEW i \in Instances, StopReturns(i)
      PROVE  OneHearerUnlessRaced'
  BY <1>15 DEF StopReturns, Discard, Goto
<1>16. ASSUME RebuildGone
      PROVE  OneHearerUnlessRaced'
  BY <1>16 DEF RebuildGone
<1>17. ASSUME SessionLost
      PROVE  OneHearerUnlessRaced'
  BY <1>17, EmptyList DEF SessionLost, Fault
<1>18. ASSUME SshdReclaims
      PROVE  OneHearerUnlessRaced'
  BY <1>18 DEF SshdReclaims
<1>19. QED
  BY <1>1, <1>2, <1>3, <1>4, <1>5, <1>6, <1>7, <1>8, <1>9, <1>10, <1>11,
     <1>12, <1>13, <1>14, <1>15, <1>16, <1>17, <1>18 DEF Next, Start

LEMMA LeakStutter ==
    ASSUME LeakIInv, UNCHANGED vars
    PROVE  LeakIInv'
BY DEF vars, srvVars, instVars, bindVars, LeakIInv, TypeOK, GuardSeen,
   ListenersStarted, OneHearerUnlessRaced

-----------------------------------------------------------------------------
(* The inductive invariant, types included: in particular a forward is in  *)
(* the client's list of listeners at most once.                            *)
THEOREM LeakInvariant == FairSpec => []LeakIInv
<1>1. LeakIInv /\ [Next]_vars => LeakIInv'
  BY TypeStep, GuardStep, ListenersStep, HearerStep, LeakStutter DEF LeakIInv
<1>2. QED
  BY InitLeak, <1>1, PTL DEF FairSpec, Spec

(* The recovery of a denied listen retracts no listener but a leaked one:  *)
(* a forward that waits for connections is alone on its bind and the sshd  *)
(* listens for it, unless the recovery met a forward that its guard, which *)
(* looks at the stored rows when the forward is built, could not see.      *)
THEOREM OneHearer == FairSpec => []OneHearerUnlessRaced
<1>1. LeakIInv => OneHearerUnlessRaced
  BY DEF LeakIInv
<1>2. QED
  BY LeakInvariant, <1>1, PTL
=============================================================================
