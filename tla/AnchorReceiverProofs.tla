------------------------ MODULE AnchorReceiverProofs ------------------------
(***************************************************************************)
(* What holds of the checkpoint receiver for every number of tenants,      *)
(* events and losses.                                                      *)
(***************************************************************************)
EXTENDS AnchorReceiver, FiniteSetTheorems, SequenceTheorems,
        WellFoundedInduction, TLAPS

-----------------------------------------------------------------------------
(* What the log holds.                                                     *)

(* Every stored event is one that was received.                            *)
LEMMA ReceivedEvents ==
  TypeOK => /\ DOMAIN events = 1..Len(events)
            /\ Len(events) \in Nat
            /\ \A i \in DOMAIN events : /\ events[i] \in StoredEvent
                                        /\ events[i].event \in Received
            /\ \A e \in Received :
                 /\ e \in Event
                 /\ \E i \in DOMAIN events : e = events[i].event
<1> SUFFICES ASSUME TypeOK
             PROVE  /\ DOMAIN events = 1..Len(events)
                    /\ Len(events) \in Nat
                    /\ \A i \in DOMAIN events : events[i] \in StoredEvent
                    /\ Received = {events[i].event : i \in DOMAIN events}
  BY DEF StoredEvent
<1>1. Received = {events[i].event : i \in DOMAIN events}
  BY DEF Received, ToSet
<1> QED
  BY <1>1 DEF TypeOK

(* The newest event of a tenant is the last one of it in a linear log.     *)
LastIsNewest ==
  \A i \in DOMAIN events :
    (\A j \in DOMAIN events :
       j > i => events[j].event.tenant # events[i].event.tenant)
    => Newest(events[i].event.tenant) = events[i].event

LEMMA NewestIsLast == TypeOK /\ Linear => LastIsNewest
<1> SUFFICES ASSUME TypeOK, Linear, NEW i \in DOMAIN events,
                    \A j \in DOMAIN events :
                      j > i => events[j].event.tenant # events[i].event.tenant
             PROVE  Newest(events[i].event.tenant) = events[i].event
  BY DEF LastIsNewest
<1> DEFINE x == events[i].event
           Top(e) == /\ e.tenant = x.tenant
                     /\ \A o \in Received :
                          o.tenant = x.tenant => o.revision <= e.revision
<1>1. \A j \in DOMAIN events :
        events[j].event.tenant = x.tenant =>
          j = i \/ events[j].event.revision < x.revision
  BY ReceivedEvents DEF Linear
<1>2. \A e \in Received : e.revision \in Nat
  BY ReceivedEvents, ConstantsAssumption DEF Event
<1>3. x \in Received /\ Top(x)
  BY <1>1, <1>2, ReceivedEvents
<1>4. \A e \in Received : Top(e) => e = x
  BY <1>1, <1>2, <1>3, ReceivedEvents
<1>5. Newest(x.tenant) = CHOOSE e \in Received : Top(e)
  BY DEF Newest
<1> HIDE DEF x, Top
<1>6. (CHOOSE e \in Received : Top(e)) = x
  BY <1>3, <1>4
<1> QED
  BY <1>5, <1>6 DEF x

(* Every tenant in the log has a last event.                               *)
TenantsHaveLast ==
  \A e \in Received : \E i \in DOMAIN events :
    /\ events[i].event.tenant = e.tenant
    /\ \A j \in DOMAIN events :
         j > i => events[j].event.tenant # events[i].event.tenant

LEMMA LastExists == TypeOK => TenantsHaveLast
<1> SUFFICES ASSUME TypeOK, NEW e \in Received
             PROVE  \E i \in DOMAIN events :
                      /\ events[i].event.tenant = e.tenant
                      /\ \A j \in DOMAIN events :
                           j > i => events[j].event.tenant # e.tenant
  BY DEF TenantsHaveLast
<1> DEFINE own == {i \in DOMAIN events : events[i].event.tenant = e.tenant}
           back == {Len(events) - i : i \in own}
<1>1. back \subseteq Nat /\ back # {}
  BY ReceivedEvents
<1>2. PICK b \in back : \A c \in back : ~(<<c, b>> \in OpToRel(<, Nat))
  BY <1>1, WFMin, NatLessThanWellFounded
<1>3. \A c \in back : ~(c < b)
  BY <1>1, <1>2 DEF OpToRel
<1>4. PICK i \in own : b = Len(events) - i
  OBVIOUS
<1>5. ASSUME NEW j \in own PROVE ~(j > i)
  <2>1. Len(events) - j \in back
    OBVIOUS
  <2>2. ~(Len(events) - j < Len(events) - i)
    BY <1>3, <1>4, <2>1
  <2>3. i \in Nat /\ j \in Nat /\ Len(events) \in Nat
    BY ReceivedEvents
  <2> HIDE DEF own, back
  <2> QED
    BY <2>2, <2>3
<1> QED
  BY <1>4, <1>5
-----------------------------------------------------------------------------
(* What a store that verifies holds.                                       *)

(* The tenants of the log, and that they are finitely many.                *)
TenantsOfLog == {e.tenant : e \in Received}

LEMMA FinitelyManyTenants == TypeOK => IsFiniteSet(TenantsOfLog)
<1> SUFFICES ASSUME TypeOK PROVE IsFiniteSet(TenantsOfLog)
  OBVIOUS
<1> DEFINE f == [i \in DOMAIN events |-> events[i].event.tenant]
<1>1. f \in Surjection(DOMAIN events, TenantsOfLog)
  BY ReceivedEvents DEF Surjection, TenantsOfLog
<1>2. IsFiniteSet(DOMAIN events)
  BY ReceivedEvents, FS_Interval
<1> QED
  BY <1>1, <1>2, FS_Surjection

(* Counting the tenants finds the one whose latest checkpoint is missing.  *)
LEMMA LatestCovers ==
  TypeOK /\ LatestVerifies =>
    /\ \A e \in Received : \E l \in latest : l.tenant = e.tenant
    /\ \A a, b \in latest : a.tenant = b.tenant => a = b
<1> SUFFICES ASSUME TypeOK, LatestVerifies
             PROVE  /\ \A e \in Received : \E l \in latest : l.tenant = e.tenant
                    /\ \A a, b \in latest : a.tenant = b.tenant => a = b
  OBVIOUS
<1> DEFINE f == [l \in latest |-> l.tenant]
<1>1. /\ Cardinality(TenantsOfLog) = Cardinality(latest)
      /\ \A l \in latest : l.tenant \in TenantsOfLog /\ l = Newest(l.tenant)
  BY DEF LatestVerifies, TenantsOfLog
<1>2. \A a, b \in latest : a.tenant = b.tenant => a = b
  BY <1>1
<1>3. f \in Injection(latest, TenantsOfLog)
  BY <1>1, <1>2 DEF Injection, IsInjective
<1>4. f \in Surjection(latest, TenantsOfLog)
  BY <1>1, <1>3, FinitelyManyTenants, FS_Injection
<1>5. \A t \in TenantsOfLog : \E l \in latest : l.tenant = t
  BY <1>4 DEF Surjection
<1> QED
  BY <1>2, <1>5 DEF TenantsOfLog

(* The latest checkpoint of a tenant is no older than any event of it.     *)
LEMMA LatestIsNewest ==
  TypeOK /\ Linear /\ LatestVerifies =>
    \A l \in latest :
      /\ l \in Received
      /\ \A e \in Received : e.tenant = l.tenant => e.revision <= l.revision
<1> SUFFICES ASSUME TypeOK, Linear, LatestVerifies, NEW l \in latest
             PROVE  /\ l \in Received
                    /\ \A e \in Received :
                         e.tenant = l.tenant => e.revision <= l.revision
  OBVIOUS
<1>1. l.tenant \in TenantsOfLog /\ l = Newest(l.tenant)
  BY DEF LatestVerifies, TenantsOfLog
<1>2. PICK i \in DOMAIN events :
        /\ events[i].event.tenant = l.tenant
        /\ \A j \in DOMAIN events :
             j > i => events[j].event.tenant # events[i].event.tenant
  BY <1>1, LastExists DEF TenantsHaveLast, TenantsOfLog
<1>3. l = events[i].event
  BY <1>1, <1>2, NewestIsLast DEF LastIsNewest
<1>4. ASSUME NEW e \in Received, e.tenant = l.tenant
      PROVE  e.revision <= l.revision
  <2>1. PICK j \in DOMAIN events : e = events[j].event
    BY ReceivedEvents
  <2>2. j = i \/ j < i
    BY <1>2, <1>3, <1>4, <2>1, ReceivedEvents
  <2>3. l.revision \in Nat /\ e.revision \in Nat
    BY <1>3, ReceivedEvents, ConstantsAssumption DEF Event
  <2>4. j < i => e.revision < l.revision
    BY <1>3, <1>4, <2>1 DEF Linear
  <2> QED
    BY <1>3, <2>1, <2>2, <2>3, <2>4
<1> QED
  BY <1>3, <1>4, ReceivedEvents
-----------------------------------------------------------------------------
(* One ingested event.                                                     *)

(* What is taken is above its tenant's latest checkpoint, whether or not   *)
(* the store verifies.                                                     *)
LEMMA TakenAdvances ==
  ASSUME TypeOK, OneLatestEach, NEW event \in Event,
         Outcome(event) \in {"stored", "advanced"},
         NEW l \in latest, l.tenant = event.tenant
  PROVE  event.revision > l.revision
<1> DEFINE sameId  == {e \in Received : e.id = event.id}
           reached == {k \in latest : k.tenant = event.tenant}
<1>1. Outcome(event) =
        CASE event \in sameId -> "duplicate"
          [] event \notin sameId /\ sameId # {} -> "event_conflict"
          [] sameId = {} /\ reached = {} -> "stored"
          [] OTHER -> Comparison(event, CHOOSE k \in reached : TRUE)
  BY DEF Outcome
<1>2. reached = {l}
  BY DEF OneLatestEach
<1>3. (CHOOSE k \in reached : TRUE) = l
  BY <1>2
<1>4. sameId = {}
  <2> HIDE DEF sameId, reached
  <2>1. CASE event \in sameId
    BY <1>1, <2>1
  <2>2. CASE event \notin sameId /\ sameId # {}
    BY <1>1, <2>2
  <2> QED
    BY <2>1, <2>2
<1>5. Comparison(event, l) = "advanced"
  <2>1. event \notin sameId /\ ~(event \notin sameId /\ sameId # {})
        /\ ~(sameId = {} /\ reached = {})
    BY <1>2, <1>4
  <2>2. Comparison(event, l) \in
          {"rollback_detected", "advanced", "replay", "integrity_conflict"}
    BY DEF Comparison
  <2> HIDE DEF sameId, reached
  <2> QED
    BY <1>1, <1>3, <2>1, <2>2
<1>6. event.revision \in Nat /\ l.revision \in Nat
  BY ConstantsAssumption DEF Event, TypeOK
<1> QED
  BY <1>5, <1>6 DEF Comparison

(* What is taken is newer than everything its tenant has in the log, under *)
(* an identifier that the log does not have.                               *)
LEMMA TakenIsNew ==
  ASSUME TypeOK, Linear, Verifies, NEW event \in Event,
         Outcome(event) \in {"stored", "advanced"}
  PROVE  \A e \in Received :
           /\ e.id # event.id
           /\ e.tenant = event.tenant => e.revision < event.revision
<1> DEFINE sameId  == {e \in Received : e.id = event.id}
           reached == {l \in latest : l.tenant = event.tenant}
<1>1. Outcome(event) =
        CASE event \in sameId -> "duplicate"
          [] event \notin sameId /\ sameId # {} -> "event_conflict"
          [] sameId = {} /\ reached = {} -> "stored"
          [] OTHER -> Comparison(event, CHOOSE l \in reached : TRUE)
  BY DEF Outcome
<1>2. sameId = {}
  <2> HIDE DEF sameId, reached
  <2>1. CASE event \in sameId
    BY <1>1, <2>1
  <2>2. CASE event \notin sameId /\ sameId # {}
    BY <1>1, <2>2
  <2> QED
    BY <2>1, <2>2
<1>3. ASSUME NEW e \in Received, e.tenant = event.tenant
      PROVE  e.revision < event.revision
  <2>1. PICK l \in latest : l.tenant = e.tenant
    BY LatestCovers DEF Verifies
  <2>2. event.revision > l.revision
    BY <1>3, <2>1, LatestCovers, TakenAdvances DEF Verifies, OneLatestEach
  <2>3. e.revision <= l.revision
    BY <2>1, LatestIsNewest DEF Verifies
  <2>4. /\ e.revision \in Nat /\ event.revision \in Nat
        /\ l.revision \in Nat
    BY ReceivedEvents, ConstantsAssumption DEF Event, TypeOK
  <2> QED
    BY <2>2, <2>3, <2>4
<1> QED
  BY <1>2, <1>3

(* The log of the next state, when an event is taken.                      *)
Takes(event) ==
  /\ sequence' = sequence + 1
  /\ events' = Append(events, [sequence |-> sequence + 1,
                               event    |-> event,
                               previous |-> PreviousOf(event)])
  /\ latest' = {l \in latest : l.tenant # event.tenant} \cup {event}

LEMMA TakenLog ==
  ASSUME TypeOK, SequencesIncrease, NEW event \in Event, Takes(event)
  PROVE  /\ events' \in Seq(StoredEvent)
         /\ Len(events') = Len(events) + 1
         /\ \A i \in DOMAIN events : events'[i] = events[i]
         /\ events'[Len(events) + 1] =
              [sequence |-> sequence + 1, event |-> event,
               previous |-> PreviousOf(event)]
         /\ PreviousOf(event) = IF Len(events) = 0 THEN 0
                                ELSE events[Len(events)].sequence
         /\ DOMAIN events' = (DOMAIN events) \cup {Len(events) + 1}
         /\ Received' = Received \cup {event}
<1> DEFINE new == [sequence |-> sequence + 1, event |-> event,
                   previous |-> PreviousOf(event)]
<1>1. events \in Seq(StoredEvent) /\ sequence \in Nat
  BY DEF TypeOK
<1>2. PreviousOf(event) = IF Len(events) = 0 THEN 0
                          ELSE events[Len(events)].sequence
  BY <1>1 DEF PreviousOf, Last
<1>3. PreviousOf(event) \in Nat
  <2>1. Len(events) # 0 => Len(events) \in DOMAIN events
    BY <1>1
  <2> QED
    BY <1>1, <1>2, <2>1 DEF SequencesIncrease
<1>4. new \in StoredEvent
  BY <1>1, <1>3 DEF StoredEvent
<1>5. events' = Append(events, new)
  BY DEF Takes
<1>6. /\ events' \in Seq(StoredEvent)
      /\ Len(events') = Len(events) + 1
      /\ \A i \in 1..Len(events) : events'[i] = events[i]
      /\ events'[Len(events) + 1] = new
  <2> HIDE DEF new
  <2> QED
    BY <1>1, <1>4, <1>5, AppendProperties
<1>7. /\ DOMAIN events = 1..Len(events)
      /\ DOMAIN events' = 1..(Len(events) + 1)
      /\ Len(events) \in Nat
  BY <1>1, <1>6
<1>8. DOMAIN events' = (DOMAIN events) \cup {Len(events) + 1}
  BY <1>7
<1>9. Received' = Received \cup {event}
  <2>1. /\ Received = {events[i].event : i \in DOMAIN events}
        /\ Received' = {events'[i].event : i \in DOMAIN events'}
    BY DEF Received, ToSet
  <2>2. new.event = event
    OBVIOUS
  <2> HIDE DEF new
  <2> QED
    BY <1>6, <1>7, <1>8, <2>1, <2>2
<1> QED
  BY <1>2, <1>6, <1>7, <1>8, <1>9

(* The next log, one event longer.                                         *)
Longer(event) ==
  LET n == Len(events) + 1 IN
  /\ DOMAIN events = 1..Len(events) /\ Len(events) \in Nat
  /\ n \in Nat /\ DOMAIN events' = 1..n
  /\ \A i \in DOMAIN events : events'[i] = events[i]
  /\ events'[n].event = event /\ events'[n].sequence = sequence + 1
  /\ events'[n].previous = IF Len(events) = 0 THEN 0
                           ELSE events[Len(events)].sequence
  /\ Received' = Received \cup {event}

LEMMA TakenIsLonger ==
  ASSUME TypeOK, SequencesIncrease, NEW event \in Event, Takes(event)
  PROVE  Longer(event)
<1> PICK n : n = Len(events) + 1
  OBVIOUS
<1>1. /\ Len(events') = Len(events) + 1 /\ events' \in Seq(StoredEvent)
      /\ events'[n] = [sequence |-> sequence + 1, event |-> event,
                       previous |-> PreviousOf(event)]
      /\ PreviousOf(event) = IF Len(events) = 0 THEN 0
                             ELSE events[Len(events)].sequence
      /\ \A i \in DOMAIN events : events'[i] = events[i]
      /\ Received' = Received \cup {event}
  BY TakenLog
<1>2. DOMAIN events = 1..Len(events) /\ Len(events) \in Nat
  BY ReceivedEvents
<1>3. n \in Nat /\ DOMAIN events' = 1..n
  BY <1>1, <1>2
<1> QED
  BY <1>1, <1>2, <1>3 DEF Longer

(* Taking an event keeps the shape of the tables, whether or not the store *)
(* verifies.                                                               *)
LEMMA TakenKeepsShape ==
  ASSUME TypeOK, IsFiniteSet(latest), OneLatestEach, SequencesIncrease,
         NEW event \in Event, Takes(event),
         unseen' \in BOOLEAN, overlooked' \in BOOLEAN, losses' = losses,
         process' \in Process
  PROVE  /\ TypeOK' /\ IsFiniteSet(latest') /\ OneLatestEach'
         /\ SequencesIncrease'
<1> PICK n : n = Len(events) + 1
  OBVIOUS
<1>1. /\ DOMAIN events = 1..Len(events) /\ Len(events) \in Nat
      /\ n \in Nat /\ DOMAIN events' = 1..n
      /\ \A i \in DOMAIN events : events'[i] = events[i]
      /\ events'[n].sequence = sequence + 1
  BY TakenIsLonger DEF Longer
<1>2. \A i \in DOMAIN events' : i = n \/ (i \in DOMAIN events /\ i < n)
  BY <1>1
<1>3. TypeOK'
  BY TakenLog DEF TypeOK, Takes
<1>4. SequencesIncrease'
  <2>1. sequence \in Nat /\ sequence' = sequence + 1
    BY DEF TypeOK, Takes
  <2>2. \A i \in DOMAIN events : events[i].sequence \in 1..sequence
    BY DEF SequencesIncrease
  <2>3. \A i \in DOMAIN events' : events'[i].sequence \in 1..sequence'
    BY <1>1, <1>2, <2>1, <2>2
  <2>4. ASSUME NEW i \in DOMAIN events', NEW j \in DOMAIN events', i < j
        PROVE  events'[i].sequence < events'[j].sequence
    <3>1. i \in DOMAIN events
      BY <1>1, <1>2, <2>4
    <3>2. CASE j = n
      BY <1>1, <2>1, <2>2, <3>1, <3>2
    <3>3. CASE j \in DOMAIN events
      BY <1>1, <2>4, <3>1, <3>3 DEF SequencesIncrease
    <3> QED
      BY <1>2, <3>2, <3>3
  <2> QED
    BY <2>3, <2>4 DEF SequencesIncrease
<1>5. latest' = {l \in latest : l.tenant # event.tenant} \cup {event}
  BY DEF Takes
<1>6. IsFiniteSet(latest')
  <2>1. IsFiniteSet({l \in latest : l.tenant # event.tenant})
    BY FS_Subset
  <2> QED
    BY <1>5, <2>1, FS_AddElement
<1>7. OneLatestEach'
  BY <1>5 DEF OneLatestEach
<1> QED
  BY <1>3, <1>4, <1>6, <1>7

(* Taking an event keeps a log that verifies in step with the latest       *)
(* checkpoints.                                                            *)
LEMMA TakenKeepsInv ==
  ASSUME TypeOK, IsFiniteSet(latest), SequencesIncrease, Linear,
         Verifies, NEW event \in Event,
         Outcome(event) \in {"stored", "advanced"}, Takes(event), TypeOK'
  PROVE  Linear' /\ Verifies'
<1> PICK n : n = Len(events) + 1
  OBVIOUS
<1>1. /\ DOMAIN events = 1..Len(events) /\ Len(events) \in Nat
      /\ n \in Nat /\ DOMAIN events' = 1..n
      /\ \A i \in DOMAIN events : events'[i] = events[i]
      /\ events'[n].event = event /\ events'[n].sequence = sequence + 1
      /\ events'[n].previous = IF Len(events) = 0 THEN 0
                               ELSE events[Len(events)].sequence
      /\ Received' = Received \cup {event}
  BY TakenIsLonger DEF Longer
<1>2. \A i \in DOMAIN events' : i = n \/ (i \in DOMAIN events /\ i < n)
  BY <1>1
<1>5. Linear'
  <2>1. SUFFICES ASSUME NEW i \in DOMAIN events', NEW j \in DOMAIN events',
                        i < j
                 PROVE  /\ events'[i].event.id # events'[j].event.id
                        /\ events'[i].event.tenant = events'[j].event.tenant
                             => events'[i].event.revision
                                  < events'[j].event.revision
    BY DEF Linear
  <2>2. i \in DOMAIN events /\ events[i].event \in Received
    BY <1>1, <1>2, <2>1, ReceivedEvents
  <2>3. CASE j = n
    BY <1>1, <2>2, <2>3, TakenIsNew
  <2>4. CASE j \in DOMAIN events
    BY <1>1, <2>1, <2>2, <2>4 DEF Linear
  <2> QED
    BY <1>2, <2>3, <2>4
<1>6. ChainVerifies'
  <2>1. SUFFICES ASSUME NEW i \in DOMAIN events'
                 PROVE  events'[i].previous =
                          IF i = 1 THEN 0 ELSE events'[i - 1].sequence
    BY DEF ChainVerifies
  <2>2. CASE i = n
    BY <1>1, <2>2
  <2>3. CASE i \in DOMAIN events
    BY <1>1, <2>3 DEF Verifies, ChainVerifies
  <2> QED
    BY <1>2, <2>2, <2>3
<1>7. latest' = {l \in latest : l.tenant # event.tenant} \cup {event}
  BY DEF Takes
<1>9. Cardinality(TenantsOfLog') = Cardinality(latest')
  <2>1. TenantsOfLog' = TenantsOfLog \cup {event.tenant}
    BY <1>1 DEF TenantsOfLog
  <2>2. Cardinality(TenantsOfLog) = Cardinality(latest)
        /\ \A l \in latest : l.tenant \in TenantsOfLog
    BY DEF Verifies, LatestVerifies, TenantsOfLog
  <2>3. CASE event.tenant \in TenantsOfLog
    <3>1. PICK l \in latest : l.tenant = event.tenant
      BY <2>3, LatestCovers DEF Verifies, TenantsOfLog
    <3>2. latest' = (latest \ {l}) \cup {event} /\ event \notin latest \ {l}
      BY <1>7, <3>1, LatestCovers DEF Verifies
    <3>3. IsFiniteSet(latest \ {l}) /\ Cardinality(latest \ {l}) = Cardinality(latest) - 1
      BY FS_RemoveElement
    <3>4. Cardinality(latest') = Cardinality(latest) - 1 + 1
      BY <3>2, <3>3, FS_AddElement
    <3>5. Cardinality(latest) \in Nat
      BY FS_CardinalityType
    <3>6. TenantsOfLog' = TenantsOfLog
      BY <2>1, <2>3
    <3> QED
      BY <2>2, <3>4, <3>5, <3>6
  <2>4. CASE event.tenant \notin TenantsOfLog
    <3>1. latest' = latest \cup {event} /\ event \notin latest
      BY <1>7, <2>2, <2>4
    <3>2. Cardinality(latest') = Cardinality(latest) + 1
      BY <3>1, FS_AddElement
    <3>3. Cardinality(TenantsOfLog') = Cardinality(TenantsOfLog) + 1
      BY <2>1, <2>4, FinitelyManyTenants, FS_AddElement
    <3> QED
      BY <2>2, <3>2, <3>3
  <2> QED
    BY <2>3, <2>4
<1>10. LastIsNewest'
  <2>1. TypeOK' /\ Linear' => LastIsNewest'
    BY NewestIsLast, PTL
  <2> QED
    BY <1>5, <2>1
<1>11. ASSUME NEW l \in latest'
       PROVE  l.tenant \in TenantsOfLog' /\ l = Newest(l.tenant)'
  <2>1. CASE l = event
    <3>1. n \in DOMAIN events' /\ \A j \in DOMAIN events' : ~(j > n)
      BY <1>1
    <3>2. Newest(events[n].event.tenant)' = events[n].event'
      BY <1>10, <3>1 DEF LastIsNewest
    <3> QED
      BY <1>1, <2>1, <3>2 DEF TenantsOfLog
  <2>2. CASE l \in latest /\ l.tenant # event.tenant
    <3>1. l \in Received
      BY <2>2, LatestIsNewest DEF Verifies
    <3>2. PICK i \in DOMAIN events :
            /\ events[i].event.tenant = l.tenant
            /\ \A j \in DOMAIN events :
                 j > i => events[j].event.tenant # events[i].event.tenant
      BY <3>1, LastExists DEF TenantsHaveLast
    <3>3. l = events[i].event
      <4>1. l = Newest(l.tenant)
        BY <2>2 DEF Verifies, LatestVerifies
      <4> QED
        BY <3>2, <4>1, NewestIsLast DEF LastIsNewest
    <3>4. /\ i \in DOMAIN events'
          /\ \A j \in DOMAIN events' :
               j > i => events'[j].event.tenant # events'[i].event.tenant
      BY <1>1, <1>2, <2>2, <3>2
    <3>5. Newest(events[i].event.tenant)' = events[i].event'
      BY <1>10, <3>4 DEF LastIsNewest
    <3> QED
      BY <1>1, <3>1, <3>2, <3>3, <3>5 DEF TenantsOfLog
  <2> QED
    BY <1>7, <2>1, <2>2
<1> QED
  BY <1>5, <1>6, <1>9, <1>11
     DEF Verifies, LatestVerifies, TenantsOfLog
-----------------------------------------------------------------------------
(* One lost row.                                                           *)

(* The log without its i-th event.                                         *)
LEMMA ShorterLog ==
  ASSUME TypeOK, NEW i \in DOMAIN events, events' = RemoveAt(events, i)
  PROVE  /\ events' \in Seq(StoredEvent)
         /\ DOMAIN events = 1..Len(events) /\ Len(events) \in Nat
         /\ DOMAIN events' = 1..(Len(events) - 1)
         /\ \A k \in DOMAIN events' :
              /\ k < i => events'[k] = events[k]
              /\ ~(k < i) => events'[k] = events[k + 1]
<1> DEFINE s == SubSeq(events, 1, i - 1)
           t == SubSeq(events, i + 1, Len(events))
<1>1. /\ events \in Seq(StoredEvent) /\ i \in 1..Len(events)
      /\ DOMAIN events = 1..Len(events) /\ Len(events) \in Nat
  BY DEF TypeOK
<1>2. /\ s \in Seq(StoredEvent) /\ Len(s) = i - 1
      /\ \A k \in 1..(i - 1) : s[k] = events[k]
  <2>1. \A k \in 1..(i - 1) : events[k] \in StoredEvent
    BY <1>1
  <2> QED
    BY <1>1, <2>1, SubSeqProperties
<1>3. /\ t \in Seq(StoredEvent) /\ Len(t) = Len(events) - i
      /\ \A k \in 1..(Len(events) - i) : t[k] = events[i + k]
  <2>1. \A k \in (i + 1)..Len(events) : events[k] \in StoredEvent
    BY <1>1
  <2>2. /\ t \in Seq(StoredEvent)
        /\ Len(t) = IF i + 1 <= Len(events) THEN Len(events) - (i + 1) + 1 ELSE 0
        /\ \A k \in 1..(Len(events) - (i + 1) + 1) : t[k] = events[i + 1 + k - 1]
    BY <1>1, <2>1, SubSeqProperties
  <2> HIDE DEF t
  <2>3. Len(t) = Len(events) - i
    BY <1>1, <2>2
  <2>4. ASSUME NEW k \in 1..(Len(events) - i) PROVE t[k] = events[i + k]
    <3>1. /\ k \in 1..(Len(events) - (i + 1) + 1)
          /\ i + 1 + k - 1 = i + k
      BY <1>1
    <3>2. t[k] = events[i + 1 + k - 1]
      BY <2>2, <3>1
    <3> QED
      BY <3>1, <3>2
  <2> QED
    BY <2>2, <2>3, <2>4
<1>4. events' = s \o t
  BY DEF RemoveAt
<1> HIDE DEF s, t
<1>5. /\ events' \in Seq(StoredEvent)
      /\ Len(events') = Len(s) + Len(t)
      /\ \A k \in 1..(Len(s) + Len(t)) :
           events'[k] = IF k <= Len(s) THEN s[k] ELSE t[k - Len(s)]
  BY <1>2, <1>3, <1>4, ConcatProperties
<1>6. DOMAIN events' = 1..(Len(events) - 1)
  BY <1>1, <1>2, <1>3, <1>5
<1>7. ASSUME NEW k \in DOMAIN events', k < i
      PROVE  events'[k] = events[k]
  BY <1>1, <1>2, <1>3, <1>5, <1>6, <1>7
<1>8. ASSUME NEW k \in DOMAIN events', ~(k < i)
      PROVE  events'[k] = events[k + 1]
  <2>1. /\ k - (i - 1) \in 1..(Len(events) - i)
        /\ i + (k - (i - 1)) = k + 1
        /\ k \in 1..(Len(s) + Len(t)) /\ ~(k <= Len(s))
    BY <1>1, <1>2, <1>3, <1>6, <1>8
  <2>2. events'[k] = t[k - (i - 1)]
    BY <1>2, <1>5, <2>1
  <2> QED
    BY <1>3, <2>1, <2>2
<1> QED
  BY <1>1, <1>5, <1>6, <1>7, <1>8

(* What is left is still in order.                                         *)
LEMMA ShorterLogIsLinear ==
  ASSUME TypeOK, SequencesIncrease, NEW i \in DOMAIN events,
         events' = RemoveAt(events, i), sequence' = sequence
  PROVE  SequencesIncrease' /\ (Linear => Linear')
<1> DEFINE from(k) == IF k < i THEN k ELSE k + 1
<1>1. /\ DOMAIN events = 1..Len(events) /\ Len(events) \in Nat
      /\ DOMAIN events' = 1..(Len(events) - 1)
      /\ \A k \in DOMAIN events' :
           /\ k < i => events'[k] = events[k]
           /\ ~(k < i) => events'[k] = events[k + 1]
  BY ShorterLog
<1>2. \A k \in DOMAIN events' : /\ from(k) \in DOMAIN events
                                /\ events'[k] = events[from(k)]
  BY <1>1
<1>3. \A k, m \in DOMAIN events' : k < m => from(k) < from(m)
  BY <1>1
<1> HIDE DEF from
<1>4. SequencesIncrease'
  BY <1>2, <1>3 DEF SequencesIncrease
<1>5. Linear => Linear'
  BY <1>2, <1>3 DEF Linear
<1> QED
  BY <1>4, <1>5

(* A chain with a gap does not verify, and neither does one that no longer *)
(* reaches a tenant's latest checkpoint.                                   *)
LEMMA LostEventIsNoticed ==
  ASSUME TypeOK, IsFiniteSet(latest), SequencesIncrease, Linear,
         Verifies, NEW i \in DOMAIN events, events' = RemoveAt(events, i),
         latest' = latest, TypeOK', Linear'
  PROVE  ~Verifies'
<1> SUFFICES ASSUME Verifies' PROVE FALSE
  OBVIOUS
<1>1. /\ DOMAIN events = 1..Len(events) /\ Len(events) \in Nat
      /\ DOMAIN events' = 1..(Len(events) - 1)
      /\ \A k \in DOMAIN events' :
           /\ k < i => events'[k] = events[k]
           /\ ~(k < i) => events'[k] = events[k + 1]
  BY ShorterLog
<1>2. CASE i < Len(events)
  <2>1. i \in DOMAIN events' /\ i + 1 \in DOMAIN events
    BY <1>1, <1>2
  <2>2. events'[i].previous = events[i].sequence
    BY <1>1, <2>1 DEF Verifies, ChainVerifies
  <2>3. events'[i].previous = IF i = 1 THEN 0 ELSE events'[i - 1].sequence
    BY <2>1 DEF Verifies, ChainVerifies
  <2>4. i # 1 => events'[i - 1].sequence = events[i - 1].sequence
                  /\ events[i - 1].sequence < events[i].sequence
    BY <1>1, <1>2 DEF SequencesIncrease
  <2>5. events[i].sequence \in Nat \ {0}
    BY DEF SequencesIncrease, TypeOK
  <2> QED
    BY <2>2, <2>3, <2>4, <2>5
<1>3. CASE i = Len(events)
  <2> PICK x : x = events[i].event
    OBVIOUS
  <2>1. x \in Received
    BY ReceivedEvents
  <2>2. \A j \in DOMAIN events : ~(j > i)
    BY <1>1, <1>3
  <2>3. Newest(x.tenant) = x
    BY <2>2, NewestIsLast DEF LastIsNewest
  <2>4. x \in latest
    <3>1. PICK l \in latest : l.tenant = x.tenant
      BY <2>1, LatestCovers DEF Verifies
    <3> QED
      BY <2>3, <3>1 DEF Verifies, LatestVerifies
  <2>5. x \in Received'
    <3>1. x \in latest' /\ x.tenant \in TenantsOfLog' /\ x = Newest(x.tenant)'
      BY <2>4 DEF Verifies, LatestVerifies, TenantsOfLog
    <3>2. LastIsNewest' /\ TenantsHaveLast'
      <4>1. /\ TypeOK' /\ Linear' => LastIsNewest'
            /\ TypeOK' => TenantsHaveLast'
        BY NewestIsLast, LastExists, PTL
      <4> QED
        BY <4>1
    <3>3. PICK k \in DOMAIN events' :
            /\ events'[k].event.tenant = x.tenant
            /\ \A j \in DOMAIN events' :
                 j > k => events'[j].event.tenant # events'[k].event.tenant
      BY <3>1, <3>2 DEF TenantsHaveLast, TenantsOfLog
    <3>4. Newest(events[k].event.tenant)' = events[k].event'
      BY <3>2, <3>3 DEF LastIsNewest
    <3>5. x = events'[k].event
      BY <3>1, <3>3, <3>4 DEF Newest
    <3> QED
      BY <3>3, <3>5 DEF Received, ToSet
  <2>6. PICK k \in DOMAIN events' : x = events'[k].event
    BY <2>5 DEF Received, ToSet
  <2>7. k < i /\ x = events[k].event
    BY <1>1, <1>3, <2>6
  <2>8. k \in DOMAIN events
    BY <1>1
  <2>9. events[k].event.id # events[i].event.id
    BY <2>7, <2>8 DEF Linear
  <2> QED
    BY <2>7, <2>9
<1> QED
  BY <1>1, <1>2, <1>3
-----------------------------------------------------------------------------
(* Every step.                                                             *)

LEMMA InitInv == Init => IInv
<1> SUFFICES ASSUME Init PROVE IInv
  OBVIOUS
<1>1. /\ events = <<>> /\ latest = {} /\ sequence = 0 /\ process = "closed"
      /\ unseen = FALSE /\ overlooked = FALSE /\ losses = 0
  BY DEF Init, EmptyStore
<1>2. Received = {}
  BY <1>1 DEF Received, ToSet
<1>3. TypeOK
  <2>1. events \in Seq(StoredEvent)
    BY <1>1, EmptySeq
  <2> QED
    BY <1>1, <2>1 DEF TypeOK, Process
<1>4. SequencesIncrease /\ Linear /\ ChainVerifies /\ OneLatestEach
  BY <1>1 DEF SequencesIncrease, Linear, ChainVerifies, OneLatestEach
<1>5. LatestVerifies
  <2>1. {e.tenant : e \in Received} = {}
    BY <1>2
  <2> QED
    BY <1>1, <2>1 DEF LatestVerifies
<1>6. IsFiniteSet(latest)
  BY <1>1, FS_EmptySet
<1> QED
  BY <1>1, <1>3, <1>4, <1>5, <1>6
     DEF IInv, VerificationInv, Verifies, HistoryIsLinear

(* What has been verified: a store of which nothing lost was overlooked is *)
(* whole, but for losses that left it consistent.                          *)
LEMMA FreshVerifies ==
  ASSUME IInv, AssertFresh
  PROVE  unseen' = FALSE /\ (~overlooked => Verifies /\ losses # 1)
BY DEF IInv, VerificationInv, AssertFresh, TypeOK

(* A step that leaves the tables alone.                                    *)
LEMMA SameStore ==
  ASSUME IInv, UNCHANGED <<events, latest, sequence, losses>>,
         unseen' \in BOOLEAN, overlooked' \in BOOLEAN, process' \in Process
  PROVE  /\ TypeOK' /\ IsFiniteSet(latest') /\ OneLatestEach'
         /\ SequencesIncrease'
         /\ Linear' <=> Linear
         /\ Verifies' <=> Verifies
<1>1. TypeOK' /\ IsFiniteSet(latest') /\ OneLatestEach'
  BY DEF IInv, TypeOK, OneLatestEach
<1>2. SequencesIncrease' /\ (Linear' <=> Linear)
  BY DEF IInv, SequencesIncrease, Linear
<1>3. ChainVerifies' <=> ChainVerifies
  BY DEF ChainVerifies
<1>4. Received' = Received
  BY DEF Received
<1>5. LatestVerifies' <=> LatestVerifies
  BY <1>4 DEF LatestVerifies, Newest
<1> QED
  BY <1>1, <1>2, <1>3, <1>5 DEF Verifies

(* A step that only reads the tables: either it verified them, or it does  *)
(* not rely on them more than before.                                      *)
LEMMA ReadingKeepsInv ==
  ASSUME IInv, UNCHANGED <<events, latest, sequence, losses>>,
         process' \in Process, unseen' \in BOOLEAN, overlooked' \in BOOLEAN,
         overlooked => overlooked',
         losses = 0 => ~overlooked',
         ~overlooked' => \/ unseen' = unseen
                         \/ unseen' = FALSE /\ Verifies
  PROVE  IInv'
<1>1. losses \in Nat /\ losses' = losses
  BY DEF IInv, TypeOK
<1>2. losses' = 0 => ~unseen' /\ ~overlooked'
  BY <1>1 DEF IInv, VerificationInv, TypeOK
<1>3. ASSUME ~overlooked'
      PROVE  /\ ~unseen' => Verifies
             /\ losses' = 1 => unseen' /\ ~Verifies
  <2>1. ~overlooked
    BY <1>3 DEF IInv, TypeOK
  <2>2. /\ ~unseen => Verifies
        /\ losses = 1 => unseen /\ ~Verifies
    BY <2>1 DEF IInv, VerificationInv
  <2> QED
    BY <1>1, <1>3, <2>2
<1>4. HistoryIsLinear'
  BY SameStore DEF IInv, HistoryIsLinear
<1> QED
  BY <1>2, <1>3, <1>4, SameStore DEF IInv, VerificationInv

LEMMA IngestKeepsInv ==
  ASSUME IInv, NEW event \in Event, Ingest(event)
  PROVE  IInv'
<1>1. /\ TypeOK /\ IsFiniteSet(latest) /\ OneLatestEach
      /\ SequencesIncrease
  BY DEF IInv
<1>2. /\ unseen' = unseen /\ losses' = losses /\ process' = "open"
      /\ unseen' \in BOOLEAN /\ process' \in Process
      /\ overlooked' = (overlooked \/ (unseen /\ store' # store))
  BY <1>1 DEF Ingest, TypeOK, Process
<1>3. /\ overlooked' \in BOOLEAN
      /\ ~overlooked' => ~overlooked /\ (unseen => store' = store)
  BY <1>1, <1>2 DEF TypeOK
<1>4. CASE Outcome(event) \in {"stored", "advanced"}
  <2>1. Takes(event)
    BY <1>4 DEF Ingest, Store, Takes
  <2>2. TypeOK' /\ IsFiniteSet(latest') /\ OneLatestEach' /\ SequencesIncrease'
    BY <1>1, <1>2, <1>3, <2>1, TakenKeepsShape
  <2>3. store' # store
    BY <1>1, <2>1 DEF Takes, store, TypeOK
  <2>4. ASSUME ~overlooked'
        PROVE  /\ Linear' /\ Verifies' /\ ~unseen' /\ losses' # 1
    <3>1. ~overlooked /\ ~unseen
      BY <1>3, <2>3, <2>4
    <3>2. Verifies /\ Linear /\ losses # 1
      BY <3>1 DEF IInv, VerificationInv, HistoryIsLinear
    <3> QED
      BY <1>1, <1>2, <1>4, <2>1, <2>2, <3>1, <3>2, TakenKeepsInv
  <2>5. losses' = 0 => ~unseen' /\ ~overlooked'
    BY <1>2 DEF IInv, VerificationInv
  <2> QED
    BY <2>2, <2>4, <2>5 DEF IInv, VerificationInv, HistoryIsLinear
<1>5. CASE Outcome(event) \notin {"stored", "advanced"}
  <2>1. UNCHANGED store
    BY <1>5 DEF Ingest, Store
  <2>2. UNCHANGED <<events, latest, sequence, losses>>
    BY <1>2, <2>1 DEF store
  <2>3. overlooked' = overlooked
    BY <1>1, <1>2, <2>1 DEF TypeOK
  <2>4. losses = 0 => ~overlooked'
    BY <2>3 DEF IInv, VerificationInv
  <2> QED
    BY <1>2, <1>3, <2>2, <2>3, <2>4, ReadingKeepsInv
<1> QED
  BY <1>4, <1>5

LEMMA ReadersKeepInv ==
  ASSUME IInv, BeginIngest \/ Refresh \/ Verify \/ Open \/ Close
  PROVE  IInv'
<1>1. UNCHANGED <<events, latest, sequence, losses>>
  BY DEF BeginIngest, Refresh, Verify, Open, Close, store
<1>2. TypeOK /\ (losses = 0 => ~unseen /\ ~overlooked)
  BY DEF IInv, VerificationInv
<1>3. CASE BeginIngest \/ Refresh
  <2>1. /\ overlooked' = overlooked /\ process' \in Process
        /\ AssertFresh
    BY <1>2, <1>3 DEF BeginIngest, Refresh, TypeOK, Process
  <2> QED
    BY <1>1, <1>2, <2>1, FreshVerifies, ReadingKeepsInv DEF TypeOK
<1>4. CASE Verify
  <2>1. /\ overlooked' = overlooked /\ process' \in Process
        /\ unseen' = FALSE /\ Verifies
    BY <1>2, <1>4 DEF Verify, TypeOK, Process
  <2> QED
    BY <1>1, <1>2, <2>1, ReadingKeepsInv DEF TypeOK
<1>5. CASE Open
  <2>1. /\ process' \in Process /\ unseen' = FALSE
        /\ overlooked' = (overlooked \/ unseen)
    BY <1>5 DEF Open, Process
  <2>2. /\ overlooked' \in BOOLEAN /\ (overlooked => overlooked')
        /\ losses = 0 => ~overlooked'
        /\ ~overlooked' => unseen' = unseen
    BY <1>2, <2>1 DEF TypeOK
  <2> QED
    BY <1>1, <2>1, <2>2, ReadingKeepsInv
<1>6. CASE Close
  <2>1. /\ process' \in Process /\ unseen' = unseen /\ overlooked' = overlooked
    BY <1>6 DEF Close, Process
  <2> QED
    BY <1>1, <1>2, <2>1, ReadingKeepsInv DEF TypeOK
<1> QED
  BY <1>3, <1>4, <1>5, <1>6

LEMMA LoseKeepsInv ==
  ASSUME IInv, Lose
  PROVE  IInv'
<1>1. /\ TypeOK /\ IsFiniteSet(latest) /\ OneLatestEach
      /\ SequencesIncrease
      /\ ~overlooked => Linear
  BY DEF IInv, HistoryIsLinear
<1>2. /\ losses' = losses + 1 /\ unseen' = TRUE
      /\ UNCHANGED <<sequence, process, overlooked>>
  BY DEF Lose
<1>3. ~overlooked /\ losses' = 1 => Verifies
  BY <1>1, <1>2 DEF IInv, VerificationInv, TypeOK
<1>4. ASSUME NEW i \in DOMAIN events, events' = RemoveAt(events, i),
             latest' = latest
      PROVE  IInv'
  <2>1. events' \in Seq(StoredEvent)
    BY <1>1, <1>4, ShorterLog
  <2>2. TypeOK' /\ OneLatestEach'
    BY <1>1, <1>2, <1>4, <2>1 DEF TypeOK, OneLatestEach
  <2>3. SequencesIncrease' /\ (Linear => Linear')
    BY <1>1, <1>2, <1>4, ShorterLogIsLinear
  <2>4. ~overlooked /\ losses' = 1 => ~Verifies'
    BY <1>1, <1>3, <1>4, <2>2, <2>3, LostEventIsNoticed
  <2> QED
    BY <1>1, <1>2, <1>4, <2>2, <2>3, <2>4
       DEF IInv, VerificationInv, TypeOK, HistoryIsLinear
<1>5. ASSUME NEW l \in latest, latest' = latest \ {l}, events' = events
      PROVE  IInv'
  <2>1. TypeOK' /\ OneLatestEach'
    BY <1>1, <1>2, <1>5 DEF TypeOK, OneLatestEach
  <2>2. SequencesIncrease' /\ (Linear => Linear')
    BY <1>1, <1>2, <1>5 DEF SequencesIncrease, Linear
  <2>3. /\ IsFiniteSet(latest')
        /\ Cardinality(latest') = Cardinality(latest) - 1
        /\ Cardinality(latest) \in Nat
    BY <1>1, <1>5, FS_RemoveElement, FS_CardinalityType
  <2>4. TenantsOfLog' = TenantsOfLog
    BY <1>5 DEF TenantsOfLog, Received
  <2>5. Verifies => Cardinality(TenantsOfLog) = Cardinality(latest)
    BY DEF Verifies, LatestVerifies, TenantsOfLog
  <2>6. Verifies' => Cardinality(TenantsOfLog') = Cardinality(latest')
    BY DEF Verifies, LatestVerifies, TenantsOfLog
  <2>7. ~overlooked /\ losses' = 1 => ~Verifies'
    BY <1>3, <2>3, <2>4, <2>5, <2>6
  <2> QED
    BY <1>1, <1>2, <2>1, <2>2, <2>3, <2>7
       DEF IInv, VerificationInv, TypeOK, HistoryIsLinear
<1> QED
  BY <1>4, <1>5 DEF Lose

LEMMA StepInv == IInv /\ [Next]_vars => IInv'
<1> SUFFICES ASSUME IInv, [Next]_vars PROVE IInv'
  OBVIOUS
<1>1. ASSUME NEW event \in Event, Ingest(event) PROVE IInv'
  BY <1>1, IngestKeepsInv
<1>2. CASE BeginIngest \/ Refresh \/ Verify \/ Open \/ Close
  BY <1>2, ReadersKeepInv
<1>3. CASE Lose
  BY <1>3, LoseKeepsInv
<1>4. CASE UNCHANGED vars
  <2>1. /\ UNCHANGED <<events, latest, sequence, losses>>
        /\ process' = process /\ unseen' = unseen /\ overlooked' = overlooked
    BY <1>4 DEF vars, store
  <2>2. TypeOK /\ (losses = 0 => ~overlooked)
    BY DEF IInv, VerificationInv
  <2> QED
    BY <2>1, <2>2, ReadingKeepsInv DEF TypeOK
<1> QED
  BY <1>1, <1>2, <1>3, <1>4 DEF Next
-----------------------------------------------------------------------------
(* The properties.                                                         *)

(* Log, latest checkpoints and data version always owe each other what     *)
(* IInv says: ingest(), assertFresh() and the constructor keep it up,      *)
(* whoever else writes and whenever the process stops.                     *)
THEOREM Invariance == Spec => []IInv
BY InitInv, StepInv, PTL DEF Spec

(* Every variable keeps its type.                                          *)
THEOREM TypeCorrect == Spec => []TypeOK
<1>1. IInv => TypeOK
  BY DEF IInv
<1> QED
  BY <1>1, Invariance, PTL

(* Without an outside change verify() never fails: the receiver always     *)
(* starts again and stays ready.                                           *)
THEOREM ReceiverStaysUsable == Spec => []NeverLocksItselfOut
<1>1. IInv => NeverLocksItselfOut
  BY DEF IInv, VerificationInv, NeverLocksItselfOut
<1> QED
  BY <1>1, Invariance, PTL

(* verify() notices the loss of any single row of either table, unless the *)
(* row was lost between a verification and the use made of it.             *)
THEOREM EveryLossIsNoticed == Spec => []OneLossIsNoticed
<1>1. IInv => OneLossIsNoticed
  BY DEF IInv, VerificationInv, OneLossIsNoticed
<1> QED
  BY <1>1, Invariance, PTL

(* The log never holds two branches of a tenant's history, unless a row    *)
(* was lost between a verification and the use made of it.                 *)
THEOREM NoForks == Spec => []HistoryIsLinear
<1>1. IInv => HistoryIsLinear
  BY DEF IInv
<1> QED
  BY <1>1, Invariance, PTL

(* What a restore is compared with only moves forward, whatever was lost   *)
(* and whenever: the transaction compares with the row it replaces.        *)
THEOREM LatestOnlyAdvances == Spec => LatestNeverMovesBack
<1> DEFINE Forward == losses' = losses =>
             \A l \in latest :
               \E m \in latest' :
                 m.tenant = l.tenant /\ (m = l \/ m.revision > l.revision)
<1>1. IInv /\ [Next]_vars => [Forward]_vars
  <2> SUFFICES ASSUME IInv, Next, losses' = losses, NEW l \in latest
               PROVE  \E m \in latest' :
                        m.tenant = l.tenant
                        /\ (m = l \/ m.revision > l.revision)
    OBVIOUS
  <2>1. CASE latest' = latest
    BY <2>1
  <2>2. ASSUME NEW event \in Event, Ingest(event), latest' # latest
        PROVE  \E m \in latest' :
                 m.tenant = l.tenant /\ (m = l \/ m.revision > l.revision)
    <3>1. Outcome(event) \in {"stored", "advanced"}
      BY <2>2 DEF Ingest, Store, store
    <3>2. latest' = {k \in latest : k.tenant # event.tenant} \cup {event}
      BY <2>2, <3>1 DEF Ingest, Store
    <3>3. l.tenant = event.tenant => event.revision > l.revision
      BY <3>1, TakenAdvances DEF IInv
    <3> QED
      BY <3>2, <3>3
  <2>3. ~Lose
    BY DEF Lose, IInv, TypeOK
  <2> QED
    BY <2>1, <2>2, <2>3
       DEF Next, BeginIngest, Refresh, Verify, Open, Close, store
<1> QED
  BY <1>1, Invariance, PTL DEF Spec, LatestNeverMovesBack
=============================================================================
