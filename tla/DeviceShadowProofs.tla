------------------------ MODULE DeviceShadowProofs ------------------------
(***************************************************************************)
(* The dedup of PATCH requests, for every set of patches, every set of     *)
(* request threads and every queue: a message id is applied once and its   *)
(* patch is published at most once on each command topic.  Then the types  *)
(* of the whole shadow, with the room the queue to the bridge keeps and    *)
(* the fresh message ids.                                                  *)
(***************************************************************************)
EXTENDS DeviceShadow, FiniteSetTheorems, SequenceTheorems, TLAPS

(***************************************************************************)
(* Between its commit and its last publication a patch belongs to one      *)
(* thread: that thread's id is recorded, not published yet on the topics   *)
(* that follow, and no other thread about to publish has it.               *)
(***************************************************************************)
ThreadsOK == /\ DOMAIN http = Threads
             /\ \A t \in Threads : http[t].pc \in {"check", "write", "publish"} \cup CmdTopic
                                      => http[t].mid \in Mid

CountsApplied == IsFiniteSet(applied) /\ applied \subseteq Mid /\ AppliedOnce

Publishers == {t \in Threads : http[t].pc \in {"publish"} \cup CmdTopic}

\* What a publisher has still to publish has not been published.
Unpublished(r) ==
    /\ published[r.mid]["legacy"] = 0
    /\ r.pc # "legacy" => published[r.mid]["normalized"] = 0

OwnersOnly ==
    /\ published \in [Mid -> [CmdTopic -> Nat]]
    /\ PublishedOnce
    /\ \A t \in Publishers : http[t].mid \in applied /\ Unpublished(http[t])
    /\ \A s, t \in Publishers : http[s].mid = http[t].mid => s = t

Dedup == ThreadsOK /\ CountsApplied /\ OwnersOnly

dedupVars == <<http, version, applied, published>>

LEMMA DedupInit == Init => Dedup
<1> SUFFICES ASSUME Init PROVE Dedup
  OBVIOUS
<1>1. ThreadsOK
  BY DEF Init, ThreadsOK, HttpIdle, CmdTopic
<1>2. CountsApplied
  BY FS_EmptySet DEF Init, CountsApplied, AppliedOnce
<1>3. OwnersOnly
  BY DEF Init, OwnersOnly, PublishedOnce, Publishers, HttpIdle, CmdTopic
<1> QED
  BY <1>1, <1>2, <1>3 DEF Dedup

\* A thread that starts or ends a request, or waits for its write, owns nothing.
LEMMA DedupThread ==
    ASSUME Dedup, NEW t \in Threads, NEW r,
           http' = [http EXCEPT ![t] = r],
           r.pc \in {"check", "write"} => r.mid \in Mid,
           r.pc \notin {"publish"} \cup CmdTopic,
           UNCHANGED <<version, applied, published>>
    PROVE  Dedup'
<1> USE DEF Dedup
<1>1. ThreadsOK'
  BY DEF ThreadsOK
<1>2. CountsApplied'
  BY DEF CountsApplied, AppliedOnce
<1>3. Publishers' \subseteq Publishers /\ \A s \in Publishers' : http'[s] = http[s]
  BY DEF ThreadsOK, Publishers
<1>4. OwnersOnly'
  BY <1>3 DEF OwnersOnly, PublishedOnce, Unpublished
<1> QED
  BY <1>1, <1>2, <1>4

\* A request that ends without more owns nothing.
LEMMA DedupFinish ==
    ASSUME Dedup, NEW t \in Threads, Finish(t), UNCHANGED <<version, applied, published>>
    PROVE  Dedup'
<1>1. http' = [http EXCEPT ![t] = HttpIdle]
  BY DEF Finish
<1>2. HttpIdle.pc = "idle" /\ "idle" \notin {"publish"} \cup CmdTopic
  BY DEF HttpIdle, CmdTopic
<1> QED
  BY <1>1, <1>2, DedupThread

\* The write of a patch commits it with its id, or is rolled back.
LEMMA DedupWrite ==
    ASSUME Dedup, NEW t \in Threads, WritePatch(t)
    PROVE  Dedup'
<1> DEFINE m == http[t].mid
<1>1. m \in Mid /\ http[t].pc = "write" /\ DOMAIN http = Threads
  BY DEF WritePatch, Dedup, ThreadsOK
<1>2. CASE KeyTaken(m)
  <2>1. Finish(t) /\ UNCHANGED <<version, applied, published>>
    BY <1>2 DEF WritePatch
  <2> QED
    BY <2>1, DedupFinish
<1>3. CASE ~KeyTaken(m)
  <2>1. /\ m \notin applied
        /\ version' = version + 1 /\ applied' = applied \cup {m} /\ UNCHANGED published
        /\ http' = [http EXCEPT ![t] = [pc |-> "publish", mid |-> m, base |-> http[t].base]]
    BY <1>3 DEF WritePatch, KeyTaken, Goto
  <2>2. ThreadsOK'
    BY <1>1, <2>1 DEF Dedup, ThreadsOK
  <2>3. CountsApplied'
    <3>1. IsFiniteSet(applied') /\ Cardinality(applied') = Cardinality(applied) + 1
      BY <2>1, FS_AddElement DEF Dedup, CountsApplied
    <3> QED
      BY <1>1, <2>1, <3>1 DEF Dedup, CountsApplied, AppliedOnce
  <2>4. /\ Publishers' = Publishers \cup {t} /\ t \notin Publishers
        /\ http'[t].mid = m /\ \A s \in Publishers : http'[s] = http[s]
    BY <1>1, <2>1 DEF Publishers, CmdTopic
  <2>5. published[m]["normalized"] = 0 /\ published[m]["legacy"] = 0
    BY <1>1, <2>1 DEF Dedup, OwnersOnly, PublishedOnce, CmdTopic
  <2>6. \A s \in Publishers : http[s].mid # m
    BY <2>1 DEF Dedup, OwnersOnly
  <2>7. OwnersOnly'
    <3>1. PublishedOnce' /\ published' \in [Mid -> [CmdTopic -> Nat]]
      BY <2>1 DEF Dedup, OwnersOnly, PublishedOnce
    <3>2. \A s \in Publishers' : http'[s].mid \in applied' /\ Unpublished(http[s])'
      BY <2>1, <2>4, <2>5 DEF Dedup, OwnersOnly, Unpublished
    <3>3. \A s, u \in Publishers' : http'[s].mid = http'[u].mid => s = u
      BY <2>4, <2>6 DEF Dedup, OwnersOnly
    <3> QED
      BY <3>1, <3>2, <3>3 DEF OwnersOnly
  <2> QED
    BY <2>2, <2>3, <2>7 DEF Dedup
<1> QED
  BY <1>2, <1>3

\* The owner of a patch finds the bridge disconnected, and ends, or goes on to publish.
LEMMA DedupTest ==
    ASSUME Dedup, NEW t \in Threads, PublishPatch(t)
    PROVE  Dedup'
<1> DEFINE r == [pc |-> "normalized", mid |-> http[t].mid, base |-> http[t].base]
<1>1. UNCHANGED <<version, applied, published>>
  BY DEF PublishPatch
<1>2. CASE Finish(t)
  BY <1>1, <1>2, DedupFinish
<1>3. CASE Goto(t, "normalized")
  <2>1. http[t].pc = "publish" /\ DOMAIN http = Threads /\ http' = [http EXCEPT ![t] = r]
    BY <1>3 DEF PublishPatch, Goto, Dedup, ThreadsOK
  <2>2. /\ r.pc = "normalized" /\ r.mid = http[t].mid
        /\ t \in Publishers /\ Publishers' = Publishers
        /\ http'[t] = r /\ \A s \in Threads \ {t} : http'[s] = http[s]
    BY <2>1 DEF Publishers, CmdTopic
  <2> HIDE DEF r
  <2>3. ThreadsOK' /\ CountsApplied'
    BY <1>1, <2>1, <2>2 DEF Dedup, ThreadsOK, CountsApplied, AppliedOnce
  <2>4. OwnersOnly'
    BY <1>1, <2>1, <2>2 DEF Dedup, OwnersOnly, PublishedOnce, Unpublished, Publishers
  <2> QED
    BY <2>3, <2>4 DEF Dedup
<1> QED
  BY <1>2, <1>3 DEF PublishPatch

\* The owner of a patch publishes it on one topic, and then on the other, and ends.
LEMMA DedupPublish ==
    ASSUME Dedup, NEW t \in Threads, PublishNormalized(t) \/ PublishLegacy(t)
    PROVE  Dedup'
<1> DEFINE m == http[t].mid
<1>1. PICK topic \in CmdTopic : /\ http[t].pc = topic /\ PublishOn(t, topic)
                               /\ \/ topic = "normalized" /\ Goto(t, "legacy")
                                  \/ topic = "legacy" /\ Finish(t)
  BY DEF PublishNormalized, PublishLegacy, PublishOn, CmdTopic
<1>2. /\ m \in Mid /\ t \in Publishers /\ DOMAIN http = Threads
      /\ UNCHANGED <<version, applied>>
      /\ published' = [published EXCEPT ![m][topic] = @ + 1]
  BY <1>1 DEF PublishOn, Dedup, ThreadsOK, Publishers
<1>3. /\ published \in [Mid -> [CmdTopic -> Nat]]
      /\ m \in applied /\ published[m][topic] = 0
  BY <1>1, <1>2 DEF Dedup, OwnersOnly, Unpublished, CmdTopic
<1>4. /\ \/ topic = "normalized" /\ http'[t].pc = "legacy" /\ http'[t].mid = m
         \/ topic = "legacy" /\ http'[t].pc = "idle"
      /\ DOMAIN http' = Threads /\ \A s \in Threads \ {t} : http'[s] = http[s]
  BY <1>1, <1>2 DEF Goto, Finish, HttpIdle
<1>5. ThreadsOK' /\ CountsApplied'
  BY <1>2, <1>4 DEF Dedup, ThreadsOK, CountsApplied, AppliedOnce, CmdTopic
<1>6. /\ published' \in [Mid -> [CmdTopic -> Nat]] /\ published'[m][topic] = 1
      /\ \A n \in Mid, other \in CmdTopic :
           n # m \/ other # topic => published'[n][other] = published[n][other]
  BY <1>1, <1>2, <1>3
<1>7. Publishers' \subseteq Publishers /\ (topic = "legacy" => t \notin Publishers')
  BY <1>2, <1>4 DEF Publishers, CmdTopic
<1>8. \A s \in Publishers' \ {t} : http'[s] = http[s] /\ http[s].mid # m
  BY <1>2, <1>4, <1>7 DEF Dedup, OwnersOnly, Publishers
<1>9. PublishedOnce'
  BY <1>1, <1>2, <1>3, <1>6 DEF Dedup, OwnersOnly, PublishedOnce
<1>10. ASSUME NEW s \in Publishers' PROVE http'[s].mid \in applied' /\ Unpublished(http[s])'
  <2>1. CASE s = t
    <3>1. topic = "normalized" /\ http'[t].pc = "legacy" /\ http'[t].mid = m
      BY <1>4, <1>7, <1>10, <2>1
    <3>2. published[m]["legacy"] = 0
      BY <1>2 DEF Dedup, OwnersOnly, Unpublished
    <3> QED
      BY <1>2, <1>3, <1>6, <2>1, <3>1, <3>2 DEF Unpublished, CmdTopic
  <2>2. CASE s # t
    <3>1. /\ http'[s] = http[s] /\ http[s].mid # m /\ http[s].mid \in Mid
          /\ http[s].mid \in applied /\ Unpublished(http[s])
      BY <1>7, <1>8, <1>10, <2>2 DEF Dedup, OwnersOnly, CountsApplied
    <3> QED
      BY <1>2, <1>6, <3>1 DEF Unpublished, CmdTopic
  <2> QED
    BY <2>1, <2>2
<1>11. \A s, u \in Publishers' : http'[s].mid = http'[u].mid => s = u
  BY <1>4, <1>7, <1>8 DEF Dedup, OwnersOnly
<1> QED
  BY <1>5, <1>6, <1>9, <1>10, <1>11 DEF Dedup, OwnersOnly

LEMMA DedupUnchanged == Dedup /\ UNCHANGED dedupVars => Dedup'
BY DEF Dedup, dedupVars, ThreadsOK, CountsApplied, OwnersOnly, AppliedOnce, PublishedOnce,
       Publishers, Unpublished

LEMMA DedupNext == Dedup /\ [Next]_vars => Dedup'
<1> SUFFICES ASSUME Dedup, [Next]_vars PROVE Dedup'
  OBVIOUS
<1>1. CASE LightConnect
  BY <1>1, DedupUnchanged DEF LightConnect, desiredVars, dedupVars
<1>2. CASE LightDrop
  BY <1>2, DedupUnchanged DEF LightDrop, desiredVars, dedupVars
<1>3. CASE Heartbeat
  BY <1>3, DedupUnchanged DEF Heartbeat, desiredVars, dedupVars
<1>4. CASE LightCommand
  BY <1>4, DedupUnchanged DEF LightCommand, desiredVars, dedupVars
<1>5. CASE CloudDrop
  BY <1>5, DedupUnchanged DEF CloudDrop, desiredVars, dedupVars
<1>6. CASE CloudConnect
  BY <1>6, DedupUnchanged DEF CloudConnect, desiredVars, dedupVars
<1>7. CASE Ingest
  BY <1>7, DedupUnchanged DEF Ingest, desiredVars, dedupVars
<1>8. CASE Age \/ SweepRead \/ SweepWrite
  BY <1>8, DedupUnchanged DEF Age, SweepRead, SweepWrite, desiredVars, dedupVars
<1>9. ASSUME NEW t \in Threads,
             RequestOffline(t) \/ (\E m \in Mid : RequestPatch(t, m)) \/ HttpStep(t)
      PROVE  Dedup'
  <2>1. CASE RequestOffline(t)
    <3> DEFINE r == [pc |-> "offline", mid |-> NoMid, base |-> reported]
    <3>1. http' = [http EXCEPT ![t] = r] /\ UNCHANGED <<version, applied, published>>
      BY <2>1 DEF RequestOffline
    <3>2. r.pc = "offline" /\ "offline" \notin {"check", "write", "publish"} \cup CmdTopic
      BY DEF CmdTopic
    <3> HIDE DEF r
    <3> QED
      BY <3>1, <3>2, DedupThread
  <2>2. ASSUME NEW m \in Mid, RequestPatch(t, m) PROVE Dedup'
    <3> DEFINE r == [pc |-> "check", mid |-> m, base |-> desired]
    <3>1. http' = [http EXCEPT ![t] = r] /\ UNCHANGED <<version, applied, published>>
      BY <2>2 DEF RequestPatch
    <3>2. r.pc = "check" /\ r.mid \in Mid /\ "check" \notin {"publish"} \cup CmdTopic
      BY DEF CmdTopic
    <3> HIDE DEF r
    <3> QED
      BY <3>1, <3>2, DedupThread
  <2>3. CASE MarkOffline(t)
    <3>1. Finish(t) /\ UNCHANGED <<version, applied, published>>
      BY <2>3 DEF MarkOffline
    <3> QED
      BY <3>1, DedupFinish
  <2>4. CASE CheckPatch(t)
    <3>1. CASE http[t].mid \in applied
      <4>1. Finish(t) /\ UNCHANGED <<version, applied, published>>
        BY <2>4, <3>1 DEF CheckPatch, AnswerUnchanged
      <4> QED
        BY <4>1, DedupFinish
    <3>2. CASE http[t].mid \notin applied
      <4>1. http[t].mid \in Mid
        BY <2>4 DEF CheckPatch, Dedup, ThreadsOK
      <4> DEFINE r == [pc |-> "write", mid |-> http[t].mid, base |-> http[t].base]
      <4>2. http' = [http EXCEPT ![t] = r] /\ UNCHANGED <<version, applied, published>>
        BY <2>4, <3>2 DEF CheckPatch, Goto
      <4>3. r.pc = "write" /\ r.mid \in Mid /\ "write" \notin {"publish"} \cup CmdTopic
        BY <4>1 DEF CmdTopic
      <4> HIDE DEF r
      <4> QED
        BY <4>2, <4>3, DedupThread
    <3> QED
      BY <3>1, <3>2
  <2>5. CASE WritePatch(t)
    BY <2>5, DedupWrite
  <2>6. CASE PublishPatch(t)
    BY <2>6, DedupTest
  <2>7. CASE PublishNormalized(t) \/ PublishLegacy(t)
    BY <2>7, DedupPublish
  <2> QED
    BY <1>9, <2>1, <2>2, <2>3, <2>4, <2>5, <2>6, <2>7 DEF HttpStep
<1>10. CASE UNCHANGED vars
  BY <1>10, DedupUnchanged DEF vars, desiredVars, dedupVars
<1> QED
  BY <1>1, <1>2, <1>3, <1>4, <1>5, <1>6, <1>7, <1>8, <1>9, <1>10 DEF Next

THEOREM DedupInvariant == Spec => []Dedup
<1> QED
  BY DedupInit, DedupNext, PTL DEF Spec

\* update_desired, for any number of simultaneous requests and repetitions: an id is
\* applied once, and the patch and its id are stored together.
THEOREM ShadowAppliedOnce == Spec => []AppliedOnce
<1>1. Dedup => AppliedOnce
  BY DEF Dedup, CountsApplied
<1> QED
  BY <1>1, DedupInvariant, PTL

\* The PATCH endpoint, for any number of simultaneous requests and repetitions: a
\* patch is published at most once on each command topic, and only after it is stored.
THEOREM ShadowPublishedOnce == Spec => []PublishedOnce
<1>1. Dedup => PublishedOnce
  BY DEF Dedup, OwnersOnly
<1> QED
  BY <1>1, DedupInvariant, PTL

-----------------------------------------------------------------------------
(* Type invariant *)

\* Nothing or one message is retained on a topic.
Single(S) == S = {} \/ \E r \in Message : S = {r}

ShadowOK ==
    /\ light \in [up : BOOLEAN, on : BOOLEAN] /\ cloud \in BOOLEAN
    /\ down \in Seq(BOOLEAN) /\ unsent \in Seq(BOOLEAN)
    /\ recorded \subseteq MsgId /\ reported \in Reported /\ recent \in BOOLEAN
    /\ sweep \in [pc : {"idle", "write"}, base : Reported]
    /\ DOMAIN desired \subseteq {"on", "color"}
    /\ version \in Nat /\ applied \subseteq Mid /\ published \in [Mid -> [CmdTopic -> Nat]]

\* The light publishes a status, two messages, only to a queue with room, so that its last
\* will finds room too; it reports again when there is room for its status.
QueueOK ==
    /\ up \in Seq(Message)
    /\ Len(up) <= IF light.up THEN MaxQueue ELSE MaxQueue + 1
    /\ retained \in [{"legacy", "normalized"} -> SUBSET Message]
    /\ Single(retained["legacy"]) /\ Single(retained["normalized"])

\* What a request has read before it writes
RequestOK(r) ==
    /\ r.pc \in {"idle", "check", "write", "publish", "offline"} \cup CmdTopic
    /\ r.mid \in Mid \cup {NoMid}
    /\ r.pc \in {"check", "write", "publish"} \cup CmdTopic => r.mid \in Mid
    /\ r.pc \in {"check", "write"} => DOMAIN r.base \subseteq {"on", "color"}
    /\ r.pc = "offline" => r.base \in Reported
    /\ r.pc \in CmdTopic => Patches[r.mid]["on"] \in BOOLEAN

RequestsOK == DOMAIN http = Threads /\ \A t \in Threads : RequestOK(http[t])

TypeInv == ShadowOK /\ QueueOK /\ RequestsOK

LEMMA Bounds == MaxQueue \in Nat /\ MaxQueue >= 2 /\ MsgId \subseteq Nat /\ NoId \notin MsgId
<1>1. MaxQueue \in Nat /\ MaxQueue # 0 /\ MaxQueue # 1
  BY ShadowAssumption
<1> QED
  BY <1>1 DEF MsgId, NoId

LEMMA TypeInvImplies == TypeInv => TypeOK
<1> SUFFICES ASSUME TypeInv PROVE TypeOK
  OBVIOUS
<1>1. Len(up) <= MaxQueue + 1
  <2>1. Len(up) <= IF light.up THEN MaxQueue ELSE MaxQueue + 1
    BY DEF TypeInv, QueueOK
  <2>2. Len(up) \in Nat
    BY DEF TypeInv, QueueOK
  <2> QED
    BY <2>1, <2>2, Bounds
<1>2. \A t \in DOMAIN retained : Cardinality(retained[t]) <= 1
  <2>1. \A S : Single(S) => Cardinality(S) <= 1
    BY FS_EmptySet, FS_Singleton DEF Single
  <2> QED
    BY <2>1 DEF TypeInv, QueueOK
<1> QED
  BY <1>1, <1>2 DEF TypeInv, ShadowOK, QueueOK, RequestsOK, RequestOK, TypeOK

LEMMA TypeInvInit == Init => TypeInv
<1> SUFFICES ASSUME Init PROVE TypeInv
  OBVIOUS
<1>1. QueueOK
  <2>1. Len(<<>>) = 0 /\ <<>> \in Seq(Message)
    OBVIOUS
  <2> QED
    BY <2>1, Bounds DEF Init, QueueOK, Single
<1>2. RequestsOK
  BY DEF Init, RequestsOK, RequestOK, HttpIdle, CmdTopic
<1>3. ShadowOK
  <2>1. DOMAIN <<>> = {} /\ <<>> \in Seq(BOOLEAN)
    OBVIOUS
  <2> QED
    BY <2>1 DEF Init, ShadowOK, Reported
<1> QED
  BY <1>1, <1>2, <1>3 DEF TypeInv

\* A set of numbers has a least element: the members up to one that cannot be made fewer.
LEMMA Least ==
    ASSUME NEW S \in SUBSET Nat, IsFiniteSet(S), S # {}
    PROVE  \E n \in S : \A k \in S : n <= k
<1> DEFINE UpTo(n) == {k \in S : k <= n}
           Starts == {UpTo(n) : n \in S}
<1>1. IsWellFoundedOn(StrictSubsetOrdering(S), FiniteSubsetsOf(S)) /\ FiniteSubsetsOf(S) = SUBSET S
  BY FS_StrictSubsetOrderingWellFounded, FS_FiniteSubsetsOfFinite
<1>2. Starts \subseteq SUBSET S /\ Starts # {}
  OBVIOUS
<1>3. PICK T \in Starts : \A U \in Starts : <<U, T>> \notin StrictSubsetOrdering(S)
  <2> HIDE DEF Starts
  <2> DEFINE R == StrictSubsetOrdering(S)
             F == FiniteSubsetsOf(S)
  <2>0. IsWellFoundedOn(R, F) /\ Starts \subseteq F /\ Starts # {}
    BY <1>1, <1>2
  <2> HIDE DEF R, F
  <2>1. \E T \in Starts : \A U \in Starts : ~(<<U, T>> \in R)
    BY <2>0, WFMin
  <2> QED
    BY <2>1 DEF R
<1>4. PICK n \in S : T = UpTo(n)
  BY <1>3
<1>5. ASSUME NEW k \in S, ~(n <= k) PROVE FALSE
  <2>1. k \in Nat /\ n \in Nat
    OBVIOUS
  <2>2. UpTo(k) \subseteq T /\ n \in T /\ n \notin UpTo(k)
    <3>1. \A j \in S : j <= k => j <= n
      BY <1>5, <2>1
    <3>2. n <= n
      BY <2>1
    <3> QED
      BY <1>4, <1>5, <3>1, <3>2
  <2>3. <<UpTo(k), T>> \in StrictSubsetOrdering(S)
    BY <1>4, <2>2 DEF StrictSubsetOrdering
  <2> QED
    BY <1>3, <2>3
<1> QED
  BY <1>5

\* There is always an id that no message in transit bears.
LEMMA IdLeft ==
    ASSUME QueueOK, Room
    PROVE  NewId \in MsgId
<1> DEFINE Ids == {up[k].id : k \in DOMAIN up}
           Kept == {r.id : r \in retained["normalized"]}
           n == Len(up)
<1>1. n \in Nat /\ n + 2 <= MaxQueue /\ DOMAIN up = 1..n
  BY DEF QueueOK, Room
<1>2. IsFiniteSet(Ids) /\ Cardinality(Ids) <= n
  <2>1. [k \in 1..n |-> up[k].id] \in Surjection(1..n, Ids)
    BY <1>1 DEF Surjection
  <2>2. IsFiniteSet(1..n) /\ Cardinality(1..n) = n
    <3> HIDE DEF n
    <3>1. n \in Int /\ 1 \in Int /\ (1 > n => n = 0) /\ n - 1 + 1 = n
      BY <1>1
    <3>2. IsFiniteSet(1..n) /\ Cardinality(1..n) = IF 1 > n THEN 0 ELSE n - 1 + 1
      BY <3>1, FS_Interval
    <3> QED
      BY <3>1, <3>2
  <2> QED
    BY <2>1, <2>2, FS_Surjection
<1>3. IsFiniteSet(Kept) /\ Cardinality(Kept) <= 1
  <2>1. Kept = {} \/ \E r \in Message : Kept = {r.id}
    BY DEF QueueOK, Single
  <2> HIDE DEF Kept
  <2>2. CASE Kept = {}
    BY <2>2, FS_EmptySet
  <2>3. ASSUME NEW r \in Message, Kept = {r.id} PROVE IsFiniteSet(Kept) /\ Cardinality(Kept) <= 1
    <3>1. IsFiniteSet({r.id}) /\ Cardinality({r.id}) = 1
      BY FS_Singleton
    <3> QED
      BY <2>3, <3>1
  <2> QED
    BY <2>1, <2>2, <2>3
<1>4. IsFiniteSet(InTransit) /\ Cardinality(InTransit) <= n + 1
  <2>1. InTransit = Ids \cup Kept
    BY DEF InTransit
  <2> HIDE DEF Ids, Kept
  <2>2. /\ IsFiniteSet(Ids \cup Kept) /\ IsFiniteSet(Ids \cap Kept)
        /\ Cardinality(Ids \cup Kept) = Cardinality(Ids) + Cardinality(Kept) - Cardinality(Ids \cap Kept)
    BY <1>2, <1>3, FS_Union, FS_Intersection
  <2>3. Cardinality(Ids) \in Nat /\ Cardinality(Kept) \in Nat /\ Cardinality(Ids \cap Kept) \in Nat
    BY <1>2, <1>3, <2>2, FS_CardinalityType
  <2> HIDE DEF n
  <2>4. Cardinality(Ids \cup Kept) <= n + 1
    BY <1>1, <1>2, <1>3, <2>2, <2>3
  <2> QED
    BY <2>1, <2>2, <2>4
<1>5. IsFiniteSet(MsgId) /\ Cardinality(MsgId) = MaxQueue + 3
  <2>1. MaxQueue \in Nat /\ MaxQueue + 3 \in Int /\ ~(1 > MaxQueue + 3)
    BY Bounds
  <2> QED
    BY <2>1, FS_Interval DEF MsgId
<1>6. MsgId \ InTransit # {}
  <2>1. SUFFICES ASSUME MsgId \subseteq InTransit PROVE FALSE
    OBVIOUS
  <2>2. Cardinality(MsgId) <= Cardinality(InTransit) /\ Cardinality(InTransit) \in Nat
    BY <1>4, <2>1, FS_Subset, FS_CardinalityType
  <2> HIDE DEF n
  <2> QED
    BY <1>1, <1>4, <1>5, <2>2, Bounds
<1>7. IsFiniteSet(MsgId \ InTransit) /\ MsgId \ InTransit \subseteq Nat
  BY <1>5, Bounds, FS_Subset
<1>8. \E i \in MsgId \ InTransit : \A k \in MsgId \ InTransit : i <= k
  BY <1>6, <1>7, Least
<1> QED
  BY <1>8 DEF NewId

\* publish_status of a light that has room for it
LEMMA StatusSteps ==
    ASSUME TypeInv, Room, NEW v \in BOOLEAN, PublishStatus(v), light' \in [up : BOOLEAN, on : BOOLEAN]
    PROVE  QueueOK' /\ recorded' \subseteq MsgId
<1> DEFINE legacy == [online |-> TRUE, on |-> v, id |-> NoId]
           status == [online |-> TRUE, on |-> v, id |-> NewId]
<1>1. legacy \in Message /\ status \in Message
  <2>1. NewId \in MsgId
    BY IdLeft DEF TypeInv
  <2> QED
    BY <2>1 DEF Message
<1>2. /\ up' = IF cloud THEN up \o <<legacy, status>> ELSE up
      /\ retained' = [legacy |-> {legacy}, normalized |-> {status}]
      /\ recorded' = recorded \cap InTransit
  BY DEF PublishStatus, Arrive
<1> HIDE DEF legacy, status
<1>3. up \in Seq(Message) /\ Len(up) \in Nat /\ Len(up) + 2 <= MaxQueue
  BY DEF TypeInv, QueueOK, Room
<1>4. up' \in Seq(Message) /\ Len(up') <= Len(up) + 2 /\ Len(up') \in Nat
  <2>1. <<legacy, status>> \in Seq(Message) /\ Len(<<legacy, status>>) = 2
    BY <1>1
  <2>2. /\ up \o <<legacy, status>> \in Seq(Message)
        /\ Len(up \o <<legacy, status>>) = Len(up) + 2
    BY <1>3, <2>1
  <2> QED
    BY <1>2, <1>3, <2>2
<1>5. Len(up') <= IF light'.up THEN MaxQueue ELSE MaxQueue + 1
  BY <1>3, <1>4, Bounds
<1>6. /\ retained' \in [{"legacy", "normalized"} -> SUBSET Message]
      /\ Single(retained'["legacy"]) /\ Single(retained'["normalized"])
  BY <1>1, <1>2 DEF Single
<1>7. recorded' \subseteq MsgId
  BY <1>2 DEF TypeInv, ShadowOK
<1> QED
  BY <1>4, <1>5, <1>6, <1>7 DEF QueueOK

LEMMA LightSteps ==
    ASSUME TypeInv, LightConnect \/ LightDrop \/ Heartbeat \/ LightCommand
    PROVE  TypeInv'
<1>1. RequestsOK'
  BY DEF LightConnect, LightDrop, Heartbeat, LightCommand, desiredVars, TypeInv, RequestsOK
<1>2. CASE LightConnect
  <2>1. PICK v \in {light.on, FALSE} : light' = [up |-> TRUE, on |-> v] /\ PublishStatus(v)
    BY <1>2 DEF LightConnect
  <2>2. v \in BOOLEAN /\ light' \in [up : BOOLEAN, on : BOOLEAN]
    BY <2>1 DEF TypeInv, ShadowOK
  <2>3. QueueOK' /\ recorded' \subseteq MsgId
    BY <1>2, <2>1, <2>2, StatusSteps DEF LightConnect
  <2>4. ShadowOK'
    BY <1>2, <2>2, <2>3 DEF LightConnect, desiredVars, TypeInv, ShadowOK
  <2> QED
    BY <1>1, <2>3, <2>4 DEF TypeInv
<1>3. CASE LightDrop
  <2> DEFINE will == [online |-> FALSE, on |-> FALSE, id |-> NoId]
  <2>1. /\ will \in Message /\ light.up /\ light' = [light EXCEPT !.up = FALSE] /\ down' = <<>>
        /\ up' = IF cloud THEN up \o <<will>> ELSE up
        /\ retained' = [retained EXCEPT !["legacy"] = {will}]
    BY <1>3 DEF LightDrop, Arrive, Message
  <2> HIDE DEF will
  <2>2. light' \in [up : BOOLEAN, on : BOOLEAN] /\ ~light'.up
    BY <2>1 DEF TypeInv, ShadowOK
  <2>3. up \in Seq(Message) /\ Len(up) \in Nat /\ Len(up) <= MaxQueue
    BY <2>1 DEF TypeInv, QueueOK
  <2>4. up' \in Seq(Message) /\ Len(up') \in Nat /\ Len(up') <= Len(up) + 1
    <3>1. <<will>> \in Seq(Message) /\ Len(<<will>>) = 1
      BY <2>1
    <3>2. up \o <<will>> \in Seq(Message) /\ Len(up \o <<will>>) = Len(up) + 1
      BY <2>3, <3>1
    <3> QED
      BY <2>1, <2>3, <3>2
  <2>5. Len(up') <= IF light'.up THEN MaxQueue ELSE MaxQueue + 1
    BY <2>2, <2>3, <2>4, Bounds
  <2>6. /\ retained' \in [{"legacy", "normalized"} -> SUBSET Message]
        /\ Single(retained'["legacy"]) /\ Single(retained'["normalized"])
    BY <2>1 DEF TypeInv, QueueOK, Single
  <2>7. down' \in Seq(BOOLEAN)
    BY <2>1
  <2>8. ShadowOK'
    BY <1>3, <2>2, <2>7 DEF LightDrop, reportVars, desiredVars, TypeInv, ShadowOK
  <2> QED
    BY <1>1, <2>4, <2>5, <2>6, <2>8 DEF TypeInv, QueueOK
<1>4. CASE Heartbeat
  <2>1. light.on \in BOOLEAN /\ light' \in [up : BOOLEAN, on : BOOLEAN]
    BY <1>4 DEF Heartbeat, lightVars, TypeInv, ShadowOK
  <2>2. QueueOK' /\ recorded' \subseteq MsgId
    BY <1>4, <2>1, StatusSteps DEF Heartbeat
  <2>3. ShadowOK'
    BY <1>4, <2>1, <2>2 DEF Heartbeat, lightVars, desiredVars, TypeInv, ShadowOK
  <2> QED
    BY <1>1, <2>2, <2>3 DEF TypeInv
<1>5. CASE LightCommand
  <2>1. Head(down) \in BOOLEAN /\ Tail(down) \in Seq(BOOLEAN)
    BY <1>5, HeadTailProperties DEF LightCommand, TypeInv, ShadowOK
  <2>2. light' \in [up : BOOLEAN, on : BOOLEAN] /\ down' \in Seq(BOOLEAN)
    BY <1>5, <2>1 DEF LightCommand, TypeInv, ShadowOK
  <2>3. QueueOK' /\ recorded' \subseteq MsgId
    BY <1>5, <2>1, <2>2, StatusSteps DEF LightCommand
  <2>4. ShadowOK'
    BY <1>5, <2>2, <2>3 DEF LightCommand, desiredVars, TypeInv, ShadowOK
  <2> QED
    BY <1>1, <2>3, <2>4 DEF TypeInv
<1> QED
  BY <1>2, <1>3, <1>4, <1>5

LEMMA Listed ==
    ASSUME NEW S, NEW n \in Nat, NEW f \in [1..n -> S]
    PROVE  f \in Seq(S) /\ Len(f) = n
<1>1. f \in Seq(S)
  BY SeqDef
<1>2. DOMAIN f = 1..n /\ DOMAIN f = 1..Len(f) /\ Len(f) \in Nat
  BY <1>1, LenProperties
<1> QED
  BY <1>1, <1>2

\* What a reconnection delivers of one topic: its message, or nothing.
Sent(S) == [k \in 1..Cardinality(S) |-> CHOOSE r \in S : TRUE]

LEMMA SentOne ==
    ASSUME NEW S, Single(S)
    PROVE  Sent(S) \in Seq(Message) /\ Len(Sent(S)) \in 0..1
<1>1. Cardinality(S) \in 0..1 /\ (S = {} => Cardinality(S) = 0)
  BY FS_EmptySet, FS_Singleton DEF Single
<1>2. ASSUME NEW k \in 1..Cardinality(S) PROVE (CHOOSE r \in S : TRUE) \in Message
  <2>1. S # {}
    BY <1>1, <1>2
  <2> QED
    BY <2>1 DEF Single
<1>3. Sent(S) \in [1..Cardinality(S) -> Message]
  BY <1>2 DEF Sent
<1>4. Sent(S) \in Seq(Message) /\ Len(Sent(S)) = Cardinality(S)
  BY <1>1, <1>3, Listed
<1> QED
  BY <1>1, <1>4

\* Commands on their way, and one more
LEMMA CommandTypes ==
    ASSUME ShadowOK, NEW commands \in Seq(BOOLEAN), Command(commands)
    PROVE  down' \in Seq(BOOLEAN)
<1>1. down \in Seq(BOOLEAN)
  BY DEF ShadowOK
<1>2. down \o commands \in Seq(BOOLEAN)
  BY <1>1
<1> QED
  BY <1>1, <1>2 DEF Command

LEMMA ConnectSteps ==
    ASSUME TypeInv, CloudDrop \/ CloudConnect
    PROVE  TypeInv'
<1>1. ShadowOK' /\ RequestsOK'
  <2>1. down' \in Seq(BOOLEAN) /\ unsent' \in Seq(BOOLEAN)
    <3>1. ShadowOK /\ down \in Seq(BOOLEAN) /\ unsent \in Seq(BOOLEAN) /\ <<>> \in Seq(BOOLEAN)
      BY DEF TypeInv, ShadowOK
    <3> QED
      BY <3>1, CommandTypes DEF CloudDrop, CloudConnect, lightVars
  <2> QED
    BY <2>1 DEF CloudDrop, CloudConnect, lightVars, reportVars, desiredVars, TypeInv, ShadowOK,
                RequestsOK
<1>2. /\ UNCHANGED <<light, retained>>
      /\ retained \in [{"legacy", "normalized"} -> SUBSET Message]
      /\ Single(retained["legacy"]) /\ Single(retained["normalized"])
  BY DEF CloudDrop, CloudConnect, lightVars, TypeInv, QueueOK
<1>3. CASE CloudDrop
  <2>1. up' \in Seq(Message) /\ Len(up') = 0
    BY <1>3 DEF CloudDrop
  <2> QED
    BY <1>1, <1>2, <2>1, Bounds DEF TypeInv, QueueOK
<1>4. CASE CloudConnect
  <2>1. PICK s \in DOMAIN retained, t \in DOMAIN retained : up' = Sent(retained[s]) \o Sent(retained[t])
    BY <1>4 DEF CloudConnect, Sent
  <2>2. Single(retained[s]) /\ Single(retained[t])
    BY <1>2, <2>1
  <2>3. /\ Sent(retained[s]) \in Seq(Message) /\ Len(Sent(retained[s])) \in 0..1
        /\ Sent(retained[t]) \in Seq(Message) /\ Len(Sent(retained[t])) \in 0..1
    BY <2>2, SentOne
  <2>4. up' \in Seq(Message) /\ Len(up') = Len(Sent(retained[s])) + Len(Sent(retained[t]))
    BY <2>1, <2>3
  <2>5. Len(up') <= IF light.up THEN MaxQueue ELSE MaxQueue + 1
    <3> DEFINE a == Len(Sent(retained[s]))
               b == Len(Sent(retained[t]))
    <3>1. a \in 0..1 /\ b \in 0..1 /\ Len(up') = a + b
      BY <2>3, <2>4
    <3> HIDE DEF a, b
    <3>2. Len(up') <= 2
      BY <3>1
    <3>3. Len(up') \in Nat
      BY <3>1
    <3> QED
      BY <3>2, <3>3, Bounds
  <2> QED
    BY <1>1, <1>2, <2>4, <2>5 DEF TypeInv, QueueOK
<1> QED
  BY <1>3, <1>4

LEMMA ReportSteps ==
    ASSUME TypeInv, Ingest \/ Age \/ SweepRead \/ SweepWrite
    PROVE  TypeInv'
<1>1. RequestsOK'
  BY DEF Ingest, Age, SweepRead, SweepWrite, desiredVars, TypeInv, RequestsOK
<1>2. CASE Ingest
  <2> DEFINE r == Head(up)
  <2>1. up \in Seq(Message) /\ up # <<>>
    BY <1>2 DEF Ingest, TypeInv, QueueOK
  <2>2. r \in Message /\ Tail(up) \in Seq(Message) /\ Len(Tail(up)) = Len(up) - 1 /\ Len(up) \in Nat
    BY <2>1, HeadTailProperties
  <2>3. /\ up' = Tail(up) /\ UNCHANGED <<lightVars, cloud, retained, sweep, desiredVars>>
        /\ \/ UNCHANGED reportVars
           \/ /\ reported' = [online |-> r.online, on |-> r.on] /\ recent' = TRUE
              /\ recorded' = recorded \cup ({r.id} \ {NoId})
    BY <1>2 DEF Ingest, Record
  <2> HIDE DEF r
  <2>4. r.online \in BOOLEAN /\ r.on \in BOOLEAN /\ r.id \in MsgId \cup {NoId}
    BY <2>2 DEF Message
  <2>5. recorded' \subseteq MsgId /\ reported' \in Reported /\ recent' \in BOOLEAN
    <3>1. recorded \subseteq MsgId /\ reported \in Reported /\ recent \in BOOLEAN
      BY DEF TypeInv, ShadowOK
    <3>2. [online |-> r.online, on |-> r.on] \in Reported
      BY <2>4 DEF Reported
    <3>3. recorded \cup ({r.id} \ {NoId}) \subseteq MsgId
      BY <2>4, <3>1
    <3>4. CASE UNCHANGED reportVars
      BY <3>1, <3>4 DEF reportVars
    <3> QED
      BY <2>3, <3>2, <3>3, <3>4
  <2>6. Len(up') <= IF light.up THEN MaxQueue ELSE MaxQueue + 1
    <3>1. Len(up) <= IF light.up THEN MaxQueue ELSE MaxQueue + 1
      BY DEF TypeInv, QueueOK
    <3> QED
      BY <2>2, <2>3, <3>1, Bounds
  <2>7. QueueOK'
    BY <2>2, <2>3, <2>6 DEF lightVars, TypeInv, QueueOK
  <2>8. ShadowOK'
    BY <2>3, <2>5 DEF lightVars, desiredVars, TypeInv, ShadowOK
  <2> QED
    BY <1>1, <2>7, <2>8 DEF TypeInv
<1>3. CASE Age \/ SweepRead \/ SweepWrite
  <2>1. QueueOK'
    BY <1>3 DEF Age, SweepRead, SweepWrite, lightVars, brokerVars, TypeInv, QueueOK
  <2>2. ShadowOK'
    <3>1. /\ reported \in Reported
          /\ sweep \in [pc : {"idle", "write"}, base : Reported]
      BY DEF TypeInv, ShadowOK
    <3>2. reported' \in Reported /\ recent' \in BOOLEAN
      <4>1. [sweep.base EXCEPT !.online = FALSE] \in Reported
        BY <3>1 DEF Reported
      <4> QED
        BY <1>3, <3>1, <4>1 DEF Age, SweepRead, SweepWrite, reportVars, TypeInv, ShadowOK
    <3>3. sweep' \in [pc : {"idle", "write"}, base : Reported]
      <4>1. [online |-> FALSE, on |-> FALSE] \in Reported
        BY DEF Reported
      <4>2. \/ sweep' = [pc |-> "write", base |-> reported]
            \/ sweep' = [pc |-> "idle", base |-> [online |-> FALSE, on |-> FALSE]]
            \/ sweep' = sweep
        BY <1>3 DEF Age, SweepRead, SweepWrite
      <4>3. /\ [pc |-> "write", base |-> reported] \in [pc : {"idle", "write"}, base : Reported]
            /\ [pc |-> "idle", base |-> [online |-> FALSE, on |-> FALSE]]
                 \in [pc : {"idle", "write"}, base : Reported]
        BY <3>1, <4>1
      <4> QED
        BY <3>1, <4>2, <4>3
    <3>4. UNCHANGED <<light, down, unsent, cloud, recorded, desired, version, applied, published>>
      BY <1>3 DEF Age, SweepRead, SweepWrite, lightVars, brokerVars, reportVars, desiredVars
    <3> QED
      BY <3>2, <3>3, <3>4 DEF TypeInv, ShadowOK
  <2> QED
    BY <1>1, <2>1, <2>2 DEF TypeInv
<1> QED
  BY <1>2, <1>3

\* A request moves to what r says; the rest of its step is typed.
LEMMA RequestMoves ==
    ASSUME TypeInv, NEW t \in Threads, NEW r, RequestOK(r), http' = [http EXCEPT ![t] = r],
           UNCHANGED <<light, up, retained>>, ShadowOK'
    PROVE  TypeInv'
<1>1. RequestsOK'
  BY DEF TypeInv, RequestsOK
<1>2. QueueOK'
  BY DEF TypeInv, QueueOK
<1> QED
  BY <1>1, <1>2 DEF TypeInv

LEMMA RequestSteps ==
    ASSUME TypeInv, NEW t \in Threads,
           RequestOffline(t) \/ (\E m \in Mid : RequestPatch(t, m)) \/ HttpStep(t)
    PROVE  TypeInv'
<1>1. RequestOK(http[t])
  BY DEF TypeInv, RequestsOK
<1>2. RequestOK(HttpIdle)
  BY DEF RequestOK, HttpIdle, CmdTopic
<1> USE DEF lightVars, brokerVars, reportVars
<1>3. CASE RequestOffline(t)
  <2> DEFINE r == [pc |-> "offline", mid |-> NoMid, base |-> reported]
  <2>1. RequestOK(r)
    BY DEF RequestOK, CmdTopic, TypeInv, ShadowOK
  <2>2. http' = [http EXCEPT ![t] = r] /\ UNCHANGED <<light, up, retained>>
    BY <1>3 DEF RequestOffline
  <2>3. ShadowOK'
    BY <1>3 DEF RequestOffline, TypeInv, ShadowOK
  <2> HIDE DEF r
  <2> QED
    BY <2>1, <2>2, <2>3, RequestMoves
<1>4. ASSUME NEW m \in Mid, RequestPatch(t, m) PROVE TypeInv'
  <2> DEFINE r == [pc |-> "check", mid |-> m, base |-> desired]
  <2>1. RequestOK(r)
    BY DEF RequestOK, CmdTopic, TypeInv, ShadowOK
  <2>2. http' = [http EXCEPT ![t] = r] /\ UNCHANGED <<light, up, retained>>
    BY <1>4 DEF RequestPatch
  <2>3. ShadowOK'
    BY <1>4 DEF RequestPatch, TypeInv, ShadowOK
  <2> HIDE DEF r
  <2> QED
    BY <2>1, <2>2, <2>3, RequestMoves
<1>5. CASE MarkOffline(t)
  <2>1. reported' \in Reported
    BY <1>1, <1>5 DEF MarkOffline, RequestOK, Reported
  <2>2. ShadowOK'
    BY <1>5, <2>1 DEF MarkOffline, TypeInv, ShadowOK
  <2> QED
    BY <1>2, <1>5, <2>2, RequestMoves DEF MarkOffline, Finish
<1>6. CASE CheckPatch(t)
  <2> DEFINE r == [pc |-> "write", mid |-> http[t].mid, base |-> http[t].base]
  <2>1. RequestOK(r)
    BY <1>1, <1>6 DEF CheckPatch, RequestOK, CmdTopic
  <2>2. /\ http' = [http EXCEPT ![t] = r] \/ http' = [http EXCEPT ![t] = HttpIdle]
        /\ UNCHANGED <<light, up, retained>>
    BY <1>6 DEF CheckPatch, AnswerUnchanged, Goto, Finish
  <2>3. ShadowOK'
    BY <1>6 DEF CheckPatch, TypeInv, ShadowOK
  <2> HIDE DEF r
  <2> QED
    BY <1>2, <2>1, <2>2, <2>3, RequestMoves
<1>7. CASE WritePatch(t)
  <2> DEFINE m == http[t].mid
             r == [pc |-> "publish", mid |-> m, base |-> http[t].base]
  <2>1. m \in Mid /\ DOMAIN http[t].base \subseteq {"on", "color"}
    BY <1>1, <1>7 DEF WritePatch, RequestOK
  <2>2. RequestOK(r)
    BY <2>1 DEF RequestOK, CmdTopic
  <2>3. /\ \/ /\ http' = [http EXCEPT ![t] = HttpIdle]
              /\ UNCHANGED <<desired, version, applied>>
           \/ /\ http' = [http EXCEPT ![t] = r] /\ desired' = Merge(http[t].base, Patches[m])
              /\ version' = version + 1 /\ applied' = applied \cup {m}
        /\ UNCHANGED <<lightVars, brokerVars, reportVars, sweep, published>>
    BY <1>7 DEF WritePatch, Goto, Finish
  <2>4. DOMAIN Merge(http[t].base, Patches[m]) \subseteq {"on", "color"}
    BY <2>1, ShadowAssumption DEF Merge, Mid
  <2> HIDE DEF r
  <2>5. DOMAIN desired' \subseteq {"on", "color"} /\ version' \in Nat /\ applied' \subseteq Mid
    BY <2>1, <2>3, <2>4 DEF TypeInv, ShadowOK
  <2>6. ShadowOK'
    BY <2>3, <2>5 DEF TypeInv, ShadowOK
  <2> QED
    BY <1>2, <2>2, <2>3, <2>6, RequestMoves
<1>8. CASE PublishPatch(t)
  <2> DEFINE r == [pc |-> "normalized", mid |-> http[t].mid, base |-> http[t].base]
  <2>1. Patches[http[t].mid]["on"] \in BOOLEAN => RequestOK(r)
    BY <1>1, <1>8 DEF PublishPatch, RequestOK, CmdTopic
  <2>2. /\ \/ http' = [http EXCEPT ![t] = r] /\ Patches[http[t].mid]["on"] \in BOOLEAN
           \/ http' = [http EXCEPT ![t] = HttpIdle]
        /\ UNCHANGED <<light, up, retained>>
    BY <1>8 DEF PublishPatch, Goto, Finish
  <2>3. ShadowOK'
    BY <1>8 DEF PublishPatch, TypeInv, ShadowOK
  <2> HIDE DEF r
  <2> QED
    BY <1>2, <2>1, <2>2, <2>3, RequestMoves
<1>9. CASE PublishNormalized(t) \/ PublishLegacy(t)
  <2> DEFINE m == http[t].mid
             r == [pc |-> "legacy", mid |-> m, base |-> http[t].base]
  <2>1. PICK topic \in CmdTopic : http[t].pc = topic /\ PublishOn(t, topic)
    BY <1>9 DEF PublishNormalized, PublishLegacy, PublishOn, CmdTopic
  <2>2. m \in Mid /\ Patches[m]["on"] \in BOOLEAN
    BY <1>1, <2>1 DEF RequestOK
  <2>3. RequestOK(r)
    BY <2>2 DEF RequestOK, CmdTopic
  <2>4. http' = [http EXCEPT ![t] = r] \/ http' = [http EXCEPT ![t] = HttpIdle]
    BY <1>9 DEF PublishNormalized, PublishLegacy, Goto, Finish
  <2> HIDE DEF m, r
  <2>5. /\ UNCHANGED <<light, brokerVars, reportVars, sweep, desired, version, applied>>
        /\ published' = [published EXCEPT ![m][topic] = @ + 1]
        /\ \/ Command(<<Patches[m]["on"]>>) /\ UNCHANGED unsent
           \/ unsent' = Append(unsent, Patches[m]["on"]) /\ UNCHANGED down
    BY <2>1 DEF PublishOn, m
  <2>6. down' \in Seq(BOOLEAN) /\ unsent' \in Seq(BOOLEAN)
    <3> DEFINE on == Patches[m]["on"]
    <3>1. on \in BOOLEAN /\ ShadowOK /\ down \in Seq(BOOLEAN) /\ unsent \in Seq(BOOLEAN)
      BY <2>2 DEF TypeInv, ShadowOK
    <3> HIDE DEF on
    <3>2. <<on>> \in Seq(BOOLEAN) /\ Append(unsent, on) \in Seq(BOOLEAN)
      BY <3>1
    <3>3. Command(<<on>>) => down' \in Seq(BOOLEAN)
      BY <3>1, <3>2, CommandTypes
    <3> QED
      BY <2>5, <3>1, <3>2, <3>3 DEF on
  <2>7. published' \in [Mid -> [CmdTopic -> Nat]]
    <3>1. published \in [Mid -> [CmdTopic -> Nat]]
      BY DEF TypeInv, ShadowOK
    <3> QED
      BY <2>2, <2>5, <3>1
  <2>8. ShadowOK'
    BY <2>5, <2>6, <2>7 DEF TypeInv, ShadowOK
  <2> QED
    BY <1>2, <2>3, <2>4, <2>5, <2>8, RequestMoves
<1> QED
  BY <1>3, <1>4, <1>5, <1>6, <1>7, <1>8, <1>9 DEF HttpStep

LEMMA TypeInvStep == TypeInv /\ [Next]_vars => TypeInv'
<1> SUFFICES ASSUME TypeInv, [Next]_vars PROVE TypeInv'
  OBVIOUS
<1>1. CASE UNCHANGED vars
  BY <1>1 DEF vars, lightVars, brokerVars, reportVars, desiredVars, TypeInv, ShadowOK, QueueOK,
              RequestsOK
<1> QED
  BY <1>1, LightSteps, ConnectSteps, ReportSteps, RequestSteps DEF Next

\* Every value of the shadow has its type, there is always a fresh id for a status, and no more
\* than MaxQueue + 1 messages wait for the bridge: the last will always finds room.
THEOREM ShadowTypeOK == Spec => []TypeOK
<1>1. Spec => []TypeInv
  BY TypeInvInit, TypeInvStep, PTL DEF Spec
<1> QED
  BY <1>1, TypeInvImplies, PTL
=============================================================================
