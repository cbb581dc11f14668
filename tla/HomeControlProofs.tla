-------------------------- MODULE HomeControlProofs --------------------------
(***************************************************************************)
(* Proofs about groups, scenes and automations, for any number of lights,  *)
(* HTTP threads, group commands, requests, edits and lost publications.    *)
(***************************************************************************)
EXTENDS HomeControl, FiniteSetTheorems, SequenceTheorems, TLAPS

-----------------------------------------------------------------------------
(* A set of lights in the order of their ids *)

LEMMA LightsFinite ==
    /\ IsFiniteSet(Light) /\ Cardinality(Light) = NumLights /\ Light \subseteq Nat \ {0}
    /\ \A S \in SUBSET Light : /\ IsFiniteSet(S) /\ Cardinality(S) \in 0..NumLights
                               /\ S = {} <=> Cardinality(S) = 0
<1>1. IsFiniteSet(Light) /\ Cardinality(Light) = NumLights /\ Light \subseteq Nat \ {0}
  BY HomeAssumption, FS_Interval DEF Light
<1>2. ASSUME NEW S \in SUBSET Light PROVE IsFiniteSet(S) /\ Cardinality(S) <= NumLights
  BY <1>1, FS_Subset
<1>3. ASSUME NEW S \in SUBSET Light PROVE Cardinality(S) \in Nat /\ (S = {} <=> Cardinality(S) = 0)
  BY <1>2, FS_CardinalityType, FS_EmptySet
<1> QED
  BY <1>1, <1>2, <1>3, HomeAssumption

\* Induction over sets of lights, as a smallest set for which something fails.
LEMMA Smallest ==
    ASSUME NEW Bad \in SUBSET (SUBSET Light), Bad # {}
    PROVE  \E S \in Bad : \A x \in S : S \ {x} \notin Bad
<1>1. /\ IsWellFoundedOn(StrictSubsetOrdering(Light), FiniteSubsetsOf(Light))
      /\ FiniteSubsetsOf(Light) = SUBSET Light
  BY LightsFinite, FS_StrictSubsetOrderingWellFounded, FS_FiniteSubsetsOfFinite
<1>2. PICK S \in Bad : \A T \in Bad : <<T, S>> \notin StrictSubsetOrdering(Light)
  BY <1>1, WFMin
<1>3. ASSUME NEW x \in S, S \ {x} \in Bad PROVE FALSE
  <2>1. <<S \ {x}, S>> \in (SUBSET Light) \X (SUBSET Light) /\ S \ {x} # S
    BY <1>3
  <2> QED
    BY <1>2, <1>3, <2>1 DEF StrictSubsetOrdering
<1> QED
  BY <1>2, <1>3

LEMMA Greatest == \A S \in SUBSET Light : S # {} => \E m \in S : \A x \in S : x <= m
<1> DEFINE Bad == {S \in SUBSET Light : S # {} /\ ~\E m \in S : \A x \in S : x <= m}
<1> SUFFICES ASSUME Bad # {} PROVE FALSE
  OBVIOUS
<1>1. PICK S \in Bad : \A x \in S : S \ {x} \notin Bad
  BY Smallest
<1>2. PICK x \in S : TRUE
  OBVIOUS
<1>3. S \ {x} # {} => \E m \in S \ {x} : \A y \in S \ {x} : y <= m
  BY <1>1, <1>2
<1>4. S \subseteq Nat
  BY LightsFinite
<1>5. CASE S \ {x} = {}
  <2>1. \A y \in S : y <= x
    BY <1>2, <1>4, <1>5
  <2> QED
    BY <1>2, <2>1
<1>6. CASE S \ {x} # {}
  <2>1. PICK m \in S \ {x} : \A y \in S \ {x} : y <= m
    BY <1>3, <1>6
  <2>2. CASE x <= m
    BY <1>2, <2>1, <2>2
  <2>3. CASE ~(x <= m)
    <3>1. \A y \in S : y <= x
      BY <1>2, <1>4, <2>1, <2>3
    <3> QED
      BY <1>2, <3>1
  <2> QED
    BY <2>2, <2>3
<1> QED
  BY <1>5, <1>6

Ordered(s) == \A i, j \in DOMAIN s : i < j => s[i] < s[j]

LEMMA Enumerated == \A S \in SUBSET Light : \E s \in [1..Cardinality(S) -> S] : Ordered(s)
<1> DEFINE Bad == {S \in SUBSET Light : ~\E s \in [1..Cardinality(S) -> S] : Ordered(s)}
<1> SUFFICES ASSUME Bad # {} PROVE FALSE
  OBVIOUS
<1>1. PICK S \in Bad : \A x \in S : S \ {x} \notin Bad
  BY Smallest
<1>2. S \subseteq Nat /\ IsFiniteSet(S) /\ Cardinality(S) \in Nat
  BY LightsFinite
<1>3. CASE S = {}
  <2>1. 1..Cardinality(S) = {}
    BY <1>2, <1>3, LightsFinite
  <2>2. [i \in {} |-> 0] \in [1..Cardinality(S) -> S] /\ Ordered([i \in {} |-> 0])
    BY <2>1 DEF Ordered
  <2> QED
    BY <2>2
<1>4. CASE S # {}
  <2>1. PICK m \in S : \A x \in S : x <= m
    BY <1>4, Greatest
  <2> DEFINE U == S \ {m}
             n == Cardinality(S)
  <2>2. Cardinality(U) = n - 1 /\ n # 0
    BY <1>2, <2>1, FS_RemoveElement, LightsFinite
  <2>3. PICK u \in [1..(n - 1) -> U] : Ordered(u)
    BY <1>1, <2>1, <2>2
  <2> DEFINE s == [i \in 1..n |-> IF i = n THEN m ELSE u[i]]
  <2>4. \A i \in 1..n : i = n \/ i \in 1..(n - 1)
    BY <1>2
  <2>5. s \in [1..n -> S]
    BY <2>1, <2>3, <2>4
  <2>6. ASSUME NEW i \in 1..n, NEW j \in 1..n, i < j PROVE s[i] < s[j]
    <3>1. i \in 1..(n - 1) /\ s[i] = u[i] /\ u[i] \in U
      BY <1>2, <2>3, <2>6
    <3>2. CASE j = n
      <4>1. u[i] \in Nat /\ m \in Nat /\ u[i] <= m /\ u[i] # m
        BY <1>2, <2>1, <3>1
      <4> QED
        BY <3>1, <3>2, <4>1
    <3>3. CASE j # n
      BY <2>3, <2>4, <2>6, <3>1, <3>3 DEF Ordered
    <3> QED
      BY <3>2, <3>3
  <2>7. Ordered(s)
    BY <2>6 DEF Ordered
  <2> QED
    BY <2>5, <2>7
<1> QED
  BY <1>3, <1>4

\* An ordered enumeration names every light of the set once.
LEMMA OrderedOnce ==
    ASSUME NEW S \in SUBSET Light, NEW s \in [1..Cardinality(S) -> S], Ordered(s)
    PROVE  /\ \A i, j \in 1..Cardinality(S) : s[i] = s[j] => i = j
           /\ \A d \in S : \E i \in 1..Cardinality(S) : s[i] = d
<1> DEFINE n == Cardinality(S)
<1>1. n \in Nat /\ IsFiniteSet(S) /\ S \subseteq Nat
  BY LightsFinite
<1>2. ASSUME NEW i \in 1..n, NEW j \in 1..n, s[i] = s[j] PROVE i = j
  <2>1. i \in Nat /\ j \in Nat /\ s[i] \in Nat
    <3>1. i \in Nat /\ j \in Nat
      BY <1>1
    <3>2. s[i] \in S
      OBVIOUS
    <3>3. s[i] \in Nat
      BY <1>1, <3>2
    <3> QED
      BY <3>1, <3>3
  <2>2. ~(i < j) /\ ~(j < i)
    BY <1>2, <2>1 DEF Ordered
  <2> QED
    BY <2>1, <2>2
<1>3. s \in Injection(1..n, S)
  BY <1>2 DEF Injection, IsInjective
<1>4. IsFiniteSet(1..n) /\ Cardinality(1..n) = n
  BY <1>1, FS_Interval
<1>5. s \in Surjection(1..n, S)
  BY <1>1, <1>3, <1>4, FS_Injection
<1> QED
  BY <1>2, <1>5 DEF Surjection

InOrder(S) == CHOOSE s \in [1..Cardinality(S) -> S] : \A i, j \in DOMAIN s : i < j => s[i] < s[j]

LEMMA InOrderFacts ==
    ASSUME NEW S \in SUBSET Light
    PROVE  /\ Cardinality(S) \in 0..NumLights /\ InOrder(S) \in [1..Cardinality(S) -> S]
           /\ \A i, j \in 1..Cardinality(S) : InOrder(S)[i] = InOrder(S)[j] => i = j
           /\ \A d \in S : \E k \in 1..Cardinality(S) : InOrder(S)[k] = d
<1>1. \E s \in [1..Cardinality(S) -> S] : \A i, j \in DOMAIN s : i < j => s[i] < s[j]
  BY Enumerated DEF Ordered
<1>2. InOrder(S) \in [1..Cardinality(S) -> S] /\ Ordered(InOrder(S))
  BY <1>1 DEF InOrder, Ordered
<1> QED
  BY <1>2, OrderedOnce, LightsFinite

\* list_group_member_ids and get_scene_actions list every light once.
LEMMA MemberSeqFacts ==
    ASSUME members \subseteq Light
    PROVE  /\ Cardinality(members) \in 0..NumLights
           /\ MemberSeq \in [1..Cardinality(members) -> members]
           /\ \A i, j \in 1..Cardinality(members) : MemberSeq[i] = MemberSeq[j] => i = j
           /\ \A d \in members : \E k \in 1..Cardinality(members) : MemberSeq[k] = d
<1>1. MemberSeq = InOrder(members)
  BY DEF MemberSeq, InOrder
<1> QED
  BY <1>1, InOrderFacts

LEMMA ActionSeqFacts ==
    ASSUME DOMAIN scene \subseteq Light
    PROVE  /\ Cardinality(DOMAIN scene) \in 0..NumLights
           /\ ActionSeq \in [1..Cardinality(DOMAIN scene) -> DOMAIN scene]
<1>1. \E s \in [1..Cardinality(DOMAIN scene) -> DOMAIN scene] :
         \A i, j \in DOMAIN s : i < j => s[i] < s[j]
  BY Enumerated DEF Ordered
<1> QED
  BY <1>1, LightsFinite DEF ActionSeq

-----------------------------------------------------------------------------
(* What a thread has to do *)

Working == {"check", "write", "publish", "legacy"}
StepsFor(m) == {s \in Step : IF m = NoMid THEN s.id = NoId ELSE s.id \in {m} \X Light}
ThreadType == [pc : {"idle", "check", "write", "publish", "legacy", "rule", "device", "group",
                     "scene", "dead"},
               mid : Mid \cup {NoMid}, todo : Seq(Step)]

\* A thread has a list exactly while it works on it, the list is for one message id or for none,
\* and no longer than there are lights.
GoodThread == {r \in ThreadType :
    /\ r.todo \in Seq(StepsFor(r.mid)) /\ Len(r.todo) <= NumLights
    /\ r.pc \in Working <=> r.todo # <<>>
    /\ r.pc \notin Working => r.mid = NoMid}

LEMMA Mids == /\ Mid \subseteq Nat \ {0} /\ NoMid \notin Mid /\ NoId \notin Mid \X Light
              /\ \A m \in Mid : Commands[m] \in BOOLEAN
              /\ "paho" \in Thread /\ Http \subseteq Thread
<1>1. Mid = 1..Len(Commands) /\ Len(Commands) \in Nat /\ \A m \in Mid : Commands[m] \in BOOLEAN
  BY HomeAssumption DEF Mid
<1>2. 0 \notin Mid /\ Mid \subseteq Nat \ {0}
  BY <1>1
<1> QED
  BY <1>1, <1>2 DEF NoMid, NoId, Thread

LEMMA TodoTypes ==
    ASSUME NEW m \in Mid \cup {NoMid}
    PROVE  /\ StepsFor(m) \subseteq Step
           /\ \A todo \in Seq(StepsFor(m)) : todo \in Seq(Step)
           /\ Idle \in GoodThread /\ Idle.pc = "idle" /\ Idle.mid = NoMid /\ Idle.todo = <<>>
           /\ \A todo \in Seq(StepsFor(m)), pc \in Working :
                Len(todo) <= NumLights /\ todo # <<>> =>
                  [pc |-> pc, mid |-> m, todo |-> todo] \in GoodThread
<1>1. StepsFor(m) \subseteq Step
  BY DEF StepsFor
<1>2. \A todo \in Seq(StepsFor(m)) : todo \in Seq(Step)
  BY <1>1, SeqMonotonic
<1>3. Idle \in GoodThread
  <2>1. <<>> \in Seq(Step) /\ <<>> \in Seq(StepsFor(NoMid)) /\ Len(<<>>) = 0
    BY EmptySeq
  <2>2. Idle \in ThreadType /\ Idle.pc = "idle" /\ Idle.mid = NoMid /\ Idle.todo = <<>>
    BY <2>1 DEF Idle, ThreadType
  <2>3. 0 <= NumLights
    BY HomeAssumption
  <2> QED
    BY <2>1, <2>2, <2>3 DEF GoodThread, Working
<1>4. ASSUME NEW todo \in Seq(StepsFor(m)), NEW pc \in Working, Len(todo) <= NumLights, todo # <<>>
      PROVE  [pc |-> pc, mid |-> m, todo |-> todo] \in GoodThread
  BY <1>2, <1>4 DEF GoodThread, ThreadType, Working
<1> QED
  BY <1>1, <1>2, <1>3, <1>4 DEF Idle

\* A function on 1..n is a sequence.
LEMMA Listed ==
    ASSUME NEW S, NEW n \in Nat, NEW f \in [1..n -> S]
    PROVE  f \in Seq(S) /\ Len(f) = n
<1>1. f \in Seq(S)
  BY SeqDef
<1>2. DOMAIN f = 1..n /\ DOMAIN f = 1..Len(f) /\ Len(f) \in Nat
  BY <1>1, LenProperties
<1> QED
  BY <1>1, <1>2

LEMMA GroupTodoType ==
    ASSUME members \subseteq Light, NEW m \in Mid \cup {NoMid}, NEW on \in BOOLEAN
    PROVE  /\ GroupTodo(m, on) \in Seq(StepsFor(m)) /\ Len(GroupTodo(m, on)) = Cardinality(members)
           /\ \A k \in 1..Cardinality(members) : /\ GroupTodo(m, on)[k].light = MemberSeq[k]
                                                 /\ GroupTodo(m, on)[k].id = Scoped(m, k)
<1> DEFINE n == Cardinality(members)
<1>1. n \in 0..NumLights /\ MemberSeq \in [1..n -> members]
  BY MemberSeqFacts
<1>2. n \in Nat /\ 1..n \subseteq Light
  BY <1>1, HomeAssumption DEF Light
<1>3. ASSUME NEW k \in 1..n
      PROVE  [light |-> MemberSeq[k], on |-> on, id |-> Scoped(m, k)] \in StepsFor(m)
  <2>1. MemberSeq[k] \in Light /\ k \in Light
    BY <1>1, <1>2
  <2>2. CASE m = NoMid
    BY <2>1, <2>2 DEF StepsFor, Step, Scoped
  <2>3. CASE m # NoMid
    <3>1. <<m, k>> \in {m} \X Light /\ <<m, k>> \in Mid \X Light
      BY <2>1, <2>3
    <3> QED
      BY <2>1, <2>3, <3>1 DEF StepsFor, Step, Scoped
  <2> QED
    BY <2>2, <2>3
<1>4. GroupTodo(m, on) \in [1..n -> StepsFor(m)]
  BY <1>1, <1>3 DEF GroupTodo
<1>5. GroupTodo(m, on) \in Seq(StepsFor(m)) /\ Len(GroupTodo(m, on)) = n
  BY <1>2, <1>4, Listed
<1> QED
  BY <1>1, <1>5 DEF GroupTodo

LEMMA SceneTodoType ==
    ASSUME scene \in Scenes
    PROVE  SceneTodo \in Seq(StepsFor(NoMid)) /\ Len(SceneTodo) <= NumLights
<1>1. PICK S \in SUBSET Light : scene = [d \in S |-> TRUE]
  BY DEF Scenes
<1> DEFINE n == Cardinality(S)
<1>2. n \in 0..NumLights /\ ActionSeq \in [1..n -> S] /\ DOMAIN scene = S
  BY <1>1, ActionSeqFacts
<1>3. ASSUME NEW k \in 1..n
      PROVE  [light |-> ActionSeq[k], on |-> scene[ActionSeq[k]], id |-> NoId] \in StepsFor(NoMid)
  <2>1. ActionSeq[k] \in Light /\ scene[ActionSeq[k]] \in BOOLEAN
    BY <1>1, <1>2
  <2> QED
    BY <2>1 DEF StepsFor, Step
<1>4. SceneTodo \in [1..n -> StepsFor(NoMid)]
  BY <1>2, <1>3 DEF SceneTodo
<1> QED
  BY <1>2, <1>4, Listed, HomeAssumption

\* GoOn starts a thread on what is left of its list, and answers when nothing is.
LEMMA GoingOn ==
    ASSUME thread \in [Thread -> GoodThread], answered \subseteq Mid,
           NEW t \in Thread, NEW m \in Mid \cup {NoMid},
           NEW todo \in Seq(StepsFor(m)), Len(todo) <= NumLights, GoOn(t, m, todo)
    PROVE  /\ thread' \in [Thread -> GoodThread] /\ answered' \subseteq Mid
           /\ \A u \in Thread \ {t} : thread'[u] = thread[u]
           /\ \/ /\ todo = <<>> /\ thread'[t] = Idle
                 /\ answered' = IF m = NoMid THEN answered ELSE answered \cup {m}
              \/ /\ todo # <<>> /\ answered' = answered
                 /\ thread'[t] = [pc |-> "check", mid |-> m, todo |-> todo]
<1>1. CASE todo = <<>>
  BY <1>1, TodoTypes DEF GoOn, Answer
<1>2. CASE todo # <<>>
  <2>1. [pc |-> "check", mid |-> m, todo |-> todo] \in GoodThread
    BY <1>2, TodoTypes DEF Working
  <2> QED
    BY <1>2, <2>1 DEF GoOn
<1> QED
  BY <1>1, <1>2

LEMMA Heads ==
    ASSUME thread \in [Thread -> GoodThread], NEW t \in Thread, thread[t].todo # <<>>
    PROVE  /\ thread[t] \in GoodThread /\ thread[t] \in ThreadType
           /\ thread[t].mid \in Mid \cup {NoMid} /\ thread[t].pc \in Working
           /\ thread[t].todo \in Seq(StepsFor(thread[t].mid))
           /\ Len(thread[t].todo) \in Nat \ {0} /\ Len(thread[t].todo) <= NumLights
           /\ Head(thread[t].todo) \in StepsFor(thread[t].mid)
           /\ Head(thread[t].todo) = thread[t].todo[1]
           /\ Tail(thread[t].todo) \in Seq(StepsFor(thread[t].mid))
           /\ Len(Tail(thread[t].todo)) = Len(thread[t].todo) - 1
           /\ \A i \in 1..(Len(thread[t].todo) - 1) :
                Tail(thread[t].todo)[i] = thread[t].todo[i + 1]
<1>1. thread[t] \in GoodThread
  OBVIOUS
<1>2. /\ thread[t] \in ThreadType /\ thread[t].mid \in Mid \cup {NoMid} /\ thread[t].pc \in Working
      /\ thread[t].todo \in Seq(StepsFor(thread[t].mid)) /\ Len(thread[t].todo) <= NumLights
  BY <1>1 DEF GoodThread, ThreadType
<1>3. Len(thread[t].todo) \in Nat \ {0}
  BY <1>2, EmptySeq
<1>4. /\ Head(thread[t].todo) \in StepsFor(thread[t].mid)
      /\ Tail(thread[t].todo) \in Seq(StepsFor(thread[t].mid))
      /\ Len(Tail(thread[t].todo)) = Len(thread[t].todo) - 1
      /\ \A i \in 1..Len(Tail(thread[t].todo)) : Tail(thread[t].todo)[i] = thread[t].todo[i + 1]
  BY <1>2, HeadTailProperties
<1>5. Head(thread[t].todo) = thread[t].todo[1]
  BY <1>2
<1> QED
  BY <1>1, <1>2, <1>3, <1>4, <1>5

-----------------------------------------------------------------------------
(* Type invariant *)

\* TypeOK but for the threads
DataOK ==
    /\ kept \subseteq {"group", "scene"}
    /\ members \subseteq Light /\ scene \in Scenes
    /\ rule \in [enabled : BOOLEAN, action : {"device", "group", "scene"}]
    /\ reported \in BOOLEAN
    /\ desired \in [Light -> BOOLEAN] /\ light \in [Light -> BOOLEAN]
    /\ processed \subseteq Mid \X Light
    /\ given \in [Mid -> [Light -> Nat]]
    /\ answered \subseteq Mid /\ touched \subseteq Mid
    /\ spent \in [requests : 0..MaxRequests, edits : 0..MaxEdits, faults : 0..MaxFaults]

TypeInv == DataOK /\ thread \in [Thread -> GoodThread]

LEMMA TypeInvImplies == TypeInv => TypeOK
<1> SUFFICES ASSUME TypeInv PROVE TypeOK
  OBVIOUS
<1>1. \A t \in Thread : thread[t] \in ThreadType /\ Len(thread[t].todo) <= NumLights
  BY DEF TypeInv, GoodThread
<1>2. thread \in [Thread -> ThreadType]
  BY <1>1 DEF TypeInv
<1> QED
  BY <1>1, <1>2 DEF TypeInv, DataOK, TypeOK, ThreadType

LEMMA EmptyScene == <<>> \in Scenes
<1>1. [d \in {} |-> TRUE] \in [1..0 -> BOOLEAN]
  OBVIOUS
<1>2. [d \in {} |-> TRUE] \in Seq(BOOLEAN) /\ Len([d \in {} |-> TRUE]) = 0
  BY <1>1, Listed
<1>3. [d \in {} |-> TRUE] = <<>>
  BY <1>2, EmptySeq
<1> QED
  BY <1>3 DEF Scenes

LEMMA TypeInvInit == Init => TypeInv
<1> SUFFICES ASSUME Init PROVE TypeInv
  OBVIOUS
<1>1. thread \in [Thread -> GoodThread]
  <2>1. NoMid \in Mid \cup {NoMid}
    OBVIOUS
  <2> QED
    BY <2>1, TodoTypes DEF Init
<1>2. scene \in Scenes /\ members \subseteq Light
  BY HomeAssumption DEF Init, Scenes, Light
<1>3. spent \in [requests : 0..MaxRequests, edits : 0..MaxEdits, faults : 0..MaxFaults]
  BY HomeAssumption DEF Init
<1>4. given \in [Mid -> [Light -> Nat]]
  BY DEF Init
<1>5. desired \in [Light -> BOOLEAN] /\ light \in [Light -> BOOLEAN]
  BY DEF Init
<1> QED
  BY <1>1, <1>2, <1>3, <1>4, <1>5 DEF Init, TypeInv, DataOK

SpentType == [requests : 0..MaxRequests, edits : 0..MaxEdits, faults : 0..MaxFaults]

LEMMA SpentTypes ==
    ASSUME spent \in SpentType
    PROVE  /\ spent.requests < MaxRequests => [spent EXCEPT !.requests = @ + 1] \in SpentType
           /\ spent.edits < MaxEdits => [spent EXCEPT !.edits = @ + 1] \in SpentType
           /\ spent.faults < MaxFaults => [spent EXCEPT !.faults = @ + 1] \in SpentType
<1>1. /\ spent.requests \in 0..MaxRequests /\ spent.edits \in 0..MaxEdits
      /\ spent.faults \in 0..MaxFaults
  BY DEF SpentType
<1>2. /\ spent.requests < MaxRequests => spent.requests + 1 \in 0..MaxRequests
      /\ spent.edits < MaxEdits => spent.edits + 1 \in 0..MaxEdits
      /\ spent.faults < MaxFaults => spent.faults + 1 \in 0..MaxFaults
  <2>1. \A max \in Nat : \A n \in 0..max : n < max => n + 1 \in 0..max
    OBVIOUS
  <2>2. MaxRequests \in Nat /\ MaxEdits \in Nat /\ MaxFaults \in Nat
    BY HomeAssumption
  <2> QED
    BY <1>1, <2>1, <2>2
<1>3. ASSUME spent.requests < MaxRequests
      PROVE  [spent EXCEPT !.requests = @ + 1] \in SpentType
  BY <1>2, <1>3 DEF SpentType
<1>4. ASSUME spent.edits < MaxEdits PROVE [spent EXCEPT !.edits = @ + 1] \in SpentType
  BY <1>2, <1>4 DEF SpentType
<1>5. ASSUME spent.faults < MaxFaults PROVE [spent EXCEPT !.faults = @ + 1] \in SpentType
  BY <1>2, <1>5 DEF SpentType
<1> QED
  BY <1>3, <1>4, <1>5

\* The requests that edit the group, the scene or the automation
Edits ==
    \/ \E d \in Light : AddMember(d) \/ RemoveMember(d)
    \/ DeleteGroup \/ DeleteScene
    \/ \E actions \in Scenes : UpdateScene(actions)
    \/ \E enabled \in BOOLEAN, action \in {"device", "group", "scene"} :
         UpdateAutomation(enabled, action)

\* What an edit of the group does to the history: who has begun a command has seen it.
LEMMA EditSteps ==
    ASSUME TypeInv, Edits
    PROVE  /\ DataOK' /\ UNCHANGED <<deviceVars, desired, processed, thread, given, answered>>
           /\ \/ members' = members /\ touched' = touched
              \/ touched' = {m \in Mid : m \in answered \/ (\E d \in Light : given[m][d] > 0)
                                           \/ (\E t \in Thread : thread[t].mid = m)} \cup touched
<1>1. Edit
  BY DEF Edits, AddMember, RemoveMember, DeleteGroup, DeleteScene, UpdateScene, UpdateAutomation,
         EditGroup
<1>2. /\ spent' \in [requests : 0..MaxRequests, edits : 0..MaxEdits, faults : 0..MaxFaults]
      /\ UNCHANGED <<deviceVars, desired, processed, thread, given, answered>>
  BY <1>1, SpentTypes DEF Edit, TypeInv, DataOK, SpentType
<1>3. ASSUME NEW value \in SUBSET Light, EditGroup(value), kept' \subseteq kept
      PROVE  DataOK'
  BY <1>2, <1>3 DEF EditGroup, TypeInv, DataOK, deviceVars
<1>4. CASE \E d \in Light : AddMember(d) \/ RemoveMember(d)
  <2>1. PICK d \in Light : AddMember(d) \/ RemoveMember(d)
    BY <1>4
  <2>2. members \cup {d} \in SUBSET Light /\ members \ {d} \in SUBSET Light
    BY DEF TypeInv, DataOK
  <2> QED
    BY <1>2, <1>3, <2>1, <2>2 DEF AddMember, RemoveMember, EditGroup
<1>5. CASE DeleteGroup
  BY <1>2, <1>3, <1>5 DEF DeleteGroup, EditGroup
<1>6. CASE DeleteScene
  BY <1>2, <1>6, EmptyScene DEF DeleteScene, TypeInv, DataOK, deviceVars
<1>7. CASE \E actions \in Scenes : UpdateScene(actions)
  BY <1>2, <1>7 DEF UpdateScene, TypeInv, DataOK, deviceVars
<1>8. CASE \E enabled \in BOOLEAN, action \in {"device", "group", "scene"} :
             UpdateAutomation(enabled, action)
  <2>1. /\ rule' \in [enabled : BOOLEAN, action : {"device", "group", "scene"}]
        /\ UNCHANGED <<kept, members, scene, touched>>
    BY <1>8 DEF UpdateAutomation
  <2> QED
    BY <1>2, <2>1 DEF TypeInv, DataOK, deviceVars
<1> QED
  BY <1>4, <1>5, <1>6, <1>7, <1>8 DEF Edits

\* A thread moves on with its list, or without one.
LEMMA PcChange ==
    ASSUME NEW r \in GoodThread, NEW pc \in {"idle", "check", "write", "publish", "legacy",
                                             "rule", "device", "group", "scene", "dead"},
           \/ pc \in Working /\ r.pc \in Working
           \/ pc \notin Working /\ r.pc \notin Working
    PROVE  /\ [r EXCEPT !.pc = pc] \in GoodThread /\ [r EXCEPT !.pc = pc].pc = pc
           /\ [r EXCEPT !.pc = pc].mid = r.mid /\ [r EXCEPT !.pc = pc].todo = r.todo
           /\ r.pc \notin Working => r.mid = NoMid
<1>1. r \in ThreadType
  BY DEF GoodThread
<1>2. /\ [r EXCEPT !.pc = pc] \in ThreadType /\ [r EXCEPT !.pc = pc].pc = pc
      /\ [r EXCEPT !.pc = pc].mid = r.mid /\ [r EXCEPT !.pc = pc].todo = r.todo
  BY <1>1 DEF ThreadType
<1> QED
  BY <1>2 DEF GoodThread

\* The MQTT thread between two reports and before it runs an action
LEMMA PcElsewhere ==
    ASSUME NEW r \in GoodThread, NEW pc \in {"idle", "rule", "device", "group", "scene", "dead"},
           r.pc \notin Working
    PROVE  [r EXCEPT !.pc = pc] \in GoodThread /\ [r EXCEPT !.pc = pc].mid = NoMid
<1>1. pc \notin Working
  BY DEF Working
<1>2. r \in ThreadType /\ r.mid = NoMid /\ r.todo = <<>>
  BY DEF GoodThread
<1>3. /\ [r EXCEPT !.pc = pc] \in ThreadType /\ [r EXCEPT !.pc = pc].pc = pc
      /\ [r EXCEPT !.pc = pc].mid = NoMid /\ [r EXCEPT !.pc = pc].todo = r.todo
  BY <1>2 DEF ThreadType
<1> QED
  BY <1>1, <1>2, <1>3 DEF GoodThread

\* What the MQTT thread does, and the activation of a scene: there is no message id in it.
Anonymous == (\E t \in Http : ActivateScene(t)) \/ (\E value \in BOOLEAN : Ingest(value))
             \/ EvaluateRule \/ RunAction

LEMMA AnonymousSteps ==
    ASSUME TypeInv, Anonymous
    PROVE  /\ TypeInv' /\ UNCHANGED <<members, processed, given, answered, touched>>
           /\ \A u \in Thread : thread'[u] = thread[u] \/ thread'[u].mid = NoMid
<1>1. thread \in [Thread -> GoodThread] /\ answered \subseteq Mid /\ DataOK /\ "paho" \in Thread
  BY Mids DEF TypeInv, DataOK
<1>2. ASSUME NEW t \in Thread, NEW todo \in Seq(StepsFor(NoMid)), Len(todo) <= NumLights,
             GoOn(t, NoMid, todo)
      PROVE  /\ thread' \in [Thread -> GoodThread] /\ answered' = answered
             /\ \A u \in Thread : thread'[u] = thread[u] \/ thread'[u].mid = NoMid
  <2>1. NoMid \in Mid \cup {NoMid} /\ Idle.mid = NoMid
    BY DEF Idle
  <2>2. /\ thread' \in [Thread -> GoodThread] /\ \A u \in Thread \ {t} : thread'[u] = thread[u]
        /\ \/ thread'[t] = Idle /\ answered' = answered
           \/ thread'[t] = [pc |-> "check", mid |-> NoMid, todo |-> todo] /\ answered' = answered
    <3> HIDE DEF Idle
    <3> QED
      BY <1>1, <1>2, <2>1, GoingOn
  <2>3. thread'[t].mid = NoMid /\ answered' = answered
    BY <2>1, <2>2
  <2> QED
    BY <2>2, <2>3
<1>3. ASSUME NEW r \in GoodThread, r.mid = NoMid, thread' = [thread EXCEPT !["paho"] = r]
      PROVE  /\ thread' \in [Thread -> GoodThread]
             /\ \A u \in Thread : thread'[u] = thread[u] \/ thread'[u].mid = NoMid
  BY <1>1, <1>3
<1>4. ASSUME NEW t \in Http, ActivateScene(t)
      PROVE  /\ TypeInv' /\ UNCHANGED <<members, processed, given, answered, touched>>
             /\ \A u \in Thread : thread'[u] = thread[u] \/ thread'[u].mid = NoMid
  <2>1. Request(t) /\ GoOn(t, NoMid, SceneTodo) /\ t \in Thread
    BY <1>4, Mids DEF ActivateScene
  <2>2. /\ thread' \in [Thread -> GoodThread] /\ answered' = answered
        /\ \A u \in Thread : thread'[u] = thread[u] \/ thread'[u].mid = NoMid
    BY <1>1, <1>2, <2>1, SceneTodoType DEF DataOK
  <2>3. spent' \in SpentType
    BY <1>1, <2>1, SpentTypes DEF Request, DataOK, SpentType
  <2> QED
    BY <1>1, <2>1, <2>2, <2>3 DEF Request, TypeInv, DataOK, SpentType, homeVars, deviceVars
<1>5. ASSUME NEW value \in BOOLEAN, Ingest(value)
      PROVE  /\ TypeInv' /\ UNCHANGED <<members, processed, given, answered, touched>>
             /\ \A u \in Thread : thread'[u] = thread[u] \/ thread'[u].mid = NoMid
  <2> DEFINE r == [thread["paho"] EXCEPT !.pc = "rule"]
  <2>1. thread["paho"].pc = "idle" /\ thread["paho"] \in GoodThread
    BY <1>1, <1>5 DEF Ingest
  <2>2. r \in GoodThread /\ r.mid = NoMid
    <3>1. thread["paho"].pc \notin Working
      BY <2>1 DEF Working
    <3> QED
      BY <2>1, <3>1, PcElsewhere
  <2>3. thread' = [thread EXCEPT !["paho"] = r]
    BY <1>1, <1>5 DEF Ingest
  <2> HIDE DEF r
  <2> QED
    BY <1>1, <1>3, <1>5, <2>2, <2>3 DEF Ingest, TypeInv, DataOK, homeVars, historyVars
<1>6. CASE EvaluateRule
  <2> DEFINE pc == IF Triggers THEN rule.action ELSE "idle"
             r == [thread["paho"] EXCEPT !.pc = pc]
  <2>1. thread["paho"].pc = "rule" /\ thread["paho"] \in GoodThread
    BY <1>1, <1>6 DEF EvaluateRule
  <2>2. pc \in {"device", "group", "scene", "idle"}
    BY <1>1 DEF DataOK
  <2>3. r \in GoodThread /\ r.mid = NoMid
    <3>1. thread["paho"].pc \notin Working
      BY <2>1 DEF Working
    <3>2. pc \in {"idle", "rule", "device", "group", "scene", "dead"}
      BY <2>2
    <3> HIDE DEF pc
    <3> QED
      BY <2>1, <3>1, <3>2, PcElsewhere
  <2>4. thread' = [thread EXCEPT !["paho"] = r]
    BY <1>1, <1>6 DEF EvaluateRule
  <2> HIDE DEF r
  <2> QED
    BY <1>1, <1>3, <1>6, <2>3, <2>4 DEF EvaluateRule, TypeInv, DataOK, homeVars, deviceVars, historyVars
<1>7. CASE RunAction
  <2>1. UNCHANGED <<homeVars, deviceVars, desired, processed, given, touched, spent>>
    BY <1>7 DEF RunAction
  <2>2. CASE GoOn("paho", NoMid, <<[light |-> 1, on |-> TRUE, id |-> NoId]>>)
    <3> DEFINE s == [light |-> 1, on |-> TRUE, id |-> NoId]
    <3>1. s \in StepsFor(NoMid) /\ 1 <= NumLights
      BY HomeAssumption DEF StepsFor, Step, Light
    <3>2. <<s>> \in Seq(StepsFor(NoMid)) /\ Len(<<s>>) = 1
      BY <3>1
    <3> HIDE DEF s
    <3>3. /\ thread' \in [Thread -> GoodThread] /\ answered' = answered
          /\ \A u \in Thread : thread'[u] = thread[u] \/ thread'[u].mid = NoMid
      BY <1>1, <1>2, <2>2, <3>1, <3>2 DEF s
    <3> QED
      BY <1>1, <2>1, <3>3 DEF TypeInv, DataOK, homeVars, deviceVars
  <2>3. CASE GoOn("paho", NoMid, GroupTodo(NoMid, TRUE)) \/ GoOn("paho", NoMid, SceneTodo)
    <3>1. /\ GroupTodo(NoMid, TRUE) \in Seq(StepsFor(NoMid)) /\ Len(GroupTodo(NoMid, TRUE)) <= NumLights
          /\ SceneTodo \in Seq(StepsFor(NoMid)) /\ Len(SceneTodo) <= NumLights
      <4>1. members \subseteq Light /\ scene \in Scenes
        BY <1>1 DEF DataOK
      <4>2. Cardinality(members) \in 0..NumLights
        BY <4>1, LightsFinite
      <4>3. Cardinality(members) <= NumLights
        BY <4>2, HomeAssumption
      <4> QED
        BY <4>1, <4>3, GroupTodoType, SceneTodoType
    <3>2. /\ thread' \in [Thread -> GoodThread] /\ answered' = answered
          /\ \A u \in Thread : thread'[u] = thread[u] \/ thread'[u].mid = NoMid
      BY <1>1, <1>2, <2>3, <3>1
    <3> QED
      BY <1>1, <2>1, <3>2 DEF TypeInv, DataOK, homeVars, deviceVars
  <2>4. CASE /\ thread["paho"].pc \in {"group", "scene"}
             /\ thread' = [thread EXCEPT !["paho"].pc = "dead"] /\ UNCHANGED answered
    <3> DEFINE r == [thread["paho"] EXCEPT !.pc = "dead"]
    <3>1. thread["paho"] \in GoodThread /\ thread' = [thread EXCEPT !["paho"] = r]
      BY <1>1, <2>4
    <3>2. r \in GoodThread /\ r.mid = NoMid
      <4>1. thread["paho"].pc \notin Working
        BY <2>4 DEF Working
      <4> QED
        BY <3>1, <4>1, PcElsewhere
    <3> HIDE DEF r
    <3> QED
      BY <1>1, <1>3, <2>1, <2>4, <3>1, <3>2 DEF TypeInv, DataOK, homeVars, deviceVars
  <2> QED
    BY <1>7, <2>2, <2>3, <2>4 DEF RunAction
<1> QED
  BY <1>4, <1>5, <1>6, <1>7 DEF Anonymous

\* A thread reads the members of the group and what it has to do.
LEMMA CommandSteps ==
    ASSUME TypeInv, NEW t \in Http, NEW m \in Mid, CommandGroup(t, m)
    PROVE  /\ TypeInv' /\ UNCHANGED <<members, processed, given, touched>>
           /\ \A u \in Thread \ {t} : thread'[u] = thread[u]
           /\ GroupTodo(m, Commands[m]) \in Seq(StepsFor(m))
           /\ Len(GroupTodo(m, Commands[m])) = Cardinality(members)
           /\ \/ /\ GroupTodo(m, Commands[m]) = <<>> /\ thread'[t] = Idle
                 /\ answered' = answered \cup {m}
              \/ /\ answered' = answered
                 /\ thread'[t] = [pc |-> "check", mid |-> m, todo |-> GroupTodo(m, Commands[m])]
<1> DEFINE todo == GroupTodo(m, Commands[m])
<1>1. thread \in [Thread -> GoodThread] /\ answered \subseteq Mid /\ DataOK /\ t \in Thread
  BY Mids DEF TypeInv, DataOK
<1>2. Request(t) /\ GoOn(t, m, todo)
  BY DEF CommandGroup
<1>3. members \subseteq Light /\ Commands[m] \in BOOLEAN /\ m \in Mid \cup {NoMid} /\ m # NoMid
  BY <1>1, Mids DEF DataOK
<1>4. todo \in Seq(StepsFor(m)) /\ Len(todo) = Cardinality(members)
  BY <1>3, GroupTodoType
<1>5. Len(todo) <= NumLights
  <2>1. Cardinality(members) \in 0..NumLights /\ NumLights \in Nat
    BY <1>3, LightsFinite, HomeAssumption
  <2>2. Cardinality(members) <= NumLights
    BY <2>1
  <2> QED
    BY <1>4, <2>2
<1> HIDE DEF todo
<1>6. /\ thread' \in [Thread -> GoodThread] /\ answered' \subseteq Mid
      /\ \A u \in Thread \ {t} : thread'[u] = thread[u]
      /\ \/ /\ todo = <<>> /\ thread'[t] = Idle
            /\ answered' = IF m = NoMid THEN answered ELSE answered \cup {m}
         \/ /\ todo # <<>> /\ answered' = answered
            /\ thread'[t] = [pc |-> "check", mid |-> m, todo |-> todo]
  BY <1>1, <1>2, <1>3, <1>4, <1>5, GoingOn
<1>7. spent' \in SpentType
  BY <1>1, <1>2, SpentTypes DEF Request, DataOK, SpentType
<1>8. TypeInv' /\ UNCHANGED <<members, processed, given, touched>>
  BY <1>1, <1>2, <1>6, <1>7 DEF Request, TypeInv, DataOK, SpentType, homeVars, deviceVars
<1> QED
  BY <1>3, <1>4, <1>6, <1>8 DEF todo

\* The five ways a thread goes on with the head s of its list
Passes(t) ==   \* the head was known already, or is published
    /\ thread[t].pc \in {"publish", "legacy"} \/ Head(thread[t].todo).id \in processed
    /\ UNCHANGED <<processed, given>>
    /\ \/ /\ Tail(thread[t].todo) = <<>> /\ thread'[t] = Idle
          /\ answered' = IF thread[t].mid = NoMid THEN answered ELSE answered \cup {thread[t].mid}
       \/ /\ answered' = answered
          /\ thread'[t] = [pc |-> "check", mid |-> thread[t].mid, todo |-> Tail(thread[t].todo)]
Resolves(t) == /\ thread'[t] = [thread[t] EXCEPT !.pc = "write"]
               /\ UNCHANGED <<processed, given, answered>>
Writes(t) ==
    LET s == Head(thread[t].todo)
    IN /\ thread'[t] = [thread[t] EXCEPT !.pc = "publish"] /\ UNCHANGED answered
       /\ s.id \notin processed
       /\ \/ s.id = NoId /\ UNCHANGED <<processed, given>>
          \/ /\ s.id # NoId /\ processed' = processed \cup {s.id}
             /\ given' = [given EXCEPT ![thread[t].mid][s.light] = @ + 1]
Fails(t) == thread'[t] = Idle /\ UNCHANGED <<processed, given, answered>>
Repeats(t) ==  \* on the other topic
    /\ thread[t].pc = "publish" /\ thread'[t] = [thread[t] EXCEPT !.pc = "legacy"]
    /\ UNCHANGED <<processed, given, answered>>
Goes(t) == Passes(t) \/ Resolves(t) \/ Writes(t) \/ Repeats(t) \/ Fails(t)

LEMMA ApplySteps ==
    ASSUME TypeInv, NEW t \in Thread, Apply(t)
    PROVE  /\ TypeInv' /\ UNCHANGED <<members, touched>> /\ thread[t].todo # <<>>
           /\ \A u \in Thread \ {t} : thread'[u] = thread[u]
           /\ Goes(t)
<1> DEFINE s == Head(thread[t].todo)
<1>1. thread \in [Thread -> GoodThread] /\ answered \subseteq Mid /\ DataOK
  BY DEF TypeInv, DataOK
<1>2. thread[t].todo # <<>>
  BY DEF Apply, CheckDesired, WriteDesired, PublishDesired, PublishLegacy, Commanding
<1>3. /\ thread[t] \in GoodThread /\ thread[t].mid \in Mid \cup {NoMid} /\ thread[t].pc \in Working
      /\ s \in StepsFor(thread[t].mid) /\ Tail(thread[t].todo) \in Seq(StepsFor(thread[t].mid))
      /\ Len(Tail(thread[t].todo)) <= NumLights
  <2>1. /\ thread[t] \in GoodThread /\ thread[t].mid \in Mid \cup {NoMid} /\ thread[t].pc \in Working
        /\ s \in StepsFor(thread[t].mid) /\ Tail(thread[t].todo) \in Seq(StepsFor(thread[t].mid))
        /\ Len(thread[t].todo) \in Nat \ {0} /\ Len(thread[t].todo) <= NumLights
        /\ Len(Tail(thread[t].todo)) = Len(thread[t].todo) - 1
    BY <1>1, <1>2, Heads
  <2>2. NumLights \in Nat
    BY HomeAssumption
  <2>3. Len(Tail(thread[t].todo)) <= NumLights
    BY <2>1, <2>2
  <2> QED
    BY <2>1, <2>3
<1>4. /\ s.light \in Light /\ s.on \in BOOLEAN /\ s.id \in {NoId} \cup (Mid \X Light)
      /\ s.id # NoId => thread[t].mid \in Mid
  BY <1>3 DEF StepsFor, Step
<1>5. ASSUME GoOn(t, thread[t].mid, Tail(thread[t].todo))
      PROVE  /\ thread' \in [Thread -> GoodThread] /\ answered' \subseteq Mid
             /\ \A u \in Thread \ {t} : thread'[u] = thread[u]
             /\ \/ /\ Tail(thread[t].todo) = <<>> /\ thread'[t] = Idle
                   /\ answered' = IF thread[t].mid = NoMid THEN answered
                                  ELSE answered \cup {thread[t].mid}
                \/ /\ answered' = answered
                   /\ thread'[t] = [pc |-> "check", mid |-> thread[t].mid,
                                    todo |-> Tail(thread[t].todo)]
  <2> DEFINE m == thread[t].mid
             todo == Tail(thread[t].todo)
  <2>1. m \in Mid \cup {NoMid} /\ todo \in Seq(StepsFor(m)) /\ Len(todo) <= NumLights /\ GoOn(t, m, todo)
    BY <1>3, <1>5
  <2> HIDE DEF m, todo, Idle
  <2>2. /\ thread' \in [Thread -> GoodThread] /\ answered' \subseteq Mid
        /\ \A u \in Thread \ {t} : thread'[u] = thread[u]
        /\ \/ /\ todo = <<>> /\ thread'[t] = Idle
              /\ answered' = IF m = NoMid THEN answered ELSE answered \cup {m}
           \/ /\ todo # <<>> /\ answered' = answered
              /\ thread'[t] = [pc |-> "check", mid |-> m, todo |-> todo]
    BY <1>1, <2>1, GoingOn
  <2> QED
    BY <2>2 DEF m, todo
<1>6. ASSUME NEW r \in GoodThread, thread' = [thread EXCEPT ![t] = r]
      PROVE  /\ thread' \in [Thread -> GoodThread] /\ thread'[t] = r
             /\ \A u \in Thread \ {t} : thread'[u] = thread[u]
  BY <1>1, <1>6
<1>7. ASSUME NEW pc \in Working
      PROVE  [thread[t] EXCEPT !.pc = pc] \in GoodThread
  <2>1. pc \in {"idle", "check", "write", "publish", "legacy", "rule", "device", "group",
                "scene", "dead"}
    BY DEF Working
  <2>2. thread[t] \in GoodThread /\ thread[t].pc \in Working
    BY <1>3
  <2> QED
    BY <2>1, <2>2, PcChange
<1>8. Idle \in GoodThread
  BY <1>3, TodoTypes
<1> HIDE DEF s, Idle
<1>9. CASE CheckDesired(t)
  <2>1. UNCHANGED <<homeVars, deviceVars, desired, processed, given, touched, spent>>
    BY <1>9 DEF CheckDesired
  <2>2. CASE s.id \in processed
    <3>1. GoOn(t, thread[t].mid, Tail(thread[t].todo))
      BY <1>9, <2>2 DEF CheckDesired, s
    <3>2. TypeInv' /\ \A u \in Thread \ {t} : thread'[u] = thread[u]
      BY <1>1, <1>5, <2>1, <3>1 DEF TypeInv, DataOK, homeVars, deviceVars
    <3>3. Passes(t)
      BY <1>5, <2>1, <2>2, <3>1 DEF Passes, s
    <3> QED
      BY <1>2, <2>1, <3>2, <3>3 DEF homeVars, Goes
  <2>3. CASE s.id \notin processed
    <3>1. thread' = [thread EXCEPT ![t] = [thread[t] EXCEPT !.pc = "write"]] /\ UNCHANGED answered
      BY <1>1, <1>9, <2>3 DEF CheckDesired, s
    <3>2. [thread[t] EXCEPT !.pc = "write"] \in GoodThread
      BY <1>7 DEF Working
    <3>3. /\ thread' \in [Thread -> GoodThread] /\ thread'[t] = [thread[t] EXCEPT !.pc = "write"]
          /\ \A u \in Thread \ {t} : thread'[u] = thread[u]
      BY <1>6, <3>1, <3>2
    <3>4. TypeInv' /\ Resolves(t)
      BY <1>1, <2>1, <3>1, <3>3 DEF TypeInv, DataOK, homeVars, deviceVars, Resolves
    <3> QED
      BY <1>2, <2>1, <3>3, <3>4 DEF homeVars, Goes
  <2> QED
    BY <2>2, <2>3
<1>10. CASE WriteDesired(t)
  <2>1. UNCHANGED <<homeVars, deviceVars, historyVars, spent>>
    BY <1>10 DEF WriteDesired
  <2>2. CASE /\ s.id \notin processed
             /\ desired' = [desired EXCEPT ![s.light] = s.on]
             /\ processed' = IF s.id = NoId THEN processed ELSE processed \cup {s.id}
             /\ given' = IF s.id = NoId THEN given
                         ELSE [given EXCEPT ![thread[t].mid][s.light] = @ + 1]
             /\ thread' = [thread EXCEPT ![t].pc = "publish"]
    <3>1. thread' = [thread EXCEPT ![t] = [thread[t] EXCEPT !.pc = "publish"]]
      BY <1>1, <2>2
    <3>2. [thread[t] EXCEPT !.pc = "publish"] \in GoodThread
      BY <1>7 DEF Working
    <3>3. /\ thread' \in [Thread -> GoodThread] /\ thread'[t] = [thread[t] EXCEPT !.pc = "publish"]
          /\ \A u \in Thread \ {t} : thread'[u] = thread[u]
      BY <1>6, <3>1, <3>2
    <3>4. desired' \in [Light -> BOOLEAN] /\ processed' \subseteq Mid \X Light
      BY <1>1, <1>4, <2>2 DEF DataOK
    <3>5. given' \in [Mid -> [Light -> Nat]]
      <4>1. given \in [Mid -> [Light -> Nat]]
        BY <1>1 DEF DataOK
      <4>2. CASE s.id = NoId
        BY <2>2, <4>1, <4>2
      <4>3. CASE s.id # NoId
        <5>1. given' = [given EXCEPT ![thread[t].mid][s.light] = @ + 1] /\ thread[t].mid \in Mid
          BY <1>4, <2>2, <4>3
        <5>2. given[thread[t].mid][s.light] + 1 \in Nat
          BY <1>4, <4>1, <5>1
        <5> QED
          BY <1>4, <4>1, <5>1, <5>2
      <4> QED
        BY <4>2, <4>3
    <3>6. Writes(t)
      BY <2>1, <2>2, <3>3 DEF Writes, s, historyVars
    <3>7. TypeInv'
      BY <1>1, <2>1, <3>3, <3>4, <3>5 DEF TypeInv, DataOK, homeVars, deviceVars, historyVars
    <3> QED
      BY <1>2, <2>1, <3>3, <3>6, <3>7 DEF homeVars, historyVars, Goes
  <2>3. CASE thread' = [thread EXCEPT ![t] = Idle] /\ UNCHANGED <<desired, processed, given>>
    <3>1. /\ thread' \in [Thread -> GoodThread] /\ thread'[t] = Idle
          /\ \A u \in Thread \ {t} : thread'[u] = thread[u]
      BY <1>6, <1>8, <2>3
    <3>2. TypeInv' /\ Fails(t)
      BY <1>1, <2>1, <2>3, <3>1 DEF TypeInv, DataOK, homeVars, deviceVars, historyVars, Fails
    <3> QED
      BY <1>2, <2>1, <3>1, <3>2 DEF homeVars, historyVars, Goes
  <2> QED
    BY <1>10, <2>2, <2>3 DEF WriteDesired, s
<1>11. ASSUME Arrives(s) \/ Lost
       PROVE  light' \in [Light -> BOOLEAN] /\ spent' \in SpentType
  <2>1. light \in [Light -> BOOLEAN] /\ spent \in SpentType
    BY <1>1 DEF DataOK, SpentType
  <2>2. spent' \in SpentType
    BY <1>11, <2>1, SpentTypes DEF Arrives, Lost
  <2>3. light' \in [Light -> BOOLEAN]
    BY <1>4, <1>11, <2>1 DEF Arrives, Lost
  <2> QED
    BY <2>2, <2>3
<1>12. ASSUME PublishDesired(t) \/ PublishLegacy(t)
       PROVE  /\ UNCHANGED <<homeVars, reported, desired, processed, given, touched>>
              /\ thread[t].pc \in {"publish", "legacy"}
              /\ light' \in [Light -> BOOLEAN] /\ spent' \in SpentType
  BY <1>11, <1>12 DEF PublishDesired, PublishLegacy, Commanding, s
<1>13. ASSUME PublishDesired(t) \/ PublishLegacy(t),
              GoOn(t, thread[t].mid, Tail(thread[t].todo))
       PROVE  TypeInv' /\ (\A u \in Thread \ {t} : thread'[u] = thread[u]) /\ Passes(t)
  <2>1. TypeInv' /\ \A u \in Thread \ {t} : thread'[u] = thread[u]
    BY <1>1, <1>5, <1>12, <1>13 DEF TypeInv, DataOK, homeVars, SpentType
  <2>2. Passes(t)
    BY <1>5, <1>12, <1>13 DEF Passes
  <2> QED
    BY <2>1, <2>2
<1>14. CASE PublishDesired(t) /\ GoOn(t, thread[t].mid, Tail(thread[t].todo))
  BY <1>2, <1>12, <1>13, <1>14 DEF homeVars, Goes
<1>15. CASE PublishDesired(t) /\ thread' = [thread EXCEPT ![t].pc = "legacy"] /\ UNCHANGED answered
  <2>1. thread' = [thread EXCEPT ![t] = [thread[t] EXCEPT !.pc = "legacy"]]
    BY <1>1, <1>15
  <2>2. [thread[t] EXCEPT !.pc = "legacy"] \in GoodThread
    BY <1>7 DEF Working
  <2>3. /\ thread' \in [Thread -> GoodThread] /\ thread'[t] = [thread[t] EXCEPT !.pc = "legacy"]
        /\ \A u \in Thread \ {t} : thread'[u] = thread[u]
    BY <1>6, <2>1, <2>2
  <2>4. TypeInv'
    BY <1>1, <1>12, <1>15, <2>3 DEF TypeInv, DataOK, homeVars, SpentType
  <2>5. Repeats(t)
    BY <1>12, <1>15, <2>3 DEF PublishDesired, Commanding, Repeats
  <2> QED
    BY <1>2, <1>12, <1>15, <2>3, <2>4, <2>5 DEF homeVars, Goes
<1>16. CASE PublishLegacy(t)
  <2>1. GoOn(t, thread[t].mid, Tail(thread[t].todo))
    BY <1>16 DEF PublishLegacy
  <2> QED
    BY <1>2, <1>12, <1>13, <1>16, <2>1 DEF homeVars, Goes
<1>17. PublishDesired(t) => \/ GoOn(t, thread[t].mid, Tail(thread[t].todo))
                            \/ thread' = [thread EXCEPT ![t].pc = "legacy"] /\ UNCHANGED answered
  BY DEF PublishDesired
<1> QED
  BY <1>9, <1>10, <1>14, <1>15, <1>16, <1>17 DEF Apply

LEMMA TypeInvStep == TypeInv /\ [Next]_vars => TypeInv'
<1> SUFFICES ASSUME TypeInv, [Next]_vars PROVE TypeInv'
  OBVIOUS
<1>1. CASE Anonymous
  BY <1>1, AnonymousSteps
<1>2. CASE \E t \in Http : \E m \in Mid : CommandGroup(t, m)
  BY <1>2, CommandSteps
<1>3. CASE Edits
  BY <1>3, EditSteps DEF TypeInv
<1>4. CASE \E t \in Thread : Apply(t)
  BY <1>4, ApplySteps
<1>5. CASE UNCHANGED vars
  BY <1>5 DEF vars, homeVars, deviceVars, historyVars, TypeInv, DataOK
<1> QED
  BY <1>1, <1>2, <1>3, <1>4, <1>5 DEF Next, Anonymous, Edits

\* The list a thread works on is no longer than there are lights, it names lights and ids of one
\* message id or of none, and every value has its type.
THEOREM HomeTypeOK == Spec => []TypeOK
<1>1. Spec => []TypeInv
  BY TypeInvInit, TypeInvStep, PTL DEF Spec
<1> QED
  BY <1>1, TypeInvImplies, PTL

-----------------------------------------------------------------------------
(* A group command is applied once to every member *)

\* How many members of the group thread t is done with.  As long as the group is not edited,
\* the list of a thread that works on command m holds the members behind them in their order,
\* and the ids of those before are recorded.
Done(t) == Cardinality(members) - Len(thread[t].todo)
OnTrack(t, m) == thread[t].mid = m =>
    /\ Len(thread[t].todo) <= Cardinality(members)
    /\ \A i \in 1..Len(thread[t].todo) :
         /\ thread[t].todo[i].light = MemberSeq[Done(t) + i]
         /\ thread[t].todo[i].id = <<m, Done(t) + i>>
    /\ \A k \in 1..Done(t) : <<m, k>> \in processed
    /\ thread[t].pc \in {"publish", "legacy"} => <<m, Done(t) + 1>> \in processed

\* The recorded ids of command m are those of the members it was applied to, once each; when it
\* is answered all of them are recorded.
Counted(m) ==
    /\ \A k \in Light : <<m, k>> \in processed => k <= Cardinality(members)
    /\ \A k \in 1..Cardinality(members) :
         given[m][MemberSeq[k]] = IF <<m, k>> \in processed THEN 1 ELSE 0
    /\ m \in answered => \A k \in 1..Cardinality(members) : <<m, k>> \in processed

GivenInv == \A m \in Mid \ touched : Counted(m) /\ \A t \in Thread : OnTrack(t, m)

LEMMA GivenInvImplies == TypeInv /\ GivenInv => AnsweredExactlyOnce
<1> SUFFICES ASSUME TypeInv, GivenInv, NEW m \in answered \ touched, NEW d \in members
             PROVE  given[m][d] = 1
  BY DEF AnsweredExactlyOnce
<1>1. members \subseteq Light /\ m \in Mid \ touched
  BY DEF TypeInv, DataOK
<1>2. PICK k \in 1..Cardinality(members) : MemberSeq[k] = d
  BY <1>1, MemberSeqFacts
<1>3. <<m, k>> \in processed /\ given[m][MemberSeq[k]] = IF <<m, k>> \in processed THEN 1 ELSE 0
  BY <1>1 DEF GivenInv, Counted
<1> QED
  BY <1>2, <1>3

LEMMA GivenInvInit == Init => GivenInv
<1> SUFFICES ASSUME Init, NEW m \in Mid PROVE Counted(m) /\ \A t \in Thread : OnTrack(t, m)
  BY DEF GivenInv
<1>1. members \subseteq Light /\ processed = {} /\ answered = {} /\ members = {1}
  BY HomeAssumption DEF Init, Light
<1>2. MemberSeq \in [1..Cardinality(members) -> members]
  BY <1>1, MemberSeqFacts
<1>3. \A d \in Light : given[m][d] = 0
  BY DEF Init
<1>4. \A k \in 1..Cardinality(members) : given[m][MemberSeq[k]] = 0
  <2>1. \A k \in 1..Cardinality(members) : MemberSeq[k] \in Light
    BY <1>1, <1>2
  <2> QED
    BY <1>3, <2>1
<1>5. Counted(m)
  BY <1>1, <1>4 DEF Counted
<1>6. \A t \in Thread : thread[t].mid # m
  BY Mids DEF Init, Idle
<1> QED
  BY <1>5, <1>6 DEF OnTrack

\* What an edit does: a command that has not seen it has not begun.
LEMMA GivenEdit == TypeInv /\ GivenInv /\ Edits => GivenInv'
<1> SUFFICES ASSUME TypeInv, GivenInv, Edits, NEW m \in Mid \ touched'
             PROVE  Counted(m)' /\ \A t \in Thread : OnTrack(t, m)'
  BY DEF GivenInv
<1>1. /\ DataOK' /\ processed' = processed /\ thread' = thread /\ given' = given /\ answered' = answered
      /\ \/ members' = members /\ touched' = touched
         \/ touched' = {c \in Mid : c \in answered \/ (\E d \in Light : given[c][d] > 0)
                                      \/ (\E t \in Thread : thread[t].mid = c)} \cup touched
  BY EditSteps
<1>2. m \in Mid \ touched
  BY <1>1
<1>3. CASE members' = members
  <2>1. MemberSeq' = MemberSeq
    BY <1>3 DEF MemberSeq
  <2> QED
    BY <1>1, <1>2, <1>3, <2>1 DEF GivenInv, Counted, OnTrack, Done
<1>4. CASE touched' = {c \in Mid : c \in answered \/ (\E d \in Light : given[c][d] > 0)
                                     \/ (\E t \in Thread : thread[t].mid = c)} \cup touched
  <2>1. m \notin answered /\ (\A d \in Light : ~(given[m][d] > 0)) /\ \A t \in Thread : thread[t].mid # m
    BY <1>4
  <2>2. members \subseteq Light /\ members' \subseteq Light /\ given[m] \in [Light -> Nat]
        /\ processed \subseteq Mid \X Light
    BY <1>1 DEF TypeInv, DataOK
  <2>3. \A d \in Light : given[m][d] = 0
    BY <2>1, <2>2
  <2>4. ASSUME NEW k \in Light PROVE <<m, k>> \notin processed
    <3>1. Cardinality(members) \in 0..NumLights /\ NumLights \in Nat /\ k \in Nat \ {0}
      BY <2>2, MemberSeqFacts, LightsFinite, HomeAssumption
    <3>2. Cardinality(members) \in Nat
      BY <3>1
    <3>3. SUFFICES ASSUME <<m, k>> \in processed PROVE FALSE
      OBVIOUS
    <3>4. k \in 1..Cardinality(members)
      <4>1. k <= Cardinality(members)
        BY <1>2, <3>3 DEF GivenInv, Counted
      <4> QED
        BY <3>1, <3>2, <4>1
    <3>5. given[m][MemberSeq[k]] = 1
      BY <1>2, <3>3, <3>4 DEF GivenInv, Counted
    <3>6. MemberSeq[k] \in Light
      BY <2>2, <3>4, MemberSeqFacts
    <3> QED
      BY <2>3, <3>5, <3>6
  <2>5. ASSUME NEW k \in 1..Cardinality(members') PROVE MemberSeq'[k] \in Light /\ k \in Light
    <3>1. MemberSeq' = InOrder(members')
      BY DEF MemberSeq, InOrder
    <3>2. MemberSeq'[k] \in Light /\ Cardinality(members') \in 0..NumLights
      BY <2>2, <3>1, InOrderFacts
    <3>3. NumLights \in Nat
      BY HomeAssumption
    <3>4. k \in 1..NumLights
      BY <3>2, <3>3
    <3> QED
      BY <3>2, <3>4 DEF Light
  <2>6. Counted(m)'
    BY <1>1, <2>1, <2>3, <2>4, <2>5 DEF Counted
  <2> QED
    BY <1>1, <2>1, <2>6 DEF OnTrack
<1> QED
  BY <1>1, <1>3, <1>4

\* A thread whose list stays as it is keeps in step while ids are only added.
LEMMA OnTrackStays ==
    ASSUME NEW t \in Thread, NEW m \in Mid, OnTrack(t, m),
           thread'[t] = thread[t] \/ thread'[t].mid # m, members' = members,
           processed \subseteq processed'
    PROVE  OnTrack(t, m)'
<1>1. MemberSeq' = MemberSeq
  BY DEF MemberSeq
<1>2. CASE thread'[t] = thread[t]
  BY <1>1, <1>2 DEF OnTrack, Done
<1>3. CASE thread'[t].mid # m
  BY <1>3 DEF OnTrack
<1> QED
  BY <1>2, <1>3

\* A command has the members as they are when it starts.
LEMMA GivenCommand ==
    ASSUME TypeInv, GivenInv, NEW t \in Http, NEW c \in Mid, CommandGroup(t, c)
    PROVE  GivenInv'
<1> DEFINE todo == GroupTodo(c, Commands[c])
           n == Cardinality(members)
<1>1. /\ UNCHANGED <<members, processed, given, touched>> /\ \A u \in Thread \ {t} : thread'[u] = thread[u]
      /\ todo \in Seq(StepsFor(c)) /\ Len(todo) = n
      /\ \/ todo = <<>> /\ thread'[t] = Idle /\ answered' = answered \cup {c}
         \/ /\ answered' = answered
            /\ thread'[t] = [pc |-> "check", mid |-> c, todo |-> todo]
  BY CommandSteps
<1>2. /\ \A k \in 1..n : todo[k].light = MemberSeq[k] /\ todo[k].id = Scoped(c, k)
      /\ c # NoMid /\ n \in Nat
  <2>1. members \subseteq Light /\ c \in Mid \cup {NoMid} /\ Commands[c] \in BOOLEAN
    BY Mids DEF TypeInv, DataOK
  <2> HIDE DEF todo
  <2>2. \A k \in 1..n : todo[k].light = MemberSeq[k] /\ todo[k].id = Scoped(c, k)
    BY <2>1, GroupTodoType DEF todo
  <2>3. c # NoMid /\ n \in 0..NumLights
    BY <2>1, Mids, MemberSeqFacts
  <2> QED
    BY <2>2, <2>3
<1> HIDE DEF todo
<1>3. MemberSeq' = MemberSeq
  BY <1>1 DEF MemberSeq
<1> SUFFICES ASSUME NEW m \in Mid \ touched
             PROVE  Counted(m)' /\ \A u \in Thread : OnTrack(u, m)'
  BY <1>1 DEF GivenInv
<1>4. Counted(m) /\ \A u \in Thread : OnTrack(u, m)
  BY DEF GivenInv
<1>5. Counted(m)'
  <2>1. CASE answered' = answered
    BY <1>1, <1>3, <1>4, <2>1 DEF Counted
  <2>2. CASE todo = <<>> /\ answered' = answered \cup {c}
    <3>1. n = 0
      BY <1>1, <2>2, EmptySeq
    <3>2. 1..n = {}
      BY <3>1
    <3> QED
      BY <1>1, <1>3, <1>4, <3>2 DEF Counted
  <2> QED
    BY <1>1, <2>1, <2>2
<1>6. ASSUME NEW u \in Thread PROVE OnTrack(u, m)'
  <2>1. CASE u # t
    BY <1>1, <1>4, <2>1, OnTrackStays
  <2>2. CASE u = t /\ thread'[t] = [pc |-> "check", mid |-> c, todo |-> todo]
    <3>1. SUFFICES ASSUME c = m
                   PROVE  OnTrack(t, m)'
      BY <2>2 DEF OnTrack
    <3>2. thread'[t].todo = todo /\ thread'[t].pc = "check"
      BY <2>2
    <3>3. Cardinality(members') = n /\ Done(t)' = 0 /\ Len(thread'[t].todo) = n
      BY <1>1, <1>2, <3>2 DEF Done
    <3>4. \A i \in 1..n : /\ 0 + i = i /\ todo[i].light = MemberSeq[i] /\ todo[i].id = <<m, i>>
      BY <1>2, <3>1 DEF Scoped
    <3>5. /\ n <= n /\ 1..0 = {}
      BY <1>2
    <3> QED
      BY <1>3, <3>2, <3>3, <3>4, <3>5 DEF OnTrack
  <2>3. CASE u = t /\ thread'[t] = Idle
    BY <1>2, <2>3, Mids DEF OnTrack, Idle
  <2> QED
    BY <1>1, <2>1, <2>2, <2>3
<1> QED
  BY <1>5, <1>6

\* A step of a thread that works on command m, when the group has not been edited
LEMMA GivenOwnStep ==
    ASSUME TypeInv, NEW t \in Thread, NEW m \in Mid, Counted(m), OnTrack(t, m),
           thread[t].mid = m, thread[t].todo # <<>>, members' = members,
           Goes(t)
    PROVE  Counted(m)' /\ OnTrack(t, m)'
<1> DEFINE n == Cardinality(members)
           todo == thread[t].todo
           L == Len(todo)
           j == Done(t) + 1
<1>1. MemberSeq' = MemberSeq
  BY DEF MemberSeq
<1>2. members \subseteq Light /\ given \in [Mid -> [Light -> Nat]] /\ processed \subseteq Mid \X Light
      /\ thread \in [Thread -> GoodThread]
  BY DEF TypeInv, DataOK
<1>3. /\ n \in Nat /\ MemberSeq \in [1..n -> members] /\ 1..n \subseteq Light
      /\ \A a, b \in 1..n : MemberSeq[a] = MemberSeq[b] => a = b
  <2>1. /\ n \in 0..NumLights /\ MemberSeq \in [1..n -> members]
        /\ \A a, b \in 1..n : MemberSeq[a] = MemberSeq[b] => a = b
    BY <1>2, MemberSeqFacts
  <2>2. NumLights \in Nat
    BY HomeAssumption
  <2>3. n \in Nat /\ 1..n \subseteq 1..NumLights
    BY <2>1, <2>2
  <2> QED
    BY <2>1, <2>3 DEF Light
<1>4. /\ L \in Nat \ {0} /\ Head(todo) = todo[1] /\ Len(Tail(todo)) = L - 1
      /\ \A i \in 1..(L - 1) : Tail(todo)[i] = todo[i + 1]
      /\ thread[t] \in ThreadType
  BY <1>2, Heads
<1>5. /\ L <= n /\ \A i \in 1..L : todo[i].light = MemberSeq[Done(t) + i] /\ todo[i].id = <<m, Done(t) + i>>
      /\ \A k \in 1..Done(t) : <<m, k>> \in processed
      /\ thread[t].pc \in {"publish", "legacy"} => <<m, j>> \in processed
  BY DEF OnTrack
<1>6. Done(t) = n - L /\ j \in 1..n /\ Done(t) \in Nat /\ j = n - L + 1
  <2>1. n \in Nat /\ L \in Nat \ {0} /\ L <= n
    BY <1>3, <1>4, <1>5
  <2>2. Done(t) = n - L
    BY DEF Done
  <2> HIDE DEF n, L
  <2> QED
    BY <2>1, <2>2
<1>7. Head(todo).light = MemberSeq[j] /\ Head(todo).id = <<m, j>>
  BY <1>4, <1>5
<1>8. m # NoMid /\ <<m, j>> # NoId /\ Idle.mid = NoMid
  BY Mids DEF NoId, NoMid, Idle
<1>9. CASE Passes(t)
  <2>1. <<m, j>> \in processed /\ processed' = processed /\ given' = given
    BY <1>5, <1>7, <1>9 DEF Passes
  <2>2. \A k \in 1..j : <<m, k>> \in processed
    <3>1. \A k \in 1..j : k \in 1..Done(t) \/ k = j
      BY <1>6
    <3> QED
      BY <1>5, <2>1, <3>1
  <2>3. CASE Tail(todo) = <<>> /\ thread'[t] = Idle /\ answered' = answered \cup {m}
    <3>1. j = n
      <4>1. L - 1 = 0
        BY <1>4, <2>3, EmptySeq
      <4>2. n \in Nat /\ j = n - L + 1 /\ L \in Nat
        BY <1>3, <1>4, <1>6
      <4> HIDE DEF n, L, j
      <4> QED
        BY <4>1, <4>2
    <3>2. \A k \in 1..n : <<m, k>> \in processed
      BY <2>2, <3>1
    <3>3. Counted(m)'
      BY <1>1, <2>1, <3>2 DEF Counted
    <3> QED
      BY <1>8, <2>3, <3>3 DEF OnTrack
  <2>4. CASE answered' = answered /\ thread'[t] = [pc |-> "check", mid |-> m, todo |-> Tail(todo)]
    <3>1. Counted(m)'
      BY <1>1, <2>1, <2>4 DEF Counted
    <3>2. thread'[t].todo = Tail(todo) /\ thread'[t].pc = "check"
      BY <2>4
    <3>3. Done(t)' = j /\ Len(thread'[t].todo) = L - 1 /\ L - 1 <= n
      <4>1. Done(t)' = n - (L - 1)
        BY <1>4, <3>2 DEF Done
      <4> QED
        BY <1>3, <1>4, <1>5, <1>6, <3>2, <4>1
    <3>4. \A i \in 1..(L - 1) : /\ Tail(todo)[i].light = MemberSeq[j + i]
                                /\ Tail(todo)[i].id = <<m, j + i>>
      <4>1. \A i \in 1..(L - 1) : i + 1 \in 1..L /\ Done(t) + (i + 1) = j + i
        BY <1>4, <1>6
      <4> QED
        BY <1>4, <1>5, <4>1
    <3>5. OnTrack(t, m)'
      BY <1>1, <2>1, <2>2, <3>2, <3>3, <3>4 DEF OnTrack
    <3> QED
      BY <3>1, <3>5
  <2> QED
    BY <1>8, <1>9, <2>3, <2>4 DEF Passes
<1>10. CASE Resolves(t)
  <2>1. /\ thread'[t].pc = "write" /\ thread'[t].mid = m /\ thread'[t].todo = todo
        /\ UNCHANGED <<processed, given, answered>>
    BY <1>4, <1>10 DEF Resolves, ThreadType
  <2>2. OnTrack(t, m)'
    BY <1>1, <2>1 DEF OnTrack, Done
  <2> QED
    BY <1>1, <2>1, <2>2 DEF Counted
<1>11. CASE Writes(t)
  <2>1. /\ thread'[t].pc = "publish" /\ thread'[t].mid = m /\ thread'[t].todo = todo
        /\ answered' = answered
    BY <1>4, <1>11 DEF Writes, ThreadType
  <2>2. /\ <<m, j>> \notin processed /\ processed' = processed \cup {<<m, j>>}
        /\ given' = [given EXCEPT ![m][MemberSeq[j]] = @ + 1]
    BY <1>7, <1>8, <1>11 DEF Writes
  <2>3. OnTrack(t, m)'
    <3>1. Done(t)' = Done(t)
      BY <2>1 DEF Done
    <3> QED
      BY <1>1, <1>5, <2>1, <2>2, <3>1 DEF OnTrack
  <2>4. given[m][MemberSeq[j]] = 0
    BY <1>6, <2>2 DEF Counted
  <2>5. ASSUME NEW k \in 1..n
        PROVE  given'[m][MemberSeq[k]] = IF <<m, k>> \in processed' THEN 1 ELSE 0
    <3>1. MemberSeq[k] \in Light /\ MemberSeq[j] \in Light
      BY <1>2, <1>3, <1>6
    <3>2. CASE k = j
      <4>1. given'[m][MemberSeq[j]] = given[m][MemberSeq[j]] + 1
        BY <1>2, <2>2, <3>1
      <4> QED
        BY <2>2, <2>4, <3>2, <4>1
    <3>3. CASE k # j
      <4>1. MemberSeq[k] # MemberSeq[j]
        BY <1>3, <1>6, <3>3
      <4>2. given'[m][MemberSeq[k]] = given[m][MemberSeq[k]]
        BY <1>2, <2>2, <3>1, <4>1
      <4>3. <<m, k>> \in processed' <=> <<m, k>> \in processed
        BY <2>2, <3>3
      <4> QED
        BY <4>2, <4>3 DEF Counted
    <3> QED
      BY <3>2, <3>3
  <2>6. \A k \in Light : <<m, k>> \in processed' => k <= n
    BY <1>6, <2>2 DEF Counted
  <2>7. Counted(m)'
    BY <1>1, <2>1, <2>2, <2>5, <2>6 DEF Counted
  <2> QED
    BY <2>3, <2>7
<1>12. CASE Fails(t)
  <2>1. thread'[t].mid # m /\ UNCHANGED <<processed, given, answered>>
    BY <1>8, <1>12 DEF Fails
  <2> QED
    BY <1>1, <2>1 DEF Counted, OnTrack
<1>13. CASE Repeats(t)
  <2>1. /\ thread'[t].pc = "legacy" /\ thread'[t].mid = m /\ thread'[t].todo = todo
        /\ UNCHANGED <<processed, given, answered>> /\ thread[t].pc = "publish"
    BY <1>4, <1>13 DEF Repeats, ThreadType
  <2>2. OnTrack(t, m)'
    BY <1>1, <2>1 DEF OnTrack, Done
  <2> QED
    BY <1>1, <2>1, <2>2 DEF Counted
<1> QED
  BY <1>9, <1>10, <1>11, <1>12, <1>13 DEF Goes

\* A step of a thread that works on something else leaves command m alone.
LEMMA GivenOtherStep ==
    ASSUME TypeInv, NEW t \in Thread, NEW m \in Mid, Counted(m), OnTrack(t, m),
           thread[t].mid # m, thread[t].todo # <<>>, members' = members,
           Goes(t)
    PROVE  Counted(m)' /\ OnTrack(t, m)'
<1>1. MemberSeq' = MemberSeq
  BY DEF MemberSeq
<1>2. members \subseteq Light /\ given \in [Mid -> [Light -> Nat]] /\ thread \in [Thread -> GoodThread]
  BY DEF TypeInv, DataOK
<1>3. /\ thread[t] \in ThreadType /\ thread[t].mid \in Mid \cup {NoMid}
      /\ Head(thread[t].todo) \in StepsFor(thread[t].mid)
  BY <1>2, Heads
<1>4. thread'[t].mid # m
  <2>1. thread'[t].mid \in {NoMid, thread[t].mid}
    BY <1>3 DEF Goes, Passes, Resolves, Writes, Repeats, Fails, Idle, ThreadType
  <2> QED
    BY <2>1, Mids
<1>5. m \in answered' => m \in answered
  BY DEF Goes, Passes, Resolves, Writes, Repeats, Fails
<1>6. /\ \A k : <<m, k>> \in processed' <=> <<m, k>> \in processed
      /\ given'[m] = given[m]
  <2> DEFINE s == Head(thread[t].todo)
  <2>1. CASE UNCHANGED <<processed, given>>
    BY <2>1
  <2>2. CASE /\ s.id # NoId /\ processed' = processed \cup {s.id}
             /\ given' = [given EXCEPT ![thread[t].mid][s.light] = @ + 1]
    <3>1. s.id \in {thread[t].mid} \X Light
      BY <1>3, <2>2 DEF StepsFor
    <3>2. \A k : <<m, k>> # s.id
      BY <3>1
    <3> QED
      BY <1>2, <2>2, <3>2
  <2> QED
    BY <2>1, <2>2 DEF Goes, Passes, Resolves, Writes, Repeats, Fails
<1>7. \A k \in 1..Cardinality(members) : given'[m][MemberSeq[k]] = given[m][MemberSeq[k]]
  BY <1>6
<1>8. Counted(m)'
  BY <1>1, <1>5, <1>6, <1>7 DEF Counted
<1> QED
  BY <1>4, <1>8 DEF OnTrack

LEMMA GivenInvStep == TypeInv /\ GivenInv /\ [Next]_vars => GivenInv'
<1> SUFFICES ASSUME TypeInv, GivenInv, [Next]_vars PROVE GivenInv'
  OBVIOUS
<1>1. CASE Anonymous
  <2>1. /\ UNCHANGED <<members, processed, given, answered, touched>>
        /\ \A u \in Thread : thread'[u] = thread[u] \/ thread'[u].mid = NoMid
    BY <1>1, AnonymousSteps
  <2>2. MemberSeq' = MemberSeq
    BY <2>1 DEF MemberSeq
  <2>3. ASSUME NEW m \in Mid \ touched PROVE Counted(m)' /\ \A u \in Thread : OnTrack(u, m)'
    <3>1. Counted(m) /\ (\A u \in Thread : OnTrack(u, m)) /\ m # NoMid
      BY Mids DEF GivenInv
    <3>2. Counted(m)'
      BY <2>1, <2>2, <3>1 DEF Counted
    <3>3. \A u \in Thread : OnTrack(u, m)'
      BY <2>1, <3>1, OnTrackStays
    <3> QED
      BY <3>2, <3>3
  <2> QED
    BY <2>1, <2>3 DEF GivenInv
<1>2. CASE \E t \in Http : \E m \in Mid : CommandGroup(t, m)
  BY <1>2, GivenCommand
<1>3. CASE Edits
  BY <1>3, GivenEdit
<1>4. ASSUME NEW t \in Thread, Apply(t) PROVE GivenInv'
  <2>1. /\ UNCHANGED <<members, touched>> /\ thread[t].todo # <<>>
        /\ \A u \in Thread \ {t} : thread'[u] = thread[u]
        /\ Goes(t)
    BY <1>4, ApplySteps
  <2>2. processed \subseteq processed'
    BY <2>1 DEF Goes, Passes, Resolves, Writes, Repeats, Fails
  <2>3. ASSUME NEW m \in Mid \ touched PROVE Counted(m)' /\ \A u \in Thread : OnTrack(u, m)'
    <3>1. Counted(m) /\ \A u \in Thread : OnTrack(u, m)
      BY DEF GivenInv
    <3>2. Counted(m)' /\ OnTrack(t, m)'
      BY <2>1, <3>1, GivenOwnStep, GivenOtherStep
    <3>3. \A u \in Thread \ {t} : OnTrack(u, m)'
      BY <2>1, <2>2, <3>1, OnTrackStays
    <3> QED
      BY <3>2, <3>3
  <2> QED
    BY <2>1, <2>3 DEF GivenInv
<1>5. CASE UNCHANGED vars
  <2>1. UNCHANGED <<members, processed, given, thread, answered, touched>>
    BY <1>5 DEF vars, homeVars, historyVars
  <2>2. MemberSeq' = MemberSeq
    BY <2>1 DEF MemberSeq
  <2> QED
    BY <2>1, <2>2 DEF GivenInv, Counted, OnTrack, Done
<1> QED
  BY <1>1, <1>2, <1>3, <1>4, <1>5 DEF Next, Anonymous, Edits

\* A group command that is answered has been applied exactly once to every member, whatever is
\* retried with its message id and whichever threads work on it at once, as long as the group
\* has not been edited in between.
THEOREM AnsweredExactlyOnceAlways == Spec => []AnsweredExactlyOnce
<1>1. Spec => []TypeInv
  BY TypeInvInit, TypeInvStep, PTL DEF Spec
<1>2. Spec => []GivenInv
  BY <1>1, GivenInvInit, GivenInvStep, PTL DEF Spec
<1> QED
  BY <1>1, <1>2, GivenInvImplies, PTL
=============================================================================
