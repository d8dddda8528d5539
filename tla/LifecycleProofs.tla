--------------------------- MODULE LifecycleProofs --------------------------
(***************************************************************************)
(* The OFF_LINE task and its children, for any number of devices, any      *)
(* length of the queue and any changes of the network.                     *)
(***************************************************************************)
EXTENDS DeviceLifecycle, TLAPS

TaskType == [type: {"ENABLE", "DISABLE", "ON_LINE", "OFF_LINE"}, n: Nat, hw: Hardware]
OffLineType == [n: Nat, dev: Device, kids: SUBSET Hardware,
                pc: {"create", "wait", "clear", "uninit", "flags", "check"}]

\* The types of what the proof looks at.  The hardware of an ON_LINE or OFF_LINE task
\* is a device's, so the two children of an OFF_LINE task differ.
LifecycleTypeOK ==
    /\ queue \in Seq(TaskType) /\ running \subseteq TaskType
    /\ offline \subseteq OffLineType /\ made \in Nat
    /\ notify \in Seq([on: BOOLEAN, dev: Device]) /\ dm \subseteq Device /\ resend \subseteq Device
    /\ calls \subseteq [by: {"dm", "resend"}, dev: Device]
    /\ \A i \in 1..Len(queue) : queue[i].type \in {"ON_LINE", "OFF_LINE"} => queue[i].hw \in Device

\* An OFF_LINE task or a child of one.
Ending(t) == t.type \in {"OFF_LINE", "DISABLE"}

\* No task has a number that is still to be given.
Numbered(q, run, off, m) ==
    /\ \A i \in 1..Len(q) : q[i].n <= m
    /\ \A t \in run : t.n <= m
    /\ \A o \in off : o.n <= m

\* A number belongs to one OFF_LINE task, queued or running, or to its children, of which
\* there is one for each hardware; and as long as a child is queued or runs, its father
\* waits for it.
Owned(q, run, off) ==
    /\ \A i, j \in 1..Len(q) : i # j /\ Ending(q[i]) /\ Ending(q[j]) /\ q[i].n = q[j].n =>
          q[i].type = "DISABLE" /\ q[j].type = "DISABLE" /\ q[i].hw # q[j].hw
    /\ \A i \in 1..Len(q), t \in run : t.type = "DISABLE" /\ Ending(q[i]) /\ q[i].n = t.n =>
          q[i].type = "DISABLE" /\ q[i].hw # t.hw
    /\ \A o \in off, i \in 1..Len(q) : Ending(q[i]) /\ q[i].n = o.n =>
          q[i].type = "DISABLE" /\ o.pc = "wait" /\ q[i].hw \in o.kids
    /\ \A o \in off, t \in run : t.type = "DISABLE" /\ t.n = o.n =>
          o.pc = "wait" /\ t.hw \in o.kids
    /\ \A o, p \in off : o.n = p.n => o = p

LifecycleInv ==
    /\ LifecycleTypeOK
    /\ Numbered(queue, running, offline, made) /\ Owned(queue, running, offline)

-----------------------------------------------------------------------------
(* The queue.                                                              *)

LEMMA TailFacts ==
    ASSUME NEW S, NEW q \in Seq(S), q # <<>>
    PROVE  /\ Tail(q) \in Seq(S) /\ Head(q) \in S /\ Head(q) = q[1]
           /\ Len(q) \in Nat /\ Len(q) >= 1 /\ Len(Tail(q)) = Len(q) - 1
           /\ \A i \in 1..Len(Tail(q)) : i + 1 \in 1..Len(q) /\ Tail(q)[i] = q[i + 1]
PROOF OBVIOUS

\* Push keeps what is queued where it is and puts new tasks behind it.
LEMMA PushFacts ==
    ASSUME NEW q \in Seq(TaskType), NEW ts \in Seq(TaskType), NEW seen, Push(q, ts, seen)
    PROVE  /\ queue' \in Seq(TaskType)
           /\ \A i \in 1..Len(queue') :
                 \/ i \in 1..Len(q) /\ queue'[i] = q[i]
                 \/ i - Len(q) \in 1..Len(ts) /\ queue'[i] = ts[i - Len(q)]
PROOF
<1>1. CASE queue' = q \o ts
  BY <1>1
<1>2. ASSUME NEW k \in 0..(Len(ts) - 1), queue' = q \o SubSeq(ts, 1, k)
      PROVE  /\ queue' \in Seq(TaskType)
             /\ \A i \in 1..Len(queue') :
                   \/ i \in 1..Len(q) /\ queue'[i] = q[i]
                   \/ i - Len(q) \in 1..Len(ts) /\ queue'[i] = ts[i - Len(q)]
  <2> DEFINE u == SubSeq(ts, 1, k)
  <2>1. u \in Seq(TaskType) /\ Len(u) = k /\ \A i \in 1..k : u[i] = ts[i]
    <3>1. k \in Nat /\ k <= Len(ts) /\ Len(ts) \in Nat
      BY <1>2
    <3>2. \A i \in 1..k : ts[i] \in TaskType
      BY <3>1
    <3>3. Len(u) = k /\ \A i \in 1..k : u[i] = ts[i]
      BY <3>1
    <3> QED BY <3>1, <3>2, <3>3
  <2>2. queue' = q \o u /\ k \in Nat /\ k <= Len(ts)
    BY <1>2
  <2> HIDE DEF u
  <2>3. /\ queue' \in Seq(TaskType)
        /\ \A i \in 1..Len(queue') :
              \/ i \in 1..Len(q) /\ queue'[i] = q[i]
              \/ i - Len(q) \in 1..Len(u) /\ queue'[i] = u[i - Len(q)]
    <3>1. u \in Seq(TaskType) /\ queue' = q \o u
      BY <2>1, <2>2
    <3> QED BY <3>1
  <2>4. \A i \in Int : i \in 1..k => i \in 1..Len(ts)
    BY <1>2, <2>2
  <2> QED BY <2>1, <2>3, <2>4
<1> QED BY <1>1, <1>2 DEF Push

LEMMA TailOwned ==
    ASSUME NEW q \in Seq(TaskType), q # <<>>, NEW run, NEW off, NEW m, Owned(q, run, off), Numbered(q, run, off, m)
    PROVE  Owned(Tail(q), run, off) /\ Numbered(Tail(q), run, off, m)
PROOF
<1>1. /\ Len(q) \in Nat /\ Len(Tail(q)) = Len(q) - 1
      /\ \A i \in 1..Len(Tail(q)) : i + 1 \in 1..Len(q) /\ Tail(q)[i] = q[i + 1]
  BY TailFacts
<1> DEFINE r == Tail(q)
<1>2. \A i \in 1..Len(r) : i + 1 \in 1..Len(q) /\ r[i] = q[i + 1]
  BY <1>1
<1>3. \A i, j \in 1..Len(r) : i # j => i + 1 # j + 1
  OBVIOUS
<1> HIDE DEF r
<1>4. Owned(r, run, off)
  <2>1. ASSUME NEW i \in 1..Len(r), NEW j \in 1..Len(r), i # j, Ending(r[i]), Ending(r[j]), r[i].n = r[j].n
        PROVE  r[i].type = "DISABLE" /\ r[j].type = "DISABLE" /\ r[i].hw # r[j].hw
    <3>1. i + 1 \in 1..Len(q) /\ j + 1 \in 1..Len(q) /\ i + 1 # j + 1 /\ r[i] = q[i + 1] /\ r[j] = q[j + 1]
      BY <1>2, <1>3, <2>1
    <3> QED BY <2>1, <3>1 DEF Owned
  <2>2. ASSUME NEW i \in 1..Len(r), NEW t \in run, t.type = "DISABLE", Ending(r[i]), r[i].n = t.n
        PROVE  r[i].type = "DISABLE" /\ r[i].hw # t.hw
    BY <1>2, <2>2 DEF Owned
  <2>3. ASSUME NEW o \in off, NEW i \in 1..Len(r), Ending(r[i]), r[i].n = o.n
        PROVE  r[i].type = "DISABLE" /\ o.pc = "wait" /\ r[i].hw \in o.kids
    BY <1>2, <2>3 DEF Owned
  <2> QED BY <2>1, <2>2, <2>3 DEF Owned
<1>5. Numbered(r, run, off, m)
  BY <1>2 DEF Numbered
<1> QED BY <1>4, <1>5 DEF r

\* Tasks that come online with a device do not matter.
LEMMA PushOwned ==
    ASSUME NEW q, NEW r, NEW run, NEW off, Owned(q, run, off),
           \A i \in 1..Len(r) : (i \in 1..Len(q) /\ r[i] = q[i]) \/ ~Ending(r[i])
    PROVE  Owned(r, run, off)
PROOF
  BY DEF Owned

LEMMA OneTask ==
    ASSUME NEW a \in {"ON_LINE", "OFF_LINE"}, NEW n \in Nat, NEW d \in Device
    PROVE  /\ << [type |-> a, n |-> n, hw |-> d] >> \in Seq(TaskType)
           /\ Len(<< [type |-> a, n |-> n, hw |-> d] >>) = 1
           /\ << [type |-> a, n |-> n, hw |-> d] >>[1] = [type |-> a, n |-> n, hw |-> d]
PROOF
<1> DEFINE t == [type |-> a, n |-> n, hw |-> d]
<1>1. t \in TaskType
  BY DEF TaskType, Hardware
<1> HIDE DEF t
<1>2. <<t>> \in Seq(TaskType) /\ Len(<<t>>) = 1 /\ <<t>>[1] = t
  BY <1>1
<1> QED BY <1>2 DEF t

LEMMA ChildrenFacts ==
    ASSUME NEW a \in {"ENABLE", "DISABLE"}, NEW n \in Nat, NEW d \in Device
    PROVE  /\ Children(a, n, d) \in Seq(TaskType) /\ Len(Children(a, n, d)) = 2
           /\ \A i \in 1..2 : Children(a, n, d)[i].type = a /\ Children(a, n, d)[i].n = n
           /\ Children(a, n, d)[1].hw = d /\ Children(a, n, d)[2].hw = Local
PROOF
<1> DEFINE t == [type |-> a, n |-> n, hw |-> d]
           u == [type |-> a, n |-> n, hw |-> Local]
<1>1. t \in TaskType /\ u \in TaskType
  BY DEF TaskType, Hardware
<1>2. t.type = a /\ t.n = n /\ t.hw = d /\ u.type = a /\ u.n = n /\ u.hw = Local
  OBVIOUS
<1>3. Children(a, n, d) = <<t, u>>
  BY DEF Children
<1> HIDE DEF t, u
<1> QED BY <1>1, <1>2, <1>3

\* A step that leaves the tasks alone.
LEMMA TasksKept ==
    ASSUME LifecycleInv, UNCHANGED <<queue, running, offline, made>>,
           notify' \in Seq([on: BOOLEAN, dev: Device]), dm' \subseteq Device, resend' \subseteq Device,
           calls' \subseteq [by: {"dm", "resend"}, dev: Device]
    PROVE  LifecycleInv'
PROOF
<1>1. LifecycleTypeOK'
  BY DEF LifecycleInv, LifecycleTypeOK
<1>2. Numbered(queue, running, offline, made)' /\ Owned(queue, running, offline)'
  BY DEF LifecycleInv, Numbered, Owned
<1> QED BY <1>1, <1>2 DEF LifecycleInv

\* A step that pushes tasks which start hardware, or none.
LEMMA StartersPushed ==
    ASSUME LifecycleInv, NEW q \in Seq(TaskType), Owned(q, running, offline),
           Numbered(q, running, offline, made),
           \A i \in 1..Len(q) : q[i].type \in {"ON_LINE", "OFF_LINE"} => q[i].hw \in Device,
           NEW ts \in Seq(TaskType), NEW seen, Push(q, ts, seen), made' \in Nat, made <= made',
           \A i \in 1..Len(ts) : /\ ~Ending(ts[i]) /\ ts[i].n <= made'
                                 /\ ts[i].type = "ON_LINE" => ts[i].hw \in Device,
           UNCHANGED <<running, offline, notify, dm, resend>>, calls' \subseteq calls
    PROVE  LifecycleInv'
PROOF
<1>1. /\ queue' \in Seq(TaskType)
      /\ \A i \in 1..Len(queue') :
            \/ i \in 1..Len(q) /\ queue'[i] = q[i]
            \/ i - Len(q) \in 1..Len(ts) /\ queue'[i] = ts[i - Len(q)]
  BY PushFacts
<1>2. \A i \in 1..Len(queue') : (i \in 1..Len(q) /\ queue'[i] = q[i]) \/ ~Ending(queue'[i])
  BY <1>1
<1>3. Owned(queue', running, offline)
  BY <1>2, PushOwned
<1>4. LifecycleTypeOK'
  <2>1. ASSUME NEW i \in 1..Len(queue'), queue'[i].type \in {"ON_LINE", "OFF_LINE"}
        PROVE  queue'[i].hw \in Device
    BY <1>1, <2>1 DEF Ending
  <2> QED BY <1>1, <2>1 DEF LifecycleInv, LifecycleTypeOK
<1>5. made \in Nat /\ (\A t \in running : t.n \in Nat) /\ (\A o \in offline : o.n \in Nat)
      /\ (\A i \in 1..Len(q) : q[i].n \in Nat)
  <2>1. \A t \in TaskType : t.n \in Nat
    BY DEF TaskType
  <2>2. \A o \in OffLineType : o.n \in Nat
    BY DEF OffLineType
  <2>3. \A i \in 1..Len(q) : q[i] \in TaskType
    OBVIOUS
  <2> QED BY <2>1, <2>2, <2>3 DEF LifecycleInv, LifecycleTypeOK
<1>6. Numbered(queue', running, offline, made')
  <2>1. ASSUME NEW i \in 1..Len(queue') PROVE queue'[i].n <= made'
    <3>1. CASE i \in 1..Len(q) /\ queue'[i] = q[i]
      <4>1. q[i].n \in Nat /\ q[i].n <= made
        BY <1>5, <3>1 DEF Numbered
      <4> QED BY <1>5, <3>1, <4>1
    <3>2. CASE i - Len(q) \in 1..Len(ts) /\ queue'[i] = ts[i - Len(q)]
      BY <3>2
    <3> QED BY <1>1, <3>1, <3>2
  <2>2. \A t \in running : t.n <= made'
    <3>1. \A t \in running : t.n <= made /\ t.n \in Nat
      BY <1>5 DEF Numbered
    <3> QED BY <1>5, <3>1
  <2>3. \A o \in offline : o.n <= made'
    <3>1. \A o \in offline : o.n <= made /\ o.n \in Nat
      BY <1>5 DEF Numbered
    <3> QED BY <1>5, <3>1
  <2> QED BY <2>1, <2>2, <2>3 DEF Numbered
<1> QED BY <1>3, <1>4, <1>6 DEF LifecycleInv

LEMMA NumbersGiven ==
    ASSUME LifecycleInv
    PROVE  /\ made \in Nat /\ queue \in Seq(TaskType)
           /\ \A i \in 1..Len(queue) : queue[i] \in TaskType /\ queue[i].n \in Nat /\ queue[i].n <= made
           /\ \A t \in running : t \in TaskType /\ t.n \in Nat /\ t.n <= made
           /\ \A o \in offline : o \in OffLineType /\ o.n \in Nat /\ o.n <= made /\ o.dev \in Device
PROOF
<1>1. \A t \in TaskType : t.n \in Nat
  BY DEF TaskType
<1>2. \A o \in OffLineType : o.n \in Nat /\ o.dev \in Device
  BY DEF OffLineType
<1>3. queue \in Seq(TaskType) => \A i \in 1..Len(queue) : queue[i] \in TaskType
  OBVIOUS
<1> QED BY <1>1, <1>2, <1>3 DEF LifecycleInv, LifecycleTypeOK, Numbered

\* An OFF_LINE task is pushed with a new number.
LEMMA OffLinePushed ==
    ASSUME LifecycleInv, NEW d \in Device, made' = made + 1,
           Push(queue, << [type |-> "OFF_LINE", n |-> made', hw |-> d] >>, {}),
           UNCHANGED <<running, offline, dm, resend, calls>>,
           notify' \in Seq([on: BOOLEAN, dev: Device])
    PROVE  LifecycleInv'
PROOF
<1> DEFINE t == [type |-> "OFF_LINE", n |-> made', hw |-> d]
<1>0. /\ made \in Nat /\ queue \in Seq(TaskType)
      /\ \A i \in 1..Len(queue) : queue[i] \in TaskType /\ queue[i].n \in Nat /\ queue[i].n <= made
      /\ \A u \in running : u \in TaskType /\ u.n \in Nat /\ u.n <= made
      /\ \A o \in offline : o \in OffLineType /\ o.n \in Nat /\ o.n <= made /\ o.dev \in Device
  BY NumbersGiven
<1>1. t.type = "OFF_LINE" /\ t.n = made' /\ t.hw = d /\ made' \in Nat
  BY <1>0
<1>2. <<t>> \in Seq(TaskType) /\ Len(<<t>>) = 1 /\ <<t>>[1] = t
  BY <1>1, OneTask
<1> HIDE DEF t
<1>3. /\ queue' \in Seq(TaskType)
      /\ \A i \in 1..Len(queue') :
            \/ i \in 1..Len(queue) /\ queue'[i] = queue[i]
            \/ i - Len(queue) \in 1..Len(<<t>>) /\ queue'[i] = <<t>>[i - Len(queue)]
  BY <1>0, <1>2, PushFacts DEF t
<1>4. Len(queue) \in Nat /\ Len(queue') \in Nat
  BY <1>0, <1>3
<1>5. \A i \in 1..Len(queue') :
         \/ i \in 1..Len(queue) /\ queue'[i] = queue[i] /\ queue[i].n # made'
         \/ i = Len(queue) + 1 /\ queue'[i] = t
  <2> TAKE i \in 1..Len(queue')
  <2>1. CASE i \in 1..Len(queue) /\ queue'[i] = queue[i]
    BY <1>0, <2>1
  <2>2. CASE i - Len(queue) \in 1..Len(<<t>>) /\ queue'[i] = <<t>>[i - Len(queue)]
    <3>1. i = Len(queue) + 1
      BY <1>2, <1>4, <2>2
    <3> QED BY <1>2, <1>4, <2>2, <3>1
  <2> QED BY <1>3, <2>1, <2>2
<1>6. /\ \A u \in running : u.n # made' /\ u.n <= made'
      /\ \A o \in offline : o.n # made' /\ o.n <= made'
      /\ \A i \in 1..Len(queue) : queue[i].n <= made'
  BY <1>0
<1>7. Owned(queue', running, offline)
  <2>1. Owned(queue, running, offline)
    BY DEF LifecycleInv
  <2>2. ASSUME NEW i \in 1..Len(queue'), NEW j \in 1..Len(queue'), i # j,
               Ending(queue'[i]), Ending(queue'[j]), queue'[i].n = queue'[j].n
        PROVE  queue'[i].type = "DISABLE" /\ queue'[j].type = "DISABLE" /\ queue'[i].hw # queue'[j].hw
    <3>1. i \in 1..Len(queue) /\ queue'[i] = queue[i] /\ j \in 1..Len(queue) /\ queue'[j] = queue[j]
      BY <1>1, <1>5, <2>2
    <3> QED BY <2>1, <2>2, <3>1 DEF Owned
  <2>3. ASSUME NEW i \in 1..Len(queue'), NEW u \in running, u.type = "DISABLE", Ending(queue'[i]), queue'[i].n = u.n
        PROVE  queue'[i].type = "DISABLE" /\ queue'[i].hw # u.hw
    <3>1. i \in 1..Len(queue) /\ queue'[i] = queue[i]
      BY <1>1, <1>5, <1>6, <2>3
    <3> QED BY <2>1, <2>3, <3>1 DEF Owned
  <2>4. ASSUME NEW o \in offline, NEW i \in 1..Len(queue'), Ending(queue'[i]), queue'[i].n = o.n
        PROVE  queue'[i].type = "DISABLE" /\ o.pc = "wait" /\ queue'[i].hw \in o.kids
    <3>1. i \in 1..Len(queue) /\ queue'[i] = queue[i]
      BY <1>1, <1>5, <1>6, <2>4
    <3> QED BY <2>1, <2>4, <3>1 DEF Owned
  <2> QED BY <2>1, <2>2, <2>3, <2>4 DEF Owned
<1>8. Numbered(queue', running, offline, made')
  BY <1>1, <1>5, <1>6 DEF Numbered
<1>9. LifecycleTypeOK'
  <2>1. \A i \in 1..Len(queue') : queue'[i].type \in {"ON_LINE", "OFF_LINE"} => queue'[i].hw \in Device
    BY <1>1, <1>5 DEF LifecycleInv, LifecycleTypeOK
  <2> QED BY <1>1, <1>3, <2>1 DEF LifecycleInv, LifecycleTypeOK
<1> QED BY <1>7, <1>8, <1>9 DEF LifecycleInv

\* The event handler takes the first task.
LEMMA TaskTaken ==
    ASSUME LifecycleInv, queue # <<>>
    PROVE  /\ Tail(queue) \in Seq(TaskType) /\ Owned(Tail(queue), running, offline)
           /\ Numbered(Tail(queue), running, offline, made)
           /\ \A i \in 1..Len(Tail(queue)) :
                 Tail(queue)[i].type \in {"ON_LINE", "OFF_LINE"} => Tail(queue)[i].hw \in Device
           /\ Head(queue) \in TaskType /\ Head(queue).n \in Nat /\ Head(queue).n <= made
           /\ Head(queue).type \in {"ON_LINE", "OFF_LINE"} => Head(queue).hw \in Device
PROOF
<1>1. /\ queue \in Seq(TaskType) /\ Owned(queue, running, offline) /\ Numbered(queue, running, offline, made)
      /\ \A i \in 1..Len(queue) : queue[i].type \in {"ON_LINE", "OFF_LINE"} => queue[i].hw \in Device
  BY DEF LifecycleInv, LifecycleTypeOK
<1>2. /\ Tail(queue) \in Seq(TaskType) /\ Head(queue) \in TaskType /\ Head(queue) = queue[1]
      /\ Len(queue) \in Nat /\ Len(queue) >= 1
      /\ \A i \in 1..Len(Tail(queue)) : i + 1 \in 1..Len(queue) /\ Tail(queue)[i] = queue[i + 1]
  BY <1>1, TailFacts
<1>3. Owned(Tail(queue), running, offline) /\ Numbered(Tail(queue), running, offline, made)
  BY <1>1, TailOwned
<1>4. \A i \in 1..Len(Tail(queue)) :
         Tail(queue)[i].type \in {"ON_LINE", "OFF_LINE"} => Tail(queue)[i].hw \in Device
  BY <1>1, <1>2
<1>5. 1 \in 1..Len(queue)
  BY <1>2
<1>6. Head(queue).n \in Nat /\ Head(queue).n <= made
  BY <1>2, <1>5, NumbersGiven
<1> QED BY <1>1, <1>2, <1>3, <1>4, <1>5, <1>6

-----------------------------------------------------------------------------
(* The tasks.                                                              *)

LEMMA StartTaskKeeps ==
    ASSUME LifecycleInv, StartTask
    PROVE  LifecycleInv'
PROOF
<1> DEFINE t == Head(queue)
           q == Tail(queue)
<1>1. /\ queue # <<>> /\ queue' = q /\ UNCHANGED <<made, notify, dm, resend, calls>>
      /\ \/ /\ t.type = "OFF_LINE" /\ UNCHANGED running
            /\ offline' = offline \cup {[n |-> t.n, dev |-> t.hw, kids |-> {}, pc |-> "create"]}
         \/ t.type # "OFF_LINE" /\ running' = running \cup {t} /\ UNCHANGED offline
  BY Zenon DEF StartTask, device
<1>2. /\ q \in Seq(TaskType) /\ Owned(q, running, offline) /\ Numbered(q, running, offline, made)
      /\ \A i \in 1..Len(q) : q[i].type \in {"ON_LINE", "OFF_LINE"} => q[i].hw \in Device
      /\ t \in TaskType /\ t.n \in Nat /\ t.n <= made
      /\ t.type \in {"ON_LINE", "OFF_LINE"} => t.hw \in Device
  BY <1>1, TaskTaken
<1>3. queue \in Seq(TaskType) /\ Owned(queue, running, offline)
  BY DEF LifecycleInv, LifecycleTypeOK
<1>4. /\ t = queue[1] /\ 1 \in 1..Len(queue)
      /\ \A i \in 1..Len(q) : i + 1 \in 1..Len(queue) /\ i + 1 # 1 /\ q[i] = queue[i + 1]
  <2>1. /\ Head(queue) = queue[1] /\ Len(queue) \in Nat /\ Len(queue) >= 1
        /\ \A i \in 1..Len(Tail(queue)) : i + 1 \in 1..Len(queue) /\ Tail(queue)[i] = queue[i + 1]
    BY <1>1, <1>3, TailFacts
  <2>2. \A i \in 1..Len(q) : i + 1 # 1
    OBVIOUS
  <2> QED BY <2>1, <2>2
<1> HIDE DEF t, q
<1>5. Ending(t) => \A i \in 1..Len(q) : Ending(q[i]) /\ q[i].n = t.n =>
                      t.type = "DISABLE" /\ q[i].type = "DISABLE" /\ q[i].hw # t.hw
  <2> SUFFICES ASSUME Ending(t), NEW i \in 1..Len(q), Ending(q[i]), q[i].n = t.n
               PROVE  t.type = "DISABLE" /\ q[i].type = "DISABLE" /\ q[i].hw # t.hw
    OBVIOUS
  <2>1. 1 \in 1..Len(queue) /\ i + 1 \in 1..Len(queue) /\ 1 # i + 1 /\ t = queue[1] /\ q[i] = queue[i + 1]
    BY <1>4
  <2> QED BY <1>3, <2>1 DEF Owned
<1>6. CASE /\ t.type = "OFF_LINE" /\ UNCHANGED running
           /\ offline' = offline \cup {[n |-> t.n, dev |-> t.hw, kids |-> {}, pc |-> "create"]}
  <2> DEFINE o == [n |-> t.n, dev |-> t.hw, kids |-> {}, pc |-> "create"]
  <2>1. o \in OffLineType /\ o.n = t.n
    BY <1>2, <1>6 DEF OffLineType
  <2>2. offline' = offline \cup {o}
    BY <1>6
  <2> HIDE DEF o
  <2>3. Ending(t)
    BY <1>6 DEF Ending
  <2>4. \A p \in offline : p.n # t.n
    BY <1>3, <1>4, <1>6, <2>3 DEF Owned
  <2>5. \A i \in 1..Len(q) : ~(Ending(q[i]) /\ q[i].n = t.n)
    BY <1>5, <1>6, <2>3
  <2>6. \A u \in running : ~(u.type = "DISABLE" /\ u.n = t.n)
    BY <1>3, <1>4, <1>6, <2>3 DEF Owned
  <2>7. Owned(q, running, offline')
    BY <1>2, <2>1, <2>2, <2>4, <2>5, <2>6 DEF Owned
  <2>8. Numbered(q, running, offline', made)
    BY <1>2, <2>1, <2>2 DEF Numbered
  <2>9. LifecycleTypeOK'
    BY <1>1, <1>2, <1>6, <2>1, <2>2 DEF LifecycleInv, LifecycleTypeOK
  <2> QED BY <1>1, <1>6, <2>7, <2>8, <2>9 DEF LifecycleInv
<1>7. CASE t.type # "OFF_LINE" /\ running' = running \cup {t} /\ UNCHANGED offline
  <2>1. Owned(q, running', offline)
    <3>1. CASE t.type = "DISABLE"
      <4>1. Ending(t)
        BY <3>1 DEF Ending
      <4>2. \A p \in offline : p.n = t.n => p.pc = "wait" /\ t.hw \in p.kids
        BY <1>3, <1>4, <4>1 DEF Owned
      <4> QED BY <1>2, <1>5, <1>7, <4>1, <4>2 DEF Owned
    <3>2. CASE t.type # "DISABLE"
      BY <1>2, <1>7, <3>2 DEF Owned
    <3> QED BY <3>1, <3>2
  <2>2. Numbered(q, running', offline, made)
    BY <1>2, <1>7 DEF Numbered
  <2>3. LifecycleTypeOK'
    BY <1>1, <1>2, <1>7 DEF LifecycleInv, LifecycleTypeOK
  <2> QED BY <1>1, <1>7, <2>1, <2>2, <2>3 DEF LifecycleInv
<1> QED BY <1>1, <1>6, <1>7

\* A DISABLE task ends and tells its father: nobody else carries its number and hardware.
LEMMA DisableTaskKeeps ==
    ASSUME LifecycleInv, NEW t \in running, DisableTask(t)
    PROVE  LifecycleInv'
PROOF
<1> DEFINE N(o) == IF o.n = t.n THEN [o EXCEPT !.kids = @ \ {t.hw}] ELSE o
<1>1. /\ t.type = "DISABLE" /\ running' = running \ {t}
      /\ UNCHANGED <<queue, made, notify, dm, resend, calls>>
      /\ offline' = {N(o) : o \in offline}
  BY DEF DisableTask, NotifyFatherFinish, device
<1>2. /\ \A u \in running : u \in TaskType
      /\ \A o \in offline : o \in OffLineType
      /\ Owned(queue, running, offline) /\ Numbered(queue, running, offline, made)
  BY DEF LifecycleInv, LifecycleTypeOK
<1>3. ASSUME NEW o \in offline
      PROVE  /\ N(o) \in OffLineType /\ N(o).n = o.n /\ N(o).pc = o.pc
             /\ N(o).kids = IF o.n = t.n THEN o.kids \ {t.hw} ELSE o.kids
  <2>1. o \in OffLineType
    BY <1>2
  <2> QED BY <2>1 DEF OffLineType
<1>4. \A p \in offline' : \E o \in offline : p = N(o)
  BY <1>1
<1> HIDE DEF N
<1>5. \A u \in running' : u \in running /\ (u.type = "DISABLE" /\ u.n = t.n => u.hw # t.hw)
  <2> SUFFICES ASSUME NEW u \in running, u # t, u.type = "DISABLE", u.n = t.n PROVE u.hw # t.hw
    BY <1>1
  <2> QED BY <1>1, <1>2 DEF TaskType
<1>6. Owned(queue, running', offline')
  <2>1. ASSUME NEW p \in offline', NEW i \in 1..Len(queue), Ending(queue[i]), queue[i].n = p.n
        PROVE  queue[i].type = "DISABLE" /\ p.pc = "wait" /\ queue[i].hw \in p.kids
    <3>1. PICK o \in offline : p = N(o)
      BY <1>4
    <3>2. p.n = o.n /\ p.pc = o.pc /\ p.kids = IF o.n = t.n THEN o.kids \ {t.hw} ELSE o.kids
      BY <1>3, <3>1
    <3>3. queue[i].type = "DISABLE" /\ o.pc = "wait" /\ queue[i].hw \in o.kids
      BY <1>2, <2>1, <3>2 DEF Owned
    <3>4. o.n = t.n => queue[i].hw # t.hw
      BY <1>1, <1>2, <2>1, <3>2 DEF Owned
    <3> QED BY <3>2, <3>3, <3>4
  <2>2. ASSUME NEW p \in offline', NEW u \in running', u.type = "DISABLE", u.n = p.n
        PROVE  p.pc = "wait" /\ u.hw \in p.kids
    <3>1. PICK o \in offline : p = N(o)
      BY <1>4
    <3>2. p.n = o.n /\ p.pc = o.pc /\ p.kids = IF o.n = t.n THEN o.kids \ {t.hw} ELSE o.kids
      BY <1>3, <3>1
    <3>3. o.pc = "wait" /\ u.hw \in o.kids
      BY <1>2, <1>5, <2>2, <3>2 DEF Owned
    <3> QED BY <1>5, <2>2, <3>2, <3>3
  <2>3. ASSUME NEW p \in offline', NEW r \in offline', p.n = r.n PROVE p = r
    <3>1. PICK o \in offline : p = N(o)
      BY <1>4
    <3>2. PICK s \in offline : r = N(s)
      BY <1>4
    <3>3. p.n = o.n /\ r.n = s.n
      BY <1>3, <3>1, <3>2
    <3>4. o = s
      BY <1>2, <2>3, <3>3 DEF Owned
    <3> QED BY <3>1, <3>2, <3>4
  <2> QED BY <1>2, <1>5, <2>1, <2>2, <2>3 DEF Owned
<1>7. Numbered(queue, running', offline', made)
  <2>1. ASSUME NEW p \in offline' PROVE p.n <= made
    <3>1. PICK o \in offline : p = N(o)
      BY <1>4
    <3> QED BY <1>2, <1>3, <3>1 DEF Numbered
  <2> QED BY <1>2, <1>5, <2>1 DEF Numbered
<1>8. LifecycleTypeOK'
  <2>1. offline' \subseteq OffLineType
    BY <1>3, <1>4
  <2> QED BY <1>1, <2>1 DEF LifecycleInv, LifecycleTypeOK
<1> QED BY <1>1, <1>6, <1>7, <1>8 DEF LifecycleInv

-----------------------------------------------------------------------------
(* The OFF_LINE task.                                                      *)

\* CreateDisableTask: its number is on no other task, so the children are the only ones.
LEMMA CreateDisableKeeps ==
    ASSUME LifecycleInv, NEW o \in offline, CreateDisableTask(o), UNCHANGED <<made, notify, dm, calls>>
    PROVE  LifecycleInv'
PROOF
<1> DEFINE w == [o EXCEPT !.pc = "wait", !.kids = {o.dev, Local}]
           ts == Children("DISABLE", o.n, o.dev)
<1>1. /\ o.pc = "create" /\ offline' = (offline \ {o}) \cup {w} /\ Push(queue, ts, {})
      /\ UNCHANGED <<running, resend>>
  BY DEF CreateDisableTask
<1>2. /\ made \in Nat /\ queue \in Seq(TaskType)
      /\ \A i \in 1..Len(queue) : queue[i] \in TaskType /\ queue[i].n \in Nat /\ queue[i].n <= made
      /\ \A u \in running : u \in TaskType /\ u.n \in Nat /\ u.n <= made
      /\ \A p \in offline : p \in OffLineType /\ p.n \in Nat /\ p.n <= made /\ p.dev \in Device
  BY NumbersGiven
<1>3. w \in OffLineType /\ w.n = o.n /\ w.pc = "wait" /\ w.kids = {o.dev, Local}
  BY <1>2 DEF OffLineType, Hardware
<1>4. /\ ts \in Seq(TaskType) /\ Len(ts) = 2
      /\ \A i \in 1..2 : ts[i].type = "DISABLE" /\ ts[i].n = o.n
      /\ ts[1].hw = o.dev /\ ts[2].hw = Local /\ o.dev # Local
  BY <1>2, ChildrenFacts, LifecycleConstants
<1> HIDE DEF w, ts
<1>5. /\ queue' \in Seq(TaskType)
      /\ \A i \in 1..Len(queue') :
            \/ i \in 1..Len(queue) /\ queue'[i] = queue[i]
            \/ i - Len(queue) \in 1..Len(ts) /\ queue'[i] = ts[i - Len(queue)]
  BY <1>1, <1>2, <1>4, PushFacts
<1>6. Len(queue) \in Nat /\ Owned(queue, running, offline) /\ Numbered(queue, running, offline, made)
  BY <1>2 DEF LifecycleInv
<1>7. /\ \A i \in 1..Len(queue) : ~(Ending(queue[i]) /\ queue[i].n = o.n)
      /\ \A u \in running : ~(u.type = "DISABLE" /\ u.n = o.n)
      /\ \A p \in offline' : p = w \/ (p \in offline /\ p.n # o.n)
  BY <1>1, <1>6 DEF Owned
<1>8. \A i \in 1..Len(queue') :
         \/ i \in 1..Len(queue) /\ queue'[i] = queue[i]
         \/ /\ queue'[i].type = "DISABLE" /\ queue'[i].n = o.n
            /\ \/ i = Len(queue) + 1 /\ queue'[i].hw = o.dev
               \/ i = Len(queue) + 2 /\ queue'[i].hw = Local
  <2> TAKE i \in 1..Len(queue')
  <2>1. CASE i - Len(queue) \in 1..Len(ts) /\ queue'[i] = ts[i - Len(queue)]
    <3>1. \/ i = Len(queue) + 1 /\ i - Len(queue) = 1
          \/ i = Len(queue) + 2 /\ i - Len(queue) = 2
      BY <1>4, <1>6, <2>1
    <3> QED BY <1>4, <2>1, <3>1
  <2> QED BY <1>5, <2>1
<1>9. Owned(queue', running, offline')
  <2>1. ASSUME NEW i \in 1..Len(queue'), NEW j \in 1..Len(queue'), i # j,
               Ending(queue'[i]), Ending(queue'[j]), queue'[i].n = queue'[j].n
        PROVE  queue'[i].type = "DISABLE" /\ queue'[j].type = "DISABLE" /\ queue'[i].hw # queue'[j].hw
    <3>1. CASE i \in 1..Len(queue) /\ queue'[i] = queue[i]
      <4>1. j \in 1..Len(queue) /\ queue'[j] = queue[j]
        BY <1>7, <1>8, <2>1, <3>1
      <4> QED BY <1>6, <2>1, <3>1, <4>1 DEF Owned
    <3>2. CASE ~(i \in 1..Len(queue) /\ queue'[i] = queue[i])
      <4>1. ~(j \in 1..Len(queue) /\ queue'[j] = queue[j])
        BY <1>7, <1>8, <2>1, <3>2
      <4> QED BY <1>4, <1>8, <2>1, <3>2, <4>1
    <3> QED BY <3>1, <3>2
  <2>2. ASSUME NEW i \in 1..Len(queue'), NEW u \in running, u.type = "DISABLE", Ending(queue'[i]), queue'[i].n = u.n
        PROVE  queue'[i].type = "DISABLE" /\ queue'[i].hw # u.hw
    <3>1. i \in 1..Len(queue) /\ queue'[i] = queue[i]
      BY <1>7, <1>8, <2>2
    <3> QED BY <1>6, <2>2, <3>1 DEF Owned
  <2>3. ASSUME NEW p \in offline', NEW i \in 1..Len(queue'), Ending(queue'[i]), queue'[i].n = p.n
        PROVE  queue'[i].type = "DISABLE" /\ p.pc = "wait" /\ queue'[i].hw \in p.kids
    <3>1. CASE p = w
      <4>1. ~(i \in 1..Len(queue) /\ queue'[i] = queue[i])
        BY <1>3, <1>7, <2>3, <3>1
      <4> QED BY <1>3, <1>8, <2>3, <3>1, <4>1
    <3>2. CASE p \in offline /\ p.n # o.n
      <4>1. i \in 1..Len(queue) /\ queue'[i] = queue[i]
        BY <1>8, <2>3, <3>2
      <4> QED BY <1>6, <2>3, <3>2, <4>1 DEF Owned
    <3> QED BY <1>7, <3>1, <3>2
  <2>4. ASSUME NEW p \in offline', NEW u \in running, u.type = "DISABLE", u.n = p.n
        PROVE  p.pc = "wait" /\ u.hw \in p.kids
    BY <1>3, <1>6, <1>7, <2>4 DEF Owned
  <2>5. ASSUME NEW p \in offline', NEW r \in offline', p.n = r.n PROVE p = r
    BY <1>3, <1>6, <1>7, <2>5 DEF Owned
  <2> QED BY <2>1, <2>2, <2>3, <2>4, <2>5 DEF Owned
<1>10. Numbered(queue', running, offline', made)
  BY <1>2, <1>3, <1>7, <1>8 DEF Numbered
<1>11. LifecycleTypeOK'
  <2>1. \A i \in 1..Len(queue') : queue'[i].type \in {"ON_LINE", "OFF_LINE"} => queue'[i].hw \in Device
    BY <1>8 DEF LifecycleInv, LifecycleTypeOK
  <2>2. offline' \subseteq OffLineType
    BY <1>2, <1>3, <1>7
  <2> QED BY <1>1, <1>5, <2>1, <2>2 DEF LifecycleInv, LifecycleTypeOK
<1> QED BY <1>1, <1>9, <1>10, <1>11 DEF LifecycleInv

\* A later step of the OFF_LINE task: none of its children is left, and it goes on or ends.
LEMMA OffLineGoesOn ==
    ASSUME LifecycleInv, NEW o \in offline, o.pc # "wait" \/ o.kids = {}, NEW pc,
           pc \in {"clear", "uninit", "flags", "check"}, Step(o, pc) \/ Finish(o),
           UNCHANGED <<queue, running, made, notify, dm, calls>>, resend' \subseteq Device
    PROVE  LifecycleInv'
PROOF
<1> DEFINE w == [o EXCEPT !.pc = pc]
<1>1. Owned(queue, running, offline) /\ Numbered(queue, running, offline, made) /\ offline \subseteq OffLineType
  BY DEF LifecycleInv, LifecycleTypeOK
<1>2. w \in OffLineType /\ w.n = o.n
  BY <1>1 DEF OffLineType
<1>3. offline' = (offline \ {o}) \cup {w} \/ offline' = offline \ {o}
  BY DEF Step, Finish
<1> HIDE DEF w
<1>4. /\ \A i \in 1..Len(queue) : ~(Ending(queue[i]) /\ queue[i].n = o.n)
      /\ \A u \in running : ~(u.type = "DISABLE" /\ u.n = o.n)
  BY <1>1 DEF Owned
<1>5. \A p \in offline' : p = w \/ (p \in offline /\ p.n # o.n)
  BY <1>1, <1>3 DEF Owned
<1>6. Owned(queue, running, offline')
  BY <1>1, <1>2, <1>4, <1>5 DEF Owned
<1>7. Numbered(queue, running, offline', made)
  BY <1>1, <1>2, <1>5 DEF Numbered
<1>8. LifecycleTypeOK'
  <2>1. offline' \subseteq OffLineType
    BY <1>1, <1>2, <1>5
  <2> QED BY <2>1 DEF LifecycleInv, LifecycleTypeOK
<1> QED BY <1>6, <1>7, <1>8 DEF LifecycleInv

LEMMA OffLineStepKeeps ==
    ASSUME LifecycleInv, NEW o \in offline, OffLineStep(o)
    PROVE  LifecycleInv'
PROOF
<1>0. UNCHANGED <<made, notify, dm, calls>> /\ dm \subseteq Device /\ resend \subseteq Device
  BY DEF OffLineStep, device, LifecycleInv, LifecycleTypeOK
<1>1. CASE CreateDisableTask(o)
  BY <1>0, <1>1, CreateDisableKeeps
<1>2. CASE WaitDisableTaskFinish(o)
  <2>1. o.kids = {} /\ Step(o, "clear") /\ UNCHANGED <<queue, running, resend>>
    BY <1>2 DEF WaitDisableTaskFinish
  <2> QED BY <1>0, <2>1, OffLineGoesOn
<1>3. CASE ClearOffLineInfo(o)
  <2>1. o.pc = "clear" /\ (Step(o, "uninit") \/ Finish(o)) /\ UNCHANGED <<queue, running, resend>>
    BY <1>3, Zenon DEF ClearOffLineInfo
  <2> QED BY <1>0, <2>1, OffLineGoesOn
<1>4. CASE UnInit(o)
  <2>1. o.pc = "uninit" /\ (Step(o, "flags") \/ Finish(o)) /\ UNCHANGED <<queue, running, resend>>
    BY <1>4, Zenon DEF UnInit
  <2> QED BY <1>0, <2>1, OffLineGoesOn
<1>5. CASE ClearFlags(o)
  <2>1. o.pc = "flags" /\ Step(o, "check") /\ UNCHANGED <<queue, running, resend>>
    BY <1>5 DEF ClearFlags
  <2> QED BY <1>0, <2>1, OffLineGoesOn
<1>6. CASE CheckExitSAOrNot(o)
  <2>1. /\ o.pc = "check" /\ Finish(o) /\ UNCHANGED <<queue, running>>
        /\ resend' = resend \/ resend' = resend \cup dm
    BY <1>6, Zenon DEF CheckExitSAOrNot
  <2>2. resend' \subseteq Device
    BY <1>0, <2>1
  <2> QED BY <1>0, <2>1, <2>2, OffLineGoesOn
<1> QED BY <1>1, <1>2, <1>3, <1>4, <1>5, <1>6, Zenon DEF OffLineStep

LEMMA LifecycleStep == LifecycleInv /\ [Next]_vars => LifecycleInv'
PROOF
<1> SUFFICES ASSUME LifecycleInv, [Next]_vars PROVE LifecycleInv'
  OBVIOUS
<1> USE DEF device, context, tasks
<1>t. /\ queue \in Seq(TaskType) /\ made \in Nat /\ dm \subseteq Device /\ resend \subseteq Device
      /\ notify \in Seq([on: BOOLEAN, dev: Device])
      /\ calls \subseteq [by: {"dm", "resend"}, dev: Device]
      /\ Owned(queue, running, offline) /\ Numbered(queue, running, offline, made)
      /\ \A i \in 1..Len(queue) : queue[i].type \in {"ON_LINE", "OFF_LINE"} => queue[i].hw \in Device
  BY DEF LifecycleInv, LifecycleTypeOK
<1>n. notify # <<>> => /\ Tail(notify) \in Seq([on: BOOLEAN, dev: Device])
                       /\ Head(notify).dev \in Device
  <2> SUFFICES ASSUME notify # <<>>
               PROVE  Tail(notify) \in Seq([on: BOOLEAN, dev: Device]) /\ Head(notify).dev \in Device
    OBVIOUS
  <2>1. Tail(notify) \in Seq([on: BOOLEAN, dev: Device]) /\ Head(notify) \in [on: BOOLEAN, dev: Device]
    BY <1>t, TailFacts
  <2> QED BY <2>1
<1>1. ASSUME NEW d \in Device, DmOnline(d) \/ DmOffline(d) PROVE LifecycleInv'
  <2>1. /\ UNCHANGED <<queue, running, offline, made, resend, calls>>
        /\ dm' = dm \cup {d} \/ dm' = dm \ {d}
        /\ \E b \in BOOLEAN : notify' = Append(notify, [on |-> b, dev |-> d])
    BY <1>1, Zenon DEF DmOnline, DmOffline
  <2>2. notify' \in Seq([on: BOOLEAN, dev: Device])
    <3>1. PICK b \in BOOLEAN : notify' = Append(notify, [on |-> b, dev |-> d])
      BY <2>1
    <3>2. [on |-> b, dev |-> d] \in [on: BOOLEAN, dev: Device]
      OBVIOUS
    <3> QED BY <1>t, <3>1, <3>2
  <2>3. dm' \subseteq Device /\ resend' \subseteq Device /\ calls' = calls
    BY <1>t, <2>1
  <2> QED BY <1>t, <2>1, <2>2, <2>3, TasksKept
<1>2. CASE IsomerismChanges \/ UNCHANGED vars
  <2>1. UNCHANGED <<queue, running, offline, made, resend, calls, notify, dm>>
    BY <1>2, Zenon DEF IsomerismChanges, vars
  <2> QED BY <1>t, <2>1, TasksKept
<1>3. ASSUME NEW by \in {"dm", "resend"}, NEW d \in Device, CheckOnLine(by, d)
      PROVE  calls' \subseteq [by: {"dm", "resend"}, dev: Device]
  <2>1. [by |-> by, dev |-> d] \in [by: {"dm", "resend"}, dev: Device]
    BY <1>3
  <2>2. calls' = calls \/ calls' = calls \cup {[by |-> by, dev |-> d]}
    BY <1>3, Zenon DEF CheckOnLine
  <2> QED BY <1>t, <2>1, <2>2
<1>4. CASE OnDeviceOnline
  <2>1. /\ notify # <<>> /\ notify' = Tail(notify) /\ CheckOnLine("dm", Head(notify).dev)
        /\ UNCHANGED <<queue, running, offline, made, resend, dm>>
    BY <1>4, Zenon DEF OnDeviceOnline
  <2>2. calls' \subseteq [by: {"dm", "resend"}, dev: Device]
    BY <1>3, <1>n, <2>1
  <2> QED BY <1>t, <1>n, <2>1, <2>2, TasksKept
<1>5. ASSUME NEW d \in resend, ResendOnLine(d) PROVE LifecycleInv'
  <2>1. /\ resend' = resend \ {d} /\ CheckOnLine("resend", d)
        /\ UNCHANGED <<queue, running, offline, made, notify, dm>>
    BY <1>5, Zenon DEF ResendOnLine
  <2>2. calls' \subseteq [by: {"dm", "resend"}, dev: Device]
    BY <1>3, <1>t, <2>1
  <2>3. resend' \subseteq Device
    BY <1>t, <2>1
  <2> QED BY <1>t, <2>1, <2>2, <2>3, TasksKept
<1>6. ASSUME NEW c \in calls, SendOnLineEvent(c) PROVE LifecycleInv'
  <2> DEFINE x == [type |-> "ON_LINE", n |-> made', hw |-> c.dev]
  <2>1. PICK seen : /\ calls' = calls \ {c} /\ made' = made + 1 /\ Push(queue, <<x>>, seen)
                    /\ UNCHANGED <<running, offline, notify, dm, resend>>
    BY <1>6, Zenon DEF SendOnLineEvent
  <2>2. made' \in Nat /\ made <= made' /\ made' <= made' /\ c.dev \in Device /\ calls' \subseteq calls
    BY <1>t, <2>1
  <2>3. x.type = "ON_LINE" /\ x.n = made' /\ x.hw = c.dev
    OBVIOUS
  <2>4. <<x>> \in Seq(TaskType) /\ Len(<<x>>) = 1 /\ <<x>>[1] = x
    BY <2>2, OneTask
  <2> HIDE DEF x
  <2>5. \A i \in 1..Len(<<x>>) : /\ ~Ending(<<x>>[i]) /\ <<x>>[i].n <= made'
                                 /\ <<x>>[i].type = "ON_LINE" => <<x>>[i].hw \in Device
    <3> TAKE i \in 1..Len(<<x>>)
    <3>1. i = 1
      BY <2>4
    <3> QED BY <2>2, <2>3, <2>4, <3>1 DEF Ending
  <2> QED BY <1>t, <2>1, <2>2, <2>4, <2>5, StartersPushed
<1>7. CASE OnDeviceOffline
  <2>1. notify # <<>> /\ notify' = Tail(notify) /\ UNCHANGED <<dm, calls, resend>>
    BY <1>7, Zenon DEF OnDeviceOffline
  <2>2. CASE UNCHANGED <<queue, running, offline, made>>
    BY <1>t, <1>n, <2>1, <2>2, TasksKept
  <2>3. CASE /\ made' = made + 1 /\ UNCHANGED <<running, offline>>
             /\ Push(queue, << [type |-> "OFF_LINE", n |-> made', hw |-> Head(notify).dev] >>, {})
    <3>1. Head(notify).dev \in Device /\ notify' \in Seq([on: BOOLEAN, dev: Device])
      BY <1>n, <2>1
    <3> QED BY <2>1, <2>3, <3>1, OffLinePushed
  <2> QED BY <1>7, <2>2, <2>3, Zenon DEF OnDeviceOffline
<1>8. CASE OnLineTask
  <2> DEFINE ts == Children("ENABLE", Head(queue).n, Head(queue).hw)
  <2>1. /\ queue # <<>> /\ Head(queue).type = "ON_LINE" /\ Push(Tail(queue), ts, {})
        /\ UNCHANGED <<running, offline, made, notify, dm, resend, calls>>
    BY <1>8, Zenon DEF OnLineTask
  <2>2. /\ Tail(queue) \in Seq(TaskType) /\ Owned(Tail(queue), running, offline)
        /\ Numbered(Tail(queue), running, offline, made)
        /\ \A i \in 1..Len(Tail(queue)) :
              Tail(queue)[i].type \in {"ON_LINE", "OFF_LINE"} => Tail(queue)[i].hw \in Device
        /\ Head(queue).n \in Nat /\ Head(queue).n <= made /\ Head(queue).hw \in Device
    BY <2>1, TaskTaken
  <2>3. /\ ts \in Seq(TaskType) /\ Len(ts) = 2
        /\ \A i \in 1..2 : ts[i].type = "ENABLE" /\ ts[i].n = Head(queue).n
    BY <2>2, ChildrenFacts
  <2> HIDE DEF ts
  <2>4. made' \in Nat /\ made <= made' /\ calls' \subseteq calls
    BY <1>t, <2>1
  <2>5. \A i \in 1..Len(ts) : /\ ~Ending(ts[i]) /\ ts[i].n <= made'
                              /\ ts[i].type = "ON_LINE" => ts[i].hw \in Device
    BY <2>1, <2>2, <2>3 DEF Ending
  <2> QED BY <2>1, <2>2, <2>3, <2>4, <2>5, StartersPushed
<1>9. CASE StartTask
  BY <1>9, StartTaskKeeps
<1>10. ASSUME NEW t \in running, EnableTask(t) PROVE LifecycleInv'
  <2>1. /\ running' = running \ {t}
        /\ UNCHANGED <<queue, offline, made, notify, dm, resend, calls>>
    BY <1>10, Zenon DEF EnableTask
  <2>2. Owned(queue, running', offline)
    BY <1>t, <2>1 DEF Owned
  <2>3. Numbered(queue, running', offline, made)
    BY <1>t, <2>1 DEF Numbered
  <2>4. LifecycleTypeOK'
    BY <2>1 DEF LifecycleInv, LifecycleTypeOK
  <2> QED BY <2>1, <2>2, <2>3, <2>4 DEF LifecycleInv
<1>11. ASSUME NEW t \in running, DisableTask(t) PROVE LifecycleInv'
  BY <1>11, DisableTaskKeeps
<1>12. ASSUME NEW o \in offline, OffLineStep(o) PROVE LifecycleInv'
  BY <1>12, OffLineStepKeeps
<1> QED BY <1>1, <1>2, <1>4, <1>5, <1>6, <1>7, <1>8, <1>9, <1>10, <1>11, <1>12, Zenon
      DEF Next, Network, Callbacks

LEMMA LifecycleInit == Init => LifecycleInv
PROOF
<1> SUFFICES ASSUME Init PROVE LifecycleInv
  OBVIOUS
<1>1. LifecycleTypeOK
  BY DEF Init, LifecycleTypeOK
<1>2. Numbered(queue, running, offline, made)
  BY DEF Init, Numbered
<1>3. Owned(queue, running, offline)
  BY DEF Init, Owned
<1> QED BY <1>1, <1>2, <1>3 DEF LifecycleInv

\* ClearOffLineInfo, the release and whatever else an OFF_LINE task does once it has
\* forgotten its device come only after all the DISABLE tasks it made have run: however
\* the tasks of other devices interleave, whatever was refused by a full queue, and
\* although the numbers are all that ties a child to its father.
THEOREM ForgottenAfterDisable == Spec => []ForgottenOnlyAfterDisable
PROOF
<1>1. LifecycleInv => ForgottenOnlyAfterDisable
  BY DEF LifecycleInv, Owned, Ending, ForgottenOnlyAfterDisable
<1> QED BY <1>1, LifecycleInit, LifecycleStep, PTL DEF Spec

-----------------------------------------------------------------------------
(* What is known and enabled, as long as nothing goes wrong.               *)

\* A task of a type for hardware h is in the queue; every task of the first type for h
\* has one of the second type behind it; one runs.
Has(q, type, h) == \E i \in 1..Len(q) : q[i].type = type /\ q[i].hw = h
Followed(q, first, second, h) ==
    \A i \in 1..Len(q) : q[i].type = first /\ q[i].hw = h =>
        \E j \in 1..Len(q) : i < j /\ q[j].type = second /\ q[j].hw = h
Runs(run, type, h) == \E t \in run : t.type = type /\ t.hw = h

\* An OFF_LINE task of d has come to pc; one has still to make its DISABLE tasks; one has
\* still to forget d.
At(off, pc, d) == \E o \in off : o.dev = d /\ o.pc = pc
ToDisable(q, off, d) == At(off, "create", d) \/ Has(q, "OFF_LINE", d)
Leaves(q, off, d) == At(off, "wait", d) \/ ToDisable(q, off, d)

\* A DISABLE task has a father that waits for it.
HasFather(t, off) ==
    \E o \in off : o.n = t.n /\ o.pc = "wait" /\ t.hw \in o.kids /\ o.kids \subseteq {o.dev, Local}
Fathered(q, run, off) ==
    /\ \A i \in 1..Len(q) : q[i].type = "DISABLE" => HasFather(q[i], off)
    /\ \A t \in run : t.type = "DISABLE" => HasFather(t, off)

\* A callback about d is on its way, and the last one says what DeviceManager knows.
Told(ns, d) == \E i \in 1..Len(ns) : ns[i].dev = d
LastTold(ns, on) ==
    \A i \in 1..Len(ns) : \/ ns[i].on <=> ns[i].dev \in on
                          \/ \E j \in 1..Len(ns) : i < j /\ ns[j].dev = ns[i].dev

Clean == flaws = {} /\ ~exited

\* A device is in the entries and not in the realtime set only while it leaves.
KnownInv ==
    /\ entries \subseteq Device /\ realTime \subseteq entries
    /\ \A d \in entries : d \in realTime \/ Leaves(queue, offline, d)
    /\ \A d \in realTime : ~Leaves(queue, offline, d)

\* Where the realtime set and DeviceManager differ, something is on its way that makes
\* them agree, or the framework refuses devices until it is released.
ToldInv ==
    /\ LastTold(notify, dm)
    /\ \A d \in realTime : d \in dm \/ Told(notify, d)
    /\ \A d \in dm : \/ d \in realTime \/ flagUnInit \/ Told(notify, d) \/ d \in resend
                     \/ (\E c \in calls : c.dev = d) \/ \E o \in offline : o.pc = "check"

\* The hardware of a device in the realtime set, and the local hardware with it, is
\* enabled or a task will enable it.
EnableInv ==
    /\ \A d \in realTime : \/ d \in enabled \/ Has(queue, "ON_LINE", d)
                           \/ Has(queue, "ENABLE", d) \/ Runs(running, "ENABLE", d)
    /\ realTime # {} => \/ Local \in enabled \/ (\E d \in Device : Has(queue, "ON_LINE", d))
                        \/ Has(queue, "ENABLE", Local) \/ Runs(running, "ENABLE", Local)

\* The hardware of any other device is not enabled and will not be, or a task that comes
\* after all that enable it will disable it.
Disabled(d) ==
    /\ Followed(queue, "ON_LINE", "OFF_LINE", d)
    /\ \/ ToDisable(queue, offline, d)
       \/ /\ Followed(queue, "ENABLE", "DISABLE", d)
          /\ Runs(running, "ENABLE", d) => Has(queue, "DISABLE", d)
          /\ d \in enabled => Has(queue, "DISABLE", d) \/ Runs(running, "DISABLE", d)
DisableInv == \A d \in Device \ realTime : Disabled(d)

CleanInv ==
    KnownInv /\ ToldInv /\ Fathered(queue, running, offline) /\ EnableInv /\ DisableInv

LEMMA HasGrows ==
    ASSUME NEW q \in Seq(TaskType), NEW ts \in Seq(TaskType)
    PROVE  /\ \A type, h : Has(q \o ts, type, h) <=> Has(q, type, h) \/ Has(ts, type, h)
           /\ \A a, b, h : (Followed(q, a, b, h) \/ Has(ts, b, h)) /\ ~Has(ts, a, h) => Followed(q \o ts, a, b, h)
PROOF
<1> DEFINE r == q \o ts
<1>1. /\ Len(q) \in Nat /\ Len(ts) \in Nat /\ Len(r) = Len(q) + Len(ts)
      /\ \A i \in 1..Len(q) : i \in 1..Len(r) /\ r[i] = q[i]
      /\ \A i \in 1..Len(ts) : Len(q) + i \in 1..Len(r) /\ r[Len(q) + i] = ts[i]
  OBVIOUS
<1>2. \A i \in 1..Len(r) : \/ i \in 1..Len(q) /\ r[i] = q[i]
                           \/ i > Len(q) /\ i - Len(q) \in 1..Len(ts) /\ r[i] = ts[i - Len(q)]
  OBVIOUS
<1> HIDE DEF r
<1>3. ASSUME NEW type, NEW h PROVE Has(r, type, h) <=> Has(q, type, h) \/ Has(ts, type, h)
  <2>1. ASSUME Has(r, type, h) PROVE Has(q, type, h) \/ Has(ts, type, h)
    <3>1. PICK i \in 1..Len(r) : r[i].type = type /\ r[i].hw = h
      BY <2>1 DEF Has
    <3> QED BY <1>2, <3>1 DEF Has
  <2>2. ASSUME Has(q, type, h) PROVE Has(r, type, h)
    BY <1>1, <2>2 DEF Has
  <2>3. ASSUME Has(ts, type, h) PROVE Has(r, type, h)
    <3>1. PICK i \in 1..Len(ts) : ts[i].type = type /\ ts[i].hw = h
      BY <2>3 DEF Has
    <3>2. Len(q) + i \in 1..Len(r) /\ r[Len(q) + i] = ts[i]
      BY <1>1
    <3> QED BY <3>1, <3>2 DEF Has
  <2> QED BY <2>1, <2>2, <2>3
<1>4. ASSUME NEW a, NEW b, NEW h, ~Has(ts, a, h), Followed(q, a, b, h) \/ Has(ts, b, h)
      PROVE  Followed(r, a, b, h)
  <2> SUFFICES ASSUME NEW i \in 1..Len(r), r[i].type = a, r[i].hw = h
               PROVE  \E j \in 1..Len(r) : i < j /\ r[j].type = b /\ r[j].hw = h
    BY DEF Followed
  <2>1. i \in 1..Len(q) /\ r[i] = q[i]
    BY <1>2, <1>4 DEF Has
  <2>2. CASE Followed(q, a, b, h)
    <3>1. PICK j \in 1..Len(q) : i < j /\ q[j].type = b /\ q[j].hw = h
      BY <2>1, <2>2 DEF Followed
    <3> QED BY <1>1, <3>1
  <2>3. CASE Has(ts, b, h)
    <3>1. PICK j \in 1..Len(ts) : ts[j].type = b /\ ts[j].hw = h
      BY <2>3 DEF Has
    <3>2. Len(q) + j \in 1..Len(r) /\ r[Len(q) + j] = ts[j] /\ i < Len(q) + j
      BY <1>1, <2>1
    <3> QED BY <3>1, <3>2
  <2> QED BY <1>4, <2>2, <2>3
<1> QED BY <1>3, <1>4 DEF r

LEMMA HasTail ==
    ASSUME NEW q \in Seq(TaskType), q # <<>>
    PROVE  /\ \A type, h : Has(q, type, h) <=> (Head(q).type = type /\ Head(q).hw = h) \/ Has(Tail(q), type, h)
           /\ \A a, b, h : Followed(q, a, b, h) =>
                 /\ Followed(Tail(q), a, b, h)
                 /\ Head(q).type = a /\ Head(q).hw = h => Has(Tail(q), b, h)
PROOF
<1> DEFINE r == Tail(q)
<1>1. /\ Head(q) = q[1] /\ Len(q) \in Nat /\ 1 \in 1..Len(q) /\ Len(r) = Len(q) - 1
      /\ \A i \in 1..Len(r) : i + 1 \in 1..Len(q) /\ r[i] = q[i + 1]
  BY TailFacts
<1>2. \A i \in 1..Len(q) : i > 1 => i - 1 \in 1..Len(r) /\ r[i - 1] = q[i]
  BY <1>1
<1> HIDE DEF r
<1>3. ASSUME NEW type, NEW h PROVE Has(q, type, h) <=> (Head(q).type = type /\ Head(q).hw = h) \/ Has(r, type, h)
  <2>1. ASSUME Has(r, type, h) PROVE Has(q, type, h)
    BY <1>1, <2>1 DEF Has
  <2>2. ASSUME Has(q, type, h), ~(Head(q).type = type /\ Head(q).hw = h) PROVE Has(r, type, h)
    <3>1. PICK i \in 1..Len(q) : q[i].type = type /\ q[i].hw = h
      BY <2>2 DEF Has
    <3>2. i > 1
      BY <1>1, <2>2, <3>1
    <3> QED BY <1>2, <3>1, <3>2 DEF Has
  <2> QED BY <1>1, <2>1, <2>2 DEF Has
<1>4. ASSUME NEW a, NEW b, NEW h, Followed(q, a, b, h) PROVE Followed(r, a, b, h)
  <2> SUFFICES ASSUME NEW i \in 1..Len(r), r[i].type = a, r[i].hw = h
               PROVE  \E j \in 1..Len(r) : i < j /\ r[j].type = b /\ r[j].hw = h
    BY DEF Followed
  <2>1. PICK j \in 1..Len(q) : i + 1 < j /\ q[j].type = b /\ q[j].hw = h
    BY <1>1, <1>4 DEF Followed
  <2>2. j - 1 \in 1..Len(r) /\ r[j - 1] = q[j] /\ i < j - 1
    BY <1>1, <1>2, <2>1
  <2> QED BY <2>1, <2>2
<1>5. ASSUME NEW a, NEW b, NEW h, Followed(q, a, b, h), Head(q).type = a, Head(q).hw = h PROVE Has(r, b, h)
  <2>1. PICK j \in 1..Len(q) : 1 < j /\ q[j].type = b /\ q[j].hw = h
    BY <1>1, <1>5 DEF Followed
  <2> QED BY <1>2, <2>1 DEF Has
<1> QED BY <1>3, <1>4, <1>5 DEF r

LEMMA HasOne == \A t, type, h : Has(<<t>>, type, h) <=> t.type = type /\ t.hw = h
PROOF
<1> TAKE t, type, h
<1>1. Len(<<t>>) = 1 /\ <<t>>[1] = t
  OBVIOUS
<1> QED BY <1>1 DEF Has

LEMMA HasChildren ==
    \A kind, n, d, type, h : Has(Children(kind, n, d), type, h) <=> type = kind /\ h \in {d, Local}
PROOF
<1> TAKE kind, n, d, type, h
<1> DEFINE ts == Children(kind, n, d)
<1>1. /\ Len(ts) = 2 /\ ts[1] = [type |-> kind, n |-> n, hw |-> d]
      /\ ts[2] = [type |-> kind, n |-> n, hw |-> Local]
  BY DEF Children
<1>2. ts[1].type = kind /\ ts[1].hw = d /\ ts[2].type = kind /\ ts[2].hw = Local
  BY <1>1
<1> HIDE DEF ts
<1>3. \A i \in 1..Len(ts) : i = 1 \/ i = 2
  BY <1>1
<1>4. 1 \in 1..Len(ts) /\ 2 \in 1..Len(ts)
  BY <1>1
<1>5. ASSUME Has(ts, type, h) PROVE type = kind /\ h \in {d, Local}
  <2>1. PICK i \in 1..Len(ts) : ts[i].type = type /\ ts[i].hw = h
    BY <1>5 DEF Has
  <2>2. i = 1 \/ i = 2
    BY <1>3
  <2> QED BY <1>2, <2>1, <2>2
<1>6. ASSUME type = kind, h \in {d, Local} PROVE Has(ts, type, h)
  <2>1. h = d \/ h = Local
    BY <1>6
  <2> QED BY <1>2, <1>4, <1>6, <2>1 DEF Has
<1> QED BY <1>5, <1>6 DEF ts

\* The callbacks.
LEMMA ToldAppend ==
    ASSUME NEW ns \in Seq([on: BOOLEAN, dev: Device]), NEW x \in [on: BOOLEAN, dev: Device]
    PROVE  /\ \A d : Told(Append(ns, x), d) <=> Told(ns, d) \/ d = x.dev
           /\ \A on, new : /\ LastTold(ns, on) /\ (x.on <=> x.dev \in new)
                           /\ \A d : d # x.dev => (d \in on <=> d \in new)
                           => LastTold(Append(ns, x), new)
PROOF
<1> DEFINE r == Append(ns, x)
<1>1. /\ Len(ns) \in Nat /\ Len(r) = Len(ns) + 1 /\ r[Len(ns) + 1] = x /\ Len(ns) + 1 \in 1..Len(r)
      /\ \A i \in 1..Len(ns) : i \in 1..Len(r) /\ r[i] = ns[i] /\ i < Len(ns) + 1
      /\ \A i \in 1..Len(r) : i \in 1..Len(ns) \/ i = Len(ns) + 1
  OBVIOUS
<1> HIDE DEF r
<1>2. \A d : Told(r, d) <=> Told(ns, d) \/ d = x.dev
  BY <1>1 DEF Told
<1>3. ASSUME NEW on, NEW new, LastTold(ns, on), x.on <=> x.dev \in new,
             \A d : d # x.dev => (d \in on <=> d \in new)
      PROVE  LastTold(r, new)
  <2> SUFFICES ASSUME NEW i \in 1..Len(r)
               PROVE  \/ r[i].on <=> r[i].dev \in new
                      \/ \E j \in 1..Len(r) : i < j /\ r[j].dev = r[i].dev
    BY DEF LastTold
  <2>1. CASE i = Len(ns) + 1
    BY <1>1, <1>3, <2>1
  <2>2. CASE i \in 1..Len(ns) /\ ns[i].dev = x.dev
    BY <1>1, <2>2
  <2>3. CASE i \in 1..Len(ns) /\ ns[i].dev # x.dev
    <3>1. CASE ns[i].on <=> ns[i].dev \in on
      BY <1>1, <1>3, <2>3, <3>1
    <3>2. CASE \E j \in 1..Len(ns) : i < j /\ ns[j].dev = ns[i].dev
      BY <1>1, <2>3, <3>2
    <3> QED BY <1>3, <2>3, <3>1, <3>2 DEF LastTold
  <2> QED BY <1>1, <2>1, <2>2, <2>3
<1> QED BY <1>2, <1>3 DEF r

LEMMA ToldTail ==
    ASSUME NEW ns \in Seq([on: BOOLEAN, dev: Device]), ns # <<>>
    PROVE  /\ \A d : Told(ns, d) <=> d = Head(ns).dev \/ Told(Tail(ns), d)
           /\ \A on : LastTold(ns, on) =>
                 /\ LastTold(Tail(ns), on)
                 /\ (Head(ns).on <=> Head(ns).dev \in on) \/ Told(Tail(ns), Head(ns).dev)
PROOF
<1> DEFINE r == Tail(ns)
<1>1. /\ Head(ns) = ns[1] /\ Len(ns) \in Nat /\ 1 \in 1..Len(ns) /\ Len(r) = Len(ns) - 1
      /\ \A i \in 1..Len(r) : i + 1 \in 1..Len(ns) /\ r[i] = ns[i + 1]
  BY TailFacts
<1>2. \A i \in 1..Len(ns) : i > 1 => i - 1 \in 1..Len(r) /\ r[i - 1] = ns[i]
  BY <1>1
<1> HIDE DEF r
<1>3. ASSUME NEW d PROVE Told(ns, d) <=> d = Head(ns).dev \/ Told(r, d)
  <2>1. ASSUME Told(r, d) PROVE Told(ns, d)
    BY <1>1, <2>1 DEF Told
  <2>2. ASSUME Told(ns, d), d # Head(ns).dev PROVE Told(r, d)
    <3>1. PICK i \in 1..Len(ns) : ns[i].dev = d
      BY <2>2 DEF Told
    <3>2. i > 1
      BY <1>1, <2>2, <3>1
    <3> QED BY <1>2, <3>1, <3>2 DEF Told
  <2> QED BY <1>1, <2>1, <2>2 DEF Told
<1>4. ASSUME NEW on, LastTold(ns, on) PROVE LastTold(r, on)
  <2> SUFFICES ASSUME NEW i \in 1..Len(r), ~(r[i].on <=> r[i].dev \in on)
               PROVE  \E j \in 1..Len(r) : i < j /\ r[j].dev = r[i].dev
    BY DEF LastTold
  <2>1. PICK j \in 1..Len(ns) : i + 1 < j /\ ns[j].dev = ns[i + 1].dev
    BY <1>1, <1>4 DEF LastTold
  <2>2. j - 1 \in 1..Len(r) /\ r[j - 1] = ns[j] /\ i < j - 1
    BY <1>1, <1>2, <2>1
  <2> QED BY <1>1, <2>1, <2>2
<1>5. ASSUME NEW on, LastTold(ns, on), ~(Head(ns).on <=> Head(ns).dev \in on) PROVE Told(r, Head(ns).dev)
  <2>1. PICK j \in 1..Len(ns) : 1 < j /\ ns[j].dev = Head(ns).dev
    BY <1>1, <1>5 DEF LastTold
  <2> QED BY <1>2, <2>1 DEF Told
<1> QED BY <1>3, <1>4, <1>5 DEF r

LEMMA LeavingIs == /\ \A d : Leaving(d) <=> Leaves(queue, offline, d)
                   /\ \A d : Reported(d) <=> Told(notify, d)
PROOF
<1>1. \A d : Leaving(d) <=> Leaves(queue, offline, d)
  <2> TAKE d
  <2>1. (\E o \in offline : o.dev = d /\ o.pc \in {"create", "wait"})
          <=> At(offline, "create", d) \/ At(offline, "wait", d)
    BY DEF At
  <2>2. (\E i \in 1..Len(queue) : queue[i].type = "OFF_LINE" /\ queue[i].hw = d) <=> Has(queue, "OFF_LINE", d)
    BY Zenon DEF Has
  <2> QED BY <2>1, <2>2, Zenon DEF Leaving, Leaves, ToDisable
<1>2. \A d : Reported(d) <=> Told(notify, d)
  BY Zenon DEF Reported, Told
<1> QED BY <1>1, <1>2

\* A push that leaves no flaw is of all tasks.
LEMMA PushClean ==
    ASSUME NEW q, NEW ts, NEW seen, Push(q, ts, seen), flaws' = {}
    PROVE  queue' = q \o ts /\ seen = {} /\ flaws = {}
PROOF BY DEF Push

LEMMA FatheredGrows ==
    ASSUME NEW q \in Seq(TaskType), NEW ts \in Seq(TaskType), NEW run, NEW off, Fathered(q, run, off),
           \A i \in 1..Len(ts) : ts[i].type = "DISABLE" => HasFather(ts[i], off)
    PROVE  Fathered(q \o ts, run, off)
PROOF
<1>1. \A i \in 1..Len(q \o ts) : \/ i \in 1..Len(q) /\ (q \o ts)[i] = q[i]
                                 \/ i - Len(q) \in 1..Len(ts) /\ (q \o ts)[i] = ts[i - Len(q)]
  OBVIOUS
<1> QED BY <1>1, Zenon DEF Fathered

LEMMA FatheredTail ==
    ASSUME NEW q \in Seq(TaskType), q # <<>>, NEW run, NEW off, Fathered(q, run, off)
    PROVE  Fathered(Tail(q), run, off) /\ (Head(q).type = "DISABLE" => HasFather(Head(q), off))
PROOF
<1>1. /\ Head(q) = q[1] /\ 1 \in 1..Len(q)
      /\ \A i \in 1..Len(Tail(q)) : i + 1 \in 1..Len(q) /\ Tail(q)[i] = q[i + 1]
  BY TailFacts
<1> QED BY <1>1, Zenon DEF Fathered

\* A DISABLE task of a device means that an OFF_LINE task of it waits.
LEMMA FatherLeaves ==
    ASSUME NEW off, NEW t, HasFather(t, off), t.hw \in Device
    PROVE  At(off, "wait", t.hw)
PROOF BY LifecycleConstants DEF HasFather, At

-----------------------------------------------------------------------------
(* The steps.                                                              *)

\* A step of the network or of a check: it touches no task and nothing known.
LEMMA OnlyTold ==
    ASSUME CleanInv, UNCHANGED <<queue, running, offline, entries, realTime, enabled>>, ToldInv'
    PROVE  CleanInv'
PROOF
<1>1. KnownInv'
  BY DEF CleanInv, KnownInv
<1>2. Fathered(queue, running, offline)'
  BY DEF CleanInv
<1>3. EnableInv'
  BY DEF CleanInv, EnableInv
<1>4. DisableInv'
  BY DEF CleanInv, DisableInv, Disabled
<1> QED BY <1>1, <1>2, <1>3, <1>4 DEF CleanInv

LEMMA DmClean ==
    ASSUME LifecycleInv, CleanInv, NEW x \in [on: BOOLEAN, dev: Device], notify' = Append(notify, x),
           dm' = IF x.on THEN dm \cup {x.dev} ELSE dm \ {x.dev},
           UNCHANGED <<calls, resend, context, factory, tasks, enabled>>
    PROVE  CleanInv'
PROOF
<1>0. notify \in Seq([on: BOOLEAN, dev: Device])
  BY DEF LifecycleInv, LifecycleTypeOK
<1>1. UNCHANGED <<calls, resend, entries, realTime, flagUnInit, queue, running, offline, enabled>>
  BY DEF context, factory, tasks
<1>2. \A d : d # x.dev => (d \in dm <=> d \in dm')
  OBVIOUS
<1>3. x.on <=> x.dev \in dm'
  OBVIOUS
<1>4. ToldInv
  BY DEF CleanInv
<1>5. LastTold(notify, dm)'
  BY <1>0, <1>2, <1>3, <1>4, ToldAppend DEF ToldInv
<1>6. \A d : Told(notify', d) <=> Told(notify, d) \/ d = x.dev
  BY <1>0, ToldAppend
<1>7. ToldInv'
  BY <1>1, <1>2, <1>4, <1>5, <1>6 DEF ToldInv
<1> QED BY <1>1, <1>7, OnlyTold

LEMMA CheckClean ==
    ASSUME LifecycleInv, CleanInv, NEW by, NEW d \in Device, CheckOnLine(by, d), Clean',
           UNCHANGED <<dm, context, factory, tasks, enabled>>,
           LastTold(notify', dm),
           \A e : e # d => (Told(notify, e) => Told(notify', e)) /\ (e \in resend => e \in resend'),
           d \in dm \/ Told(notify', d) \/ UNCHANGED notify
    PROVE  CleanInv'
PROOF
<1>1. UNCHANGED <<dm, entries, realTime, flagUnInit, queue, running, offline, enabled>>
  BY DEF context, factory, tasks
<1>0. /\ calls' = IF flagUnInit \/ d \in entries THEN calls ELSE calls \cup {[by |-> by, dev |-> d]}
      /\ "unnamed" \notin flaws' /\ (~flagUnInit /\ d \in entries => ~Leaving(d))
  BY DEF CheckOnLine, Clean
<1>2. calls \subseteq calls' /\ (~flagUnInit /\ d \notin entries => \E c \in calls' : c.dev = d)
  <2>1. CASE flagUnInit \/ d \in entries
    BY <1>0, <2>1
  <2>2. CASE ~flagUnInit /\ d \notin entries
    <3>1. calls' = calls \cup {[by |-> by, dev |-> d]}
      BY <1>0, <2>2
    <3>2. [by |-> by, dev |-> d] \in calls' /\ [by |-> by, dev |-> d].dev = d
      BY <3>1
    <3> QED BY <3>1, <3>2
  <2> QED BY <2>1, <2>2
<1>3. ~flagUnInit /\ d \in entries => ~Leaves(queue, offline, d)
  BY <1>0, LeavingIs
<1>4. KnownInv /\ ToldInv
  BY DEF CleanInv
<1>5. d \in realTime \/ flagUnInit \/ \E c \in calls' : c.dev = d
  BY <1>2, <1>3, <1>4 DEF KnownInv
<1>6. ASSUME NEW e \in realTime PROVE e \in dm \/ Told(notify', e)
  BY <1>4, <1>6 DEF ToldInv
<1>7. ASSUME NEW e \in dm
      PROVE  \/ e \in realTime \/ flagUnInit \/ Told(notify', e) \/ e \in resend'
             \/ (\E c \in calls' : c.dev = e) \/ \E o \in offline : o.pc = "check"
  <2>1. CASE e = d
    BY <1>5, <2>1
  <2>2. CASE e # d
    BY <1>2, <1>4, <2>2 DEF ToldInv
  <2> QED BY <2>1, <2>2
<1>8. ToldInv'
  BY <1>1, <1>6, <1>7 DEF ToldInv
<1> QED BY <1>1, <1>8, OnlyTold

LEMMA OnDeviceOnlineClean ==
    ASSUME LifecycleInv, CleanInv, OnDeviceOnline, Clean'
    PROVE  CleanInv'
PROOF
<1>1. notify \in Seq([on: BOOLEAN, dev: Device])
  BY DEF LifecycleInv, LifecycleTypeOK
<1>2. /\ notify # <<>> /\ Head(notify).on /\ notify' = Tail(notify)
      /\ CheckOnLine("dm", Head(notify).dev)
      /\ UNCHANGED <<dm, resend, context, factory, tasks, enabled>>
  BY Zenon DEF OnDeviceOnline
<1>3. Head(notify).dev \in Device
  <2>1. notify # <<>>
    BY <1>2
  <2>2. Head(notify) \in [on: BOOLEAN, dev: Device]
    BY <1>1, <2>1, TailFacts, Zenon
  <2> QED BY <2>2
<1>4. LastTold(notify, dm)
  BY DEF CleanInv, ToldInv
<1>5. /\ LastTold(notify', dm)
      /\ \A e : e # Head(notify).dev => (Told(notify, e) => Told(notify', e))
      /\ Head(notify).dev \in dm \/ Told(notify', Head(notify).dev)
  BY <1>1, <1>2, <1>4, ToldTail
<1> QED BY <1>2, <1>3, <1>5, CheckClean

LEMMA ResendClean ==
    ASSUME LifecycleInv, CleanInv, NEW d \in resend, ResendOnLine(d), Clean'
    PROVE  CleanInv'
PROOF
<1>1. /\ resend' = resend \ {d} /\ CheckOnLine("resend", d)
      /\ UNCHANGED <<dm, notify, context, factory, tasks, enabled>>
  BY Zenon DEF ResendOnLine, device
<1>2. d \in Device
  BY DEF LifecycleInv, LifecycleTypeOK
<1>3. LastTold(notify', dm)
  BY <1>1 DEF CleanInv, ToldInv
<1>4. \A e : e # d => (Told(notify, e) => Told(notify', e)) /\ (e \in resend => e \in resend')
  BY <1>1
<1> QED BY <1>1, <1>2, <1>3, <1>4, CheckClean

\* One more task at the end of the queue.
LEMMA OnePushed ==
    ASSUME queue \in Seq(TaskType), NEW x \in TaskType, queue' = queue \o <<x>>
    PROVE  /\ \A type, h : Has(queue', type, h) <=> Has(queue, type, h) \/ (x.type = type /\ x.hw = h)
           /\ \A a, b, h : ~(x.type = a /\ x.hw = h) /\ (Followed(queue, a, b, h) \/ (x.type = b /\ x.hw = h))
                 => Followed(queue', a, b, h)
           /\ x.type # "DISABLE" /\ Fathered(queue, running, offline) => Fathered(queue', running, offline)
PROOF
<1>1. <<x>> \in Seq(TaskType) /\ Len(<<x>>) = 1 /\ <<x>>[1] = x
  OBVIOUS
<1>2. ASSUME x.type # "DISABLE", Fathered(queue, running, offline) PROVE Fathered(queue', running, offline)
  <2>1. \A i \in 1..Len(<<x>>) : <<x>>[i].type = "DISABLE" => HasFather(<<x>>[i], offline)
    <3> TAKE i \in 1..Len(<<x>>)
    <3>1. i = 1
      BY <1>1
    <3> QED BY <1>1, <1>2, <3>1
  <2> QED BY <1>1, <1>2, <2>1, FatheredGrows
<1> QED BY <1>1, <1>2, HasGrows, HasOne

LEMMA SendClean ==
    ASSUME LifecycleInv, CleanInv, NEW c \in calls, SendOnLineEvent(c), Clean'
    PROVE  CleanInv'
PROOF
<1> DEFINE d == c.dev
           x == [type |-> "ON_LINE", n |-> made', hw |-> d]
           seen == {f \in {"ghost", "early", "oversize"} :
                       \/ f = "early" /\ Leaving(d)
                       \/ f = "ghost" /\ d \notin dm /\ ~Reported(d)
                       \/ f = "oversize" /\ EntriesFull}
<1>0. /\ calls' = calls \ {c} /\ entries' = IF EntriesFull THEN entries ELSE entries \cup {d}
      /\ realTime' = realTime \cup {d} /\ made' = made + 1 /\ Push(queue, <<x>>, seen)
      /\ UNCHANGED <<dm, notify, resend, flagUnInit, running, offline, enabled>>
  BY Zenon DEF SendOnLineEvent, device
<1>2. queue' = queue \o <<x>> /\ seen = {}
  BY <1>0, PushClean DEF Clean
<1>1. /\ calls' = calls \ {c} /\ entries' = entries \cup {d} /\ realTime' = realTime \cup {d}
      /\ made' = made + 1
      /\ UNCHANGED <<dm, notify, resend, flagUnInit, running, offline, enabled>>
  <2>1. "oversize" \notin seen
    BY <1>2
  <2>2. ~EntriesFull
    BY <2>1
  <2> QED BY <1>0, <2>2
<1>3. ~Leaves(queue, offline, d) /\ (d \in dm \/ Told(notify, d))
  <2>1. "early" \notin seen /\ "ghost" \notin seen
    BY <1>2
  <2>2. ~Leaving(d) /\ (d \in dm \/ Reported(d))
    BY <2>1
  <2> QED BY <2>2, LeavingIs
<1>t. queue \in Seq(TaskType) /\ d \in Device /\ made' \in Nat
  BY <1>1 DEF LifecycleInv, LifecycleTypeOK
<1>4. x \in TaskType /\ x.type = "ON_LINE" /\ x.hw = d
  BY <1>t DEF TaskType, Hardware
<1> HIDE DEF x, seen
<1>5. /\ \A type, h : Has(queue', type, h) <=> Has(queue, type, h) \/ (type = "ON_LINE" /\ h = d)
      /\ \A a, b, h : ~(a = "ON_LINE" /\ h = d) /\ Followed(queue, a, b, h) => Followed(queue', a, b, h)
      /\ Fathered(queue, running, offline) => Fathered(queue', running, offline)
  BY <1>t, <1>2, <1>4, OnePushed
<1>6. \A e : Leaves(queue', offline', e) <=> Leaves(queue, offline, e)
  BY <1>1, <1>5 DEF Leaves, ToDisable
<1>7. \A e : ToDisable(queue', offline', e) <=> ToDisable(queue, offline, e)
  BY <1>1, <1>5 DEF ToDisable
<1> HIDE DEF d
<1>8. KnownInv'
  BY <1>t, <1>1, <1>3, <1>6 DEF CleanInv, KnownInv
<1>9. ToldInv'
  <2>1. \A e \in Device : e # d /\ (\E k \in calls : k.dev = e) => \E k \in calls' : k.dev = e
    BY <1>1 DEF d
  <2>2. dm \subseteq Device
    BY DEF LifecycleInv, LifecycleTypeOK
  <2> QED BY <1>1, <1>3, <2>1, <2>2 DEF CleanInv, ToldInv
<1>10. Fathered(queue, running, offline)'
  BY <1>1, <1>5 DEF CleanInv
<1>11. EnableInv'
  <2>1. \A e \in realTime' : e \in enabled' \/ Has(queue', "ON_LINE", e) \/ Has(queue', "ENABLE", e) \/ Runs(running', "ENABLE", e)
    BY <1>1, <1>5 DEF CleanInv, EnableInv
  <2>2. Has(queue', "ON_LINE", d)
    BY <1>5
  <2> QED BY <1>t, <2>1, <2>2 DEF EnableInv
<1>12. DisableInv'
  <2> SUFFICES ASSUME NEW e \in Device \ realTime' PROVE Disabled(e)'
    BY DEF DisableInv
  <2>1. e # d /\ Disabled(e)
    BY <1>1 DEF CleanInv, DisableInv
  <2> QED BY <1>1, <1>5, <1>7, <2>1 DEF Disabled
<1> QED BY <1>8, <1>9, <1>10, <1>11, <1>12 DEF CleanInv

LEMMA OnDeviceOfflineClean ==
    ASSUME LifecycleInv, CleanInv, OnDeviceOffline, Clean'
    PROVE  CleanInv'
PROOF
<1> DEFINE d == Head(notify).dev
           x == [type |-> "OFF_LINE", n |-> made', hw |-> d]
<1>1. /\ notify # <<>> /\ ~Head(notify).on /\ notify' = Tail(notify)
      /\ UNCHANGED <<dm, calls, resend, enabled>>
      /\ \/ d \notin entries /\ UNCHANGED <<context, factory, tasks>>
         \/ /\ realTime' = realTime \ {d} /\ flagUnInit' = (flagUnInit \/ NoDeviceLeft)
            /\ made' = made + 1 /\ Push(queue, <<x>>, {})
            /\ UNCHANGED <<entries, running, offline>>
  BY Zenon DEF OnDeviceOffline
<1>n. notify \in Seq([on: BOOLEAN, dev: Device]) /\ notify # <<>>
  BY <1>1 DEF LifecycleInv, LifecycleTypeOK
<1>t. queue \in Seq(TaskType) /\ d \in Device /\ made \in Nat /\ dm \subseteq Device
  <2>1. Head(notify) \in [on: BOOLEAN, dev: Device]
    BY <1>n, TailFacts, Zenon
  <2> QED BY <2>1 DEF LifecycleInv, LifecycleTypeOK
<1>2. LastTold(notify, dm)
  BY DEF CleanInv, ToldInv
<1>3. /\ LastTold(notify', dm)
      /\ \A e : Told(notify, e) => e = d \/ Told(notify', e)
      /\ d \in dm => Told(notify', d)
  BY <1>n, <1>1, <1>2, ToldTail
<1>4. CASE d \notin entries /\ UNCHANGED <<context, factory, tasks>>
  <2>1. UNCHANGED <<dm, calls, resend, entries, realTime, flagUnInit, queue, running, offline, enabled>>
    BY <1>1, <1>4 DEF context, factory, tasks
  <2>2. d \notin realTime
    BY <1>4 DEF CleanInv, KnownInv
  <2>3. ToldInv'
    BY <1>3, <2>1, <2>2 DEF CleanInv, ToldInv
  <2> QED BY <2>1, <2>3, OnlyTold
<1>5. CASE /\ realTime' = realTime \ {d} /\ flagUnInit' = (flagUnInit \/ NoDeviceLeft)
           /\ made' = made + 1 /\ Push(queue, <<x>>, {}) /\ UNCHANGED <<entries, running, offline>>
  <2>1. queue' = queue \o <<x>>
    BY <1>5, PushClean DEF Clean
  <2>2. x \in TaskType /\ x.type = "OFF_LINE" /\ x.hw = d
    BY <1>t, <1>5 DEF TaskType, Hardware
  <2> HIDE DEF x
  <2>3. /\ \A type, h : Has(queue', type, h) <=> Has(queue, type, h) \/ (type = "OFF_LINE" /\ h = d)
        /\ \A a, b, h : a # "OFF_LINE" /\ (Followed(queue, a, b, h) \/ (b = "OFF_LINE" /\ h = d))
             => Followed(queue', a, b, h)
        /\ Fathered(queue, running, offline) => Fathered(queue', running, offline)
    BY <1>t, <2>1, <2>2, OnePushed
  <2>4. \A e : Leaves(queue', offline', e) <=> Leaves(queue, offline, e) \/ e = d
    BY <1>5, <2>3 DEF Leaves, ToDisable
  <2>5. \A e : ToDisable(queue', offline', e) <=> ToDisable(queue, offline, e) \/ e = d
    BY <1>5, <2>3 DEF ToDisable
  <2> HIDE DEF d
  <2>6. KnownInv'
    BY <1>5, <2>4 DEF CleanInv, KnownInv
  <2>7. ToldInv'
    <3>1. \A e \in realTime' : e # d /\ e \in realTime
      BY <1>5
    <3>2. \A e \in realTime' : e \in dm' \/ Told(notify', e)
      BY <1>1, <1>3, <3>1 DEF CleanInv, ToldInv
    <3>3. flagUnInit => flagUnInit'
      BY <1>5
    <3>4. \A e \in dm' : \/ e \in realTime' \/ flagUnInit' \/ Told(notify', e) \/ e \in resend'
                         \/ (\E c \in calls' : c.dev = e) \/ \E o \in offline' : o.pc = "check"
      <4> TAKE e \in dm'
      <4>1. CASE e = d
        BY <1>1, <1>3, <4>1
      <4>2. CASE e # d
        BY <1>1, <1>3, <1>5, <3>3, <4>2 DEF CleanInv, ToldInv
      <4> QED BY <4>1, <4>2
    <3> QED BY <1>1, <1>3, <3>2, <3>4 DEF ToldInv
  <2>8. Fathered(queue, running, offline)'
    BY <1>5, <2>3 DEF CleanInv
  <2>9. EnableInv'
    BY <1>1, <1>5, <2>3 DEF CleanInv, EnableInv
  <2>10. DisableInv'
    <3> SUFFICES ASSUME NEW e \in Device \ realTime' PROVE Disabled(e)'
      BY DEF DisableInv
    <3>1. CASE e = d
      BY <2>3, <2>5, <3>1 DEF Disabled
    <3>2. CASE e # d
      <4>1. Disabled(e)
        BY <1>5, <3>2 DEF CleanInv, DisableInv
      <4> QED BY <1>1, <1>5, <2>3, <2>5, <3>2, <4>1 DEF Disabled
    <3> QED BY <3>1, <3>2
  <2> QED BY <2>6, <2>7, <2>8, <2>9, <2>10 DEF CleanInv
<1> QED BY <1>1, <1>4, <1>5

LEMMA OnLineTaskClean ==
    ASSUME LifecycleInv, CleanInv, OnLineTask, Clean'
    PROVE  CleanInv'
PROOF
<1> DEFINE d == Head(queue).hw
           q == Tail(queue)
           ts == Children("ENABLE", Head(queue).n, d)
<1>1. /\ queue # <<>> /\ Head(queue).type = "ON_LINE" /\ Push(q, ts, {})
      /\ UNCHANGED <<dm, notify, calls, resend, context, factory, running, offline, enabled>>
  BY Zenon DEF OnLineTask, device
<1>2. UNCHANGED <<dm, notify, calls, resend, entries, realTime, flagUnInit, running, offline, enabled>>
  BY <1>1 DEF context, factory
<1>3. /\ queue \in Seq(TaskType) /\ q \in Seq(TaskType) /\ Head(queue).n \in Nat /\ d \in Device
  BY <1>1, TaskTaken DEF LifecycleInv, LifecycleTypeOK
<1>4. /\ ts \in Seq(TaskType) /\ Len(ts) = 2 /\ \A i \in 1..2 : ts[i].type = "ENABLE"
      /\ \A type, h : Has(ts, type, h) <=> type = "ENABLE" /\ h \in {d, Local}
  BY <1>3, ChildrenFacts, HasChildren
<1>5. queue' = q \o ts
  BY <1>1, PushClean DEF Clean
<1>6. /\ \A type, h : Has(queue, type, h) <=> (type = "ON_LINE" /\ h = d) \/ Has(q, type, h)
      /\ \A a, b, h : Followed(queue, a, b, h) =>
            Followed(q, a, b, h) /\ (a = "ON_LINE" /\ h = d => Has(q, b, h))
      /\ Fathered(queue, running, offline) => Fathered(q, running, offline)
  BY <1>1, <1>3, HasTail, FatheredTail
<1> HIDE DEF d, q, ts
<1>7. /\ \A type, h : Has(queue', type, h) <=> Has(q, type, h) \/ (type = "ENABLE" /\ h \in {d, Local})
      /\ \A a, b, h : a # "ENABLE" \/ h \notin {d, Local} => (Followed(q, a, b, h) => Followed(queue', a, b, h))
      /\ Fathered(q, running, offline) => Fathered(queue', running, offline)
  <2>1. Fathered(q, running, offline) => Fathered(q \o ts, running, offline)
    BY <1>3, <1>4, FatheredGrows
  <2>2. \A a, b, h : ~Has(ts, a, h) /\ Followed(q, a, b, h) => Followed(q \o ts, a, b, h)
    BY <1>3, <1>4, HasGrows
  <2>3. \A type, h : Has(q \o ts, type, h) <=> Has(q, type, h) \/ Has(ts, type, h)
    BY <1>3, <1>4, HasGrows
  <2> QED BY <1>4, <1>5, <2>1, <2>2, <2>3
<1>8. \A e : ToDisable(queue', offline', e) <=> ToDisable(queue, offline, e)
  BY <1>2, <1>6, <1>7 DEF ToDisable
<1>9. \A e : Leaves(queue', offline', e) <=> Leaves(queue, offline, e)
  BY <1>2, <1>8 DEF Leaves
<1>10. KnownInv'
  BY <1>2, <1>9 DEF CleanInv, KnownInv
<1>11. ToldInv'
  BY <1>2 DEF CleanInv, ToldInv
<1>12. Fathered(queue, running, offline)'
  BY <1>2, <1>6, <1>7 DEF CleanInv
<1>13. EnableInv'
  <2>1. Has(queue', "ENABLE", d) /\ Has(queue', "ENABLE", Local)
    BY <1>7
  <2>2. \A e : e # d /\ Has(queue, "ON_LINE", e) => Has(queue', "ON_LINE", e)
    BY <1>6, <1>7
  <2>3. \A e : Has(queue, "ENABLE", e) => Has(queue', "ENABLE", e)
    BY <1>6, <1>7
  <2> QED BY <1>2, <2>1, <2>2, <2>3 DEF CleanInv, EnableInv
<1>14. DisableInv'
  <2> SUFFICES ASSUME NEW e \in Device \ realTime' PROVE Disabled(e)'
    BY DEF DisableInv
  <2>1. Disabled(e)
    BY <1>2 DEF CleanInv, DisableInv
  <2>2. Followed(queue', "ON_LINE", "OFF_LINE", e)
    BY <1>6, <1>7, <2>1 DEF Disabled
  <2>3. CASE e = d
    <3>1. Has(queue', "OFF_LINE", e)
      BY <1>6, <1>7, <2>1, <2>3 DEF Disabled
    <3> QED BY <2>2, <3>1 DEF Disabled, ToDisable
  <2>4. CASE e # d
    <3>1. e \notin {d, Local}
      BY <2>4, LifecycleConstants
    <3>2. Followed(queue, "ENABLE", "DISABLE", e) => Followed(queue', "ENABLE", "DISABLE", e)
      BY <1>6, <1>7, <3>1
    <3>3. Has(queue, "DISABLE", e) => Has(queue', "DISABLE", e)
      BY <1>6, <1>7
    <3> QED BY <1>2, <1>8, <2>1, <2>2, <3>2, <3>3 DEF Disabled
  <2> QED BY <2>3, <2>4
<1> QED BY <1>10, <1>11, <1>12, <1>13, <1>14 DEF CleanInv

LEMMA StartTaskClean ==
    ASSUME LifecycleInv, CleanInv, StartTask, Clean'
    PROVE  CleanInv'
PROOF
<1> DEFINE t == Head(queue)
           new == [n |-> t.n, dev |-> t.hw, kids |-> {}, pc |-> "create"]
<1>1. /\ queue # <<>> /\ t.type # "ON_LINE" /\ queue' = Tail(queue)
      /\ \/ t.type = "OFF_LINE" /\ offline' = offline \cup {new} /\ UNCHANGED running
         \/ /\ t.type # "OFF_LINE" /\ running' = running \cup {t} /\ UNCHANGED offline
            /\ flaws' = IF \E u \in running : Opposite(t, u) THEN flaws \cup {"parallel"} ELSE flaws
      /\ UNCHANGED <<dm, notify, calls, resend, context, factory, enabled>>
  BY Zenon DEF StartTask, device
<1>2. UNCHANGED <<dm, notify, calls, resend, entries, realTime, flagUnInit, enabled>>
  BY <1>1 DEF context, factory
<1>3. queue \in Seq(TaskType) /\ t \in TaskType /\ offline \subseteq OffLineType
  BY <1>1, TailFacts, Zenon DEF LifecycleInv, LifecycleTypeOK
<1>4. new.n = t.n /\ new.dev = t.hw /\ new.pc = "create"
  OBVIOUS
<1>5. /\ \A type, h : Has(queue, type, h) <=> (t.type = type /\ t.hw = h) \/ Has(queue', type, h)
      /\ \A a, b, h : Followed(queue, a, b, h) =>
            Followed(queue', a, b, h) /\ (t.type = a /\ t.hw = h => Has(queue', b, h))
      /\ Fathered(queue', running, offline) /\ (t.type = "DISABLE" => HasFather(t, offline))
  BY <1>1, <1>3, HasTail, FatheredTail DEF CleanInv
<1> HIDE DEF t, new
<1>6. CASE t.type = "OFF_LINE" /\ offline' = offline \cup {new} /\ UNCHANGED running
  <2>1. /\ \A e : At(offline', "create", e) <=> At(offline, "create", e) \/ e = t.hw
        /\ \A e : At(offline', "wait", e) <=> At(offline, "wait", e)
    BY <1>4, <1>6 DEF At
  <2>2. \A e : ToDisable(queue', offline', e) <=> ToDisable(queue, offline, e)
    BY <1>5, <1>6, <2>1 DEF ToDisable
  <2>3. \A e : Leaves(queue', offline', e) <=> Leaves(queue, offline, e)
    BY <2>1, <2>2 DEF Leaves
  <2>4. KnownInv'
    BY <1>2, <2>3 DEF CleanInv, KnownInv
  <2>5. ToldInv'
    BY <1>2, <1>6 DEF CleanInv, ToldInv
  <2>6. Fathered(queue, running, offline)'
    BY <1>5, <1>6 DEF Fathered, HasFather
  <2>7. EnableInv'
    <3>1. \A e : (Has(queue, "ON_LINE", e) => Has(queue', "ON_LINE", e)) /\ (Has(queue, "ENABLE", e) => Has(queue', "ENABLE", e))
      BY <1>5, <1>6
    <3> QED BY <1>2, <1>6, <3>1 DEF CleanInv, EnableInv
  <2>8. DisableInv'
    <3> SUFFICES ASSUME NEW e \in Device \ realTime' PROVE Disabled(e)'
      BY DEF DisableInv
    <3>1. Disabled(e)
      BY <1>2 DEF CleanInv, DisableInv
    <3>2. Has(queue, "DISABLE", e) => Has(queue', "DISABLE", e)
      BY <1>5, <1>6
    <3> QED BY <1>2, <1>5, <1>6, <2>2, <3>1, <3>2 DEF Disabled
  <2> QED BY <2>4, <2>5, <2>6, <2>7, <2>8 DEF CleanInv
<1>7. CASE /\ t.type # "OFF_LINE" /\ running' = running \cup {t} /\ UNCHANGED offline
           /\ flaws' = IF \E u \in running : Opposite(t, u) THEN flaws \cup {"parallel"} ELSE flaws
  <2>1. t.type \in {"ENABLE", "DISABLE"}
    BY <1>1, <1>3, <1>7 DEF TaskType, t
  <2>2. t.type = "DISABLE" => ~Runs(running, "ENABLE", t.hw)
    <3> SUFFICES ASSUME t.type = "DISABLE", Runs(running, "ENABLE", t.hw) PROVE FALSE
      OBVIOUS
    <3>1. PICK u \in running : u.type = "ENABLE" /\ u.hw = t.hw
      BY DEF Runs
    <3>2. Opposite(t, u)
      BY <3>1 DEF Opposite
    <3> QED BY <1>7, <3>2 DEF Clean
  <2>3. \A type, h : Runs(running', type, h) <=> Runs(running, type, h) \/ (t.type = type /\ t.hw = h)
    BY <1>7 DEF Runs
  <2>4. \A e : ToDisable(queue', offline', e) <=> ToDisable(queue, offline, e)
    BY <1>5, <1>7 DEF ToDisable
  <2>5. \A e : Leaves(queue', offline', e) <=> Leaves(queue, offline, e)
    BY <1>7, <2>4 DEF Leaves
  <2>6. KnownInv'
    BY <1>2, <2>5 DEF CleanInv, KnownInv
  <2>7. ToldInv'
    BY <1>2, <1>7 DEF CleanInv, ToldInv
  <2>8. Fathered(queue, running, offline)'
    BY <1>5, <1>7 DEF Fathered
  <2>9. EnableInv'
    <3>1. \A e : Has(queue, "ON_LINE", e) => Has(queue', "ON_LINE", e)
      BY <1>1, <1>5 DEF t
    <3>2. \A e : Has(queue, "ENABLE", e) => Has(queue', "ENABLE", e) \/ Runs(running', "ENABLE", e)
      BY <1>5, <2>3
    <3>3. \A e : Runs(running, "ENABLE", e) => Runs(running', "ENABLE", e)
      BY <2>3
    <3> QED BY <1>2, <3>1, <3>2, <3>3 DEF CleanInv, EnableInv
  <2>10. DisableInv'
    <3> SUFFICES ASSUME NEW e \in Device \ realTime' PROVE Disabled(e)'
      BY DEF DisableInv
    <3>1. Disabled(e)
      BY <1>2 DEF CleanInv, DisableInv
    <3>2. Followed(queue', "ON_LINE", "OFF_LINE", e)
      BY <1>5, <3>1 DEF Disabled
    <3>3. CASE ToDisable(queue, offline, e)
      BY <2>4, <3>2, <3>3 DEF Disabled
    <3>4. CASE ~ToDisable(queue, offline, e)
      <4>1. /\ Followed(queue, "ENABLE", "DISABLE", e)
            /\ Runs(running, "ENABLE", e) => Has(queue, "DISABLE", e)
            /\ e \in enabled => Has(queue, "DISABLE", e) \/ Runs(running, "DISABLE", e)
        BY <3>1, <3>4 DEF Disabled
      <4>2. Followed(queue', "ENABLE", "DISABLE", e)
        BY <1>5, <4>1
      <4>3. Runs(running', "ENABLE", e) => Has(queue', "DISABLE", e)
        BY <1>5, <2>1, <2>2, <2>3, <4>1
      <4>4. e \in enabled => Has(queue', "DISABLE", e) \/ Runs(running', "DISABLE", e)
        BY <1>5, <2>3, <4>1
      <4> QED BY <1>2, <3>2, <4>2, <4>3, <4>4 DEF Disabled
    <3> QED BY <3>3, <3>4
  <2> QED BY <2>6, <2>7, <2>8, <2>9, <2>10 DEF CleanInv
<1> QED BY <1>1, <1>6, <1>7

LEMMA EnableTaskClean ==
    ASSUME LifecycleInv, CleanInv, NEW t \in running, EnableTask(t), Clean'
    PROVE  CleanInv'
PROOF
<1>1. /\ t.type = "ENABLE" /\ running' = running \ {t} /\ enabled' = enabled \cup {t.hw}
      /\ UNCHANGED <<dm, notify, calls, resend, context, factory, queue, offline>>
  <2>1. \/ enabled' = enabled \cup {t.hw} /\ UNCHANGED flaws
        \/ flaws' = flaws \cup {"failed"} /\ UNCHANGED enabled
    BY Zenon DEF EnableTask
  <2>2. enabled' = enabled \cup {t.hw}
    BY <2>1 DEF Clean
  <2> QED BY <2>2, Zenon DEF EnableTask, device
<1>2. UNCHANGED <<dm, notify, calls, resend, entries, realTime, flagUnInit, queue, offline>>
  BY <1>1 DEF context, factory
<1>3. /\ \A type, h : Runs(running, type, h) => Runs(running', type, h) \/ (type = "ENABLE" /\ h = t.hw)
      /\ \A type, h : Runs(running', type, h) => Runs(running, type, h)
  BY <1>1 DEF Runs
<1>4. Runs(running, "ENABLE", t.hw)
  BY <1>1 DEF Runs
<1>5. KnownInv'
  BY <1>2 DEF CleanInv, KnownInv
<1>6. ToldInv'
  BY <1>2 DEF CleanInv, ToldInv
<1>7. Fathered(queue, running, offline)'
  BY <1>1, <1>2 DEF CleanInv, Fathered
<1>8. EnableInv'
  BY <1>1, <1>2, <1>3 DEF CleanInv, EnableInv
<1>9. DisableInv'
  <2> SUFFICES ASSUME NEW e \in Device \ realTime' PROVE Disabled(e)'
    BY DEF DisableInv
  <2>1. Disabled(e)
    BY <1>2 DEF CleanInv, DisableInv
  <2>2. Runs(running, "DISABLE", e) => Runs(running', "DISABLE", e)
    BY <1>3
  <2>3. e \in enabled' => e \in enabled \/ e = t.hw
    BY <1>1
  <2> QED BY <1>2, <1>3, <1>4, <2>1, <2>2, <2>3 DEF Disabled
<1> QED BY <1>5, <1>6, <1>7, <1>8, <1>9 DEF CleanInv

LEMMA DisableTaskClean ==
    ASSUME LifecycleInv, CleanInv, NEW t \in running, DisableTask(t), Clean'
    PROVE  CleanInv'
PROOF
<1> DEFINE Rest(o) == IF o.n = t.n THEN [o EXCEPT !.kids = @ \ {t.hw}] ELSE o
<1>1. /\ t.type = "DISABLE" /\ running' = running \ {t}
      /\ \/ t.hw = Local /\ enabled' = enabled
         \/ (t.hw # Local \/ realTime = {}) /\ enabled' = enabled \ {t.hw}
      /\ offline' = {Rest(o) : o \in offline}
      /\ UNCHANGED <<dm, notify, calls, resend, context, factory, queue>>
  <2>1. \/ t.hw = Local /\ ~(realTime = {} /\ ~isomerism) /\ UNCHANGED <<enabled, flaws>>
        \/ /\ t.hw # Local \/ (realTime = {} /\ ~isomerism)
           /\ \/ enabled' = enabled \ {t.hw} /\ UNCHANGED flaws
              \/ flaws' = flaws \cup {"failed"} /\ UNCHANGED enabled
    BY Zenon DEF DisableTask
  <2>2. \/ t.hw = Local /\ enabled' = enabled
        \/ (t.hw # Local \/ realTime = {}) /\ enabled' = enabled \ {t.hw}
    BY <2>1 DEF Clean
  <2>3. /\ t.type = "DISABLE" /\ running' = running \ {t} /\ offline' = {Rest(o) : o \in offline}
        /\ UNCHANGED <<dm, notify, calls, resend, context, factory, queue>>
    BY Zenon DEF DisableTask, NotifyFatherFinish, device
  <2> QED BY <2>2, <2>3
<1>2. UNCHANGED <<dm, notify, calls, resend, entries, realTime, flagUnInit, queue>>
  BY <1>1 DEF context, factory
<1>t. /\ offline \subseteq OffLineType /\ queue \in Seq(TaskType) /\ Owned(queue, running, offline)
      /\ running \subseteq TaskType
  BY DEF LifecycleInv, LifecycleTypeOK
<1>3. \A o \in offline : /\ Rest(o).n = o.n /\ Rest(o).dev = o.dev /\ Rest(o).pc = o.pc
                         /\ Rest(o).kids = IF o.n = t.n THEN o.kids \ {t.hw} ELSE o.kids
  BY <1>t DEF OffLineType
<1> HIDE DEF Rest
<1>4. /\ \A o \in offline : Rest(o) \in offline'
      /\ \A p \in offline' : \E o \in offline : p = Rest(o)
  BY <1>1
<1>5. \A pc, e : At(offline', pc, e) <=> At(offline, pc, e)
  <2> TAKE pc, e
  <2>1. ASSUME At(offline, pc, e) PROVE At(offline', pc, e)
    <3>1. PICK o \in offline : o.dev = e /\ o.pc = pc
      BY <2>1 DEF At
    <3>2. Rest(o) \in offline' /\ Rest(o).dev = e /\ Rest(o).pc = pc
      BY <1>3, <1>4, <3>1
    <3> QED BY <3>2 DEF At
  <2>2. ASSUME At(offline', pc, e) PROVE At(offline, pc, e)
    <3>1. PICK p \in offline' : p.dev = e /\ p.pc = pc
      BY <2>2 DEF At
    <3>2. PICK o \in offline : p = Rest(o)
      BY <1>4
    <3>3. o.dev = e /\ o.pc = pc
      BY <1>3, <3>1, <3>2
    <3> QED BY <3>3 DEF At
  <2> QED BY <2>1, <2>2
<1>6. /\ \A e : ToDisable(queue', offline', e) <=> ToDisable(queue, offline, e)
      /\ \A e : Leaves(queue', offline', e) <=> Leaves(queue, offline, e)
  BY <1>2, <1>5 DEF ToDisable, Leaves
<1>7. /\ \A type, h : Runs(running, type, h) => Runs(running', type, h) \/ (type = "DISABLE" /\ h = t.hw)
      /\ \A type, h : Runs(running', type, h) => Runs(running, type, h)
  BY <1>1 DEF Runs
<1>8. KnownInv'
  BY <1>2, <1>6 DEF CleanInv, KnownInv
<1>9. ToldInv'
  <2>1. (\E o \in offline : o.pc = "check") => \E o \in offline' : o.pc = "check"
    BY <1>3, <1>4
  <2> QED BY <1>2, <2>1 DEF CleanInv, ToldInv
<1>10. Fathered(queue, running, offline)'
  <2>1. ASSUME NEW u, HasFather(u, offline), u.n = t.n => u.hw # t.hw PROVE HasFather(u, offline')
    <3>1. PICK o \in offline : o.n = u.n /\ o.pc = "wait" /\ u.hw \in o.kids /\ o.kids \subseteq {o.dev, Local}
      BY <2>1 DEF HasFather
    <3>2. /\ Rest(o) \in offline' /\ Rest(o).n = u.n /\ Rest(o).pc = "wait" /\ u.hw \in Rest(o).kids
          /\ Rest(o).kids \subseteq {Rest(o).dev, Local}
      BY <1>3, <1>4, <2>1, <3>1
    <3> QED BY <3>2 DEF HasFather
  <2>2. ASSUME NEW i \in 1..Len(queue), queue[i].type = "DISABLE" PROVE HasFather(queue[i], offline')
    <3>1. queue[i].n = t.n => queue[i].hw # t.hw
      BY <1>t, <1>1, <2>2 DEF Owned, Ending
    <3>2. HasFather(queue[i], offline)
      BY <2>2 DEF CleanInv, Fathered
    <3> QED BY <2>1, <3>1, <3>2
  <2>3. ASSUME NEW u \in running', u.type = "DISABLE" PROVE HasFather(u, offline')
    <3>1. u \in running /\ u # t
      BY <1>1
    <3>2. u.n = t.n => u.hw # t.hw
      <4>1. \A x \in TaskType : x = [type |-> x.type, n |-> x.n, hw |-> x.hw]
        BY DEF TaskType
      <4>2. u \in TaskType /\ t \in TaskType
        BY <1>t, <3>1
      <4> QED BY <1>1, <2>3, <3>1, <4>1, <4>2
    <3>3. HasFather(u, offline)
      BY <2>3, <3>1 DEF CleanInv, Fathered
    <3> QED BY <2>1, <3>2, <3>3
  <2> QED BY <1>2, <2>2, <2>3 DEF Fathered
<1>11. t.hw \in Device => t.hw \notin realTime
  <2> SUFFICES ASSUME t.hw \in Device PROVE t.hw \notin realTime
    OBVIOUS
  <2>1. At(offline, "wait", t.hw)
    BY <1>1, FatherLeaves DEF CleanInv, Fathered
  <2> QED BY <2>1 DEF CleanInv, KnownInv, Leaves
<1>12. EnableInv'
  <2>1. \A e \in realTime : e \in enabled => e \in enabled'
    BY <1>1, <1>11 DEF CleanInv, KnownInv
  <2>2. realTime # {} /\ Local \in enabled => Local \in enabled'
    BY <1>1
  <2>3. \A e : Runs(running, "ENABLE", e) => Runs(running', "ENABLE", e)
    BY <1>7
  <2> QED BY <1>2, <2>1, <2>2, <2>3 DEF CleanInv, EnableInv
<1>13. DisableInv'
  <2> SUFFICES ASSUME NEW e \in Device \ realTime' PROVE Disabled(e)'
    BY DEF DisableInv
  <2>1. Disabled(e)
    BY <1>2 DEF CleanInv, DisableInv
  <2>2. e \in enabled' => e \in enabled /\ (e = t.hw => FALSE)
    BY <1>1, LifecycleConstants
  <2> QED BY <1>2, <1>6, <1>7, <2>1, <2>2 DEF Disabled
<1> QED BY <1>8, <1>9, <1>10, <1>12, <1>13 DEF CleanInv

-----------------------------------------------------------------------------
(* The OFF_LINE task.                                                      *)

LEMMA CreateClean ==
    ASSUME LifecycleInv, CleanInv, NEW o \in offline, CreateDisableTask(o), Clean',
           UNCHANGED <<device, calls, enabled>>
    PROVE  CleanInv'
PROOF
<1> DEFINE ts == Children("DISABLE", o.n, o.dev)
           p == [o EXCEPT !.pc = "wait", !.kids = {o.dev, Local}]
<1>1. /\ o.pc = "create" /\ offline' = (offline \ {o}) \cup {p} /\ Push(queue, ts, {})
      /\ UNCHANGED <<dm, notify, calls, resend, context, factory, running, enabled>>
  BY Zenon DEF CreateDisableTask, device
<1>2. UNCHANGED <<dm, notify, calls, resend, entries, realTime, flagUnInit, running, enabled>>
  BY <1>1 DEF context, factory
<1>t. queue \in Seq(TaskType) /\ o \in OffLineType
  BY DEF LifecycleInv, LifecycleTypeOK
<1>3. /\ p.n = o.n /\ p.dev = o.dev /\ p.pc = "wait" /\ p.kids = {o.dev, Local}
      /\ o.n \in Nat /\ o.dev \in Device
  BY <1>t DEF OffLineType
<1>4. /\ ts \in Seq(TaskType) /\ Len(ts) = 2 /\ ts[1].n = o.n /\ ts[2].n = o.n /\ ts[1].hw = o.dev /\ ts[2].hw = Local
      /\ \A type, h : Has(ts, type, h) <=> type = "DISABLE" /\ h \in {o.dev, Local}
  BY <1>3, ChildrenFacts, HasChildren
<1>5. queue' = queue \o ts
  BY <1>1, PushClean DEF Clean
<1> HIDE DEF ts, p
<1>6. /\ \A type, h : Has(queue', type, h) <=> Has(queue, type, h) \/ (type = "DISABLE" /\ h \in {o.dev, Local})
      /\ \A a, b, h : a # "DISABLE" /\ (Followed(queue, a, b, h) \/ (b = "DISABLE" /\ h = o.dev)) => Followed(queue', a, b, h)
  BY <1>t, <1>4, <1>5, HasGrows
<1>7. /\ \A e : At(offline', "create", e) => At(offline, "create", e)
      /\ \A e : At(offline, "create", e) => At(offline', "create", e) \/ e = o.dev
      /\ \A e : At(offline', "wait", e) <=> At(offline, "wait", e) \/ e = o.dev
      /\ At(offline, "create", o.dev)
  BY <1>1, <1>3 DEF At
<1>8. \A e : Leaves(queue', offline', e) <=> Leaves(queue, offline, e)
  BY <1>6, <1>7 DEF Leaves, ToDisable
<1>9. o.dev \notin realTime
  BY <1>7 DEF CleanInv, KnownInv, Leaves, ToDisable
<1>10. KnownInv'
  BY <1>2, <1>8 DEF CleanInv, KnownInv
<1>11. ToldInv'
  <2>1. (\E x \in offline : x.pc = "check") => \E x \in offline' : x.pc = "check"
    BY <1>1
  <2> QED BY <1>2, <2>1 DEF CleanInv, ToldInv
<1>12. Fathered(queue, running, offline)'
  <2>1. \A u : HasFather(u, offline) => HasFather(u, offline')
    BY <1>1 DEF HasFather
  <2>2. Fathered(queue, running, offline')
    BY <2>1 DEF CleanInv, Fathered
  <2>3. HasFather(ts[1], offline') /\ HasFather(ts[2], offline')
    BY <1>1, <1>3, <1>4 DEF HasFather
  <2>4. \A i \in 1..Len(ts) : i = 1 \/ i = 2
    BY <1>4
  <2>5. \A i \in 1..Len(ts) : ts[i].type = "DISABLE" => HasFather(ts[i], offline')
    BY <2>3, <2>4
  <2> QED BY <1>t, <1>2, <1>4, <1>5, <2>2, <2>5, FatheredGrows
<1>13. EnableInv'
  BY <1>2, <1>6 DEF CleanInv, EnableInv
<1>14. DisableInv'
  <2> SUFFICES ASSUME NEW e \in Device \ realTime' PROVE Disabled(e)'
    BY DEF DisableInv
  <2>1. Disabled(e)
    BY <1>2 DEF CleanInv, DisableInv
  <2>2. Followed(queue', "ON_LINE", "OFF_LINE", e)
    BY <1>6, <2>1 DEF Disabled
  <2>3. CASE e = o.dev
    <3>1. Has(queue', "DISABLE", e) /\ Followed(queue', "ENABLE", "DISABLE", e)
      BY <1>6, <2>3
    <3> QED BY <2>2, <3>1 DEF Disabled
  <2>4. CASE e # o.dev
    <3>1. ToDisable(queue, offline, e) => ToDisable(queue', offline', e)
      BY <1>6, <1>7, <2>4 DEF ToDisable
    <3> QED BY <1>2, <1>6, <2>1, <2>2, <3>1 DEF Disabled
  <2> QED BY <2>3, <2>4
<1> QED BY <1>10, <1>11, <1>12, <1>13, <1>14 DEF CleanInv

\* What an OFF_LINE task that has forgotten its device does changes no task.
LEMMA LaterClean ==
    ASSUME LifecycleInv, CleanInv, NEW o \in offline, o.pc \notin {"create", "wait"},
           UNCHANGED <<queue, running, entries, realTime, enabled>>,
           \/ offline' = offline \ {o}
           \/ \E p : offline' = (offline \ {o}) \cup {p} /\ p.pc \notin {"create", "wait"},
           ToldInv'
    PROVE  CleanInv'
PROOF
<1>1. \A pc, e : pc \in {"create", "wait"} => (At(offline', pc, e) <=> At(offline, pc, e))
  BY DEF At
<1>2. /\ \A e : ToDisable(queue', offline', e) <=> ToDisable(queue, offline, e)
      /\ \A e : Leaves(queue', offline', e) <=> Leaves(queue, offline, e)
  BY <1>1 DEF ToDisable, Leaves
<1>3. \A u : HasFather(u, offline) => HasFather(u, offline')
  BY DEF HasFather
<1>4. KnownInv'
  BY <1>2 DEF CleanInv, KnownInv
<1>5. Fathered(queue, running, offline)'
  BY <1>3 DEF CleanInv, Fathered
<1>6. EnableInv'
  BY DEF CleanInv, EnableInv
<1>7. DisableInv'
  <2> SUFFICES ASSUME NEW e \in Device \ realTime' PROVE Disabled(e)'
    BY DEF DisableInv
  <2>1. Disabled(e)
    BY DEF CleanInv, DisableInv
  <2> QED BY <1>2, <2>1 DEF Disabled
<1> QED BY <1>4, <1>5, <1>6, <1>7 DEF CleanInv

LEMMA WaitClean ==
    ASSUME LifecycleInv, CleanInv, NEW o \in offline, WaitDisableTaskFinish(o),
           UNCHANGED <<device, calls, enabled>>
    PROVE  CleanInv'
PROOF
<1> DEFINE p == [o EXCEPT !.pc = "clear"]
<1>1. /\ o.pc = "wait" /\ o.kids = {} /\ entries' = entries \ {o.dev} /\ offline' = (offline \ {o}) \cup {p}
      /\ UNCHANGED <<dm, notify, calls, resend, realTime, factory, queue, running, enabled>>
  BY Zenon DEF WaitDisableTaskFinish, Step, device
<1>2. UNCHANGED <<dm, notify, calls, resend, realTime, flagUnInit, queue, running, enabled>>
  BY <1>1 DEF factory
<1>3. p.dev = o.dev /\ p.pc = "clear"
  BY DEF LifecycleInv, LifecycleTypeOK, OffLineType
<1> HIDE DEF p
<1>4. /\ \A e : At(offline', "create", e) <=> At(offline, "create", e)
      /\ \A e : e # o.dev => (At(offline', "wait", e) <=> At(offline, "wait", e))
      /\ \A e : At(offline', "wait", e) => At(offline, "wait", e)
      /\ At(offline, "wait", o.dev)
  BY <1>1, <1>3 DEF At
<1>5. \A e : ToDisable(queue', offline', e) <=> ToDisable(queue, offline, e)
  BY <1>2, <1>4 DEF ToDisable
<1>6. KnownInv'
  <2>1. \A e : e # o.dev => (Leaves(queue', offline', e) <=> Leaves(queue, offline, e))
    BY <1>4, <1>5 DEF Leaves
  <2>2. o.dev \notin realTime
    BY <1>4 DEF CleanInv, KnownInv, Leaves
  <2> QED BY <1>1, <1>2, <2>1, <2>2 DEF CleanInv, KnownInv
<1>7. ToldInv'
  <2>1. (\E x \in offline : x.pc = "check") => \E x \in offline' : x.pc = "check"
    BY <1>1
  <2> QED BY <1>2, <2>1 DEF CleanInv, ToldInv
<1>8. Fathered(queue, running, offline)'
  <2>1. \A u : HasFather(u, offline) => HasFather(u, offline')
    BY <1>1 DEF HasFather
  <2> QED BY <1>2, <2>1 DEF CleanInv, Fathered
<1>9. EnableInv'
  BY <1>2 DEF CleanInv, EnableInv
<1>10. DisableInv'
  <2> SUFFICES ASSUME NEW e \in Device \ realTime' PROVE Disabled(e)'
    BY DEF DisableInv
  <2>1. Disabled(e)
    BY <1>2 DEF CleanInv, DisableInv
  <2> QED BY <1>2, <1>5, <2>1 DEF Disabled
<1> QED BY <1>6, <1>7, <1>8, <1>9, <1>10 DEF CleanInv

LEMMA OffLineStepClean ==
    ASSUME LifecycleInv, CleanInv, NEW o \in offline, OffLineStep(o), Clean'
    PROVE  CleanInv'
PROOF
<1>1. /\ UNCHANGED <<device, calls, enabled>>
      /\ \/ CreateDisableTask(o) \/ WaitDisableTaskFinish(o) \/ ClearOffLineInfo(o)
         \/ UnInit(o) \/ ClearFlags(o) \/ CheckExitSAOrNot(o)
  BY Zenon DEF OffLineStep
<1>2. UNCHANGED <<dm, notify, calls, enabled>>
  BY <1>1 DEF device
<1>t. \A pc : [o EXCEPT !.pc = pc].pc = pc
  BY DEF LifecycleInv, LifecycleTypeOK, OffLineType
<1>3. ToldInv
  BY DEF CleanInv
<1>4. CASE CreateDisableTask(o)
  BY <1>1, <1>4, CreateClean
<1>5. CASE WaitDisableTaskFinish(o)
  BY <1>1, <1>5, WaitClean
<1>6. CASE ClearOffLineInfo(o)
  <2>1. /\ o.pc = "clear" /\ UNCHANGED <<entries, realTime, flagUnInit, queue, running, resend>>
        /\ \/ offline' = (offline \ {o}) \cup {[o EXCEPT !.pc = "uninit"]}
           \/ offline' = offline \ {o}
    BY <1>6 DEF ClearOffLineInfo, Step, Finish, context, factory
  <2>2. (\E x \in offline : x.pc = "check") => \E x \in offline' : x.pc = "check"
    BY <2>1
  <2>3. ToldInv'
    BY <1>2, <1>3, <2>1, <2>2 DEF ToldInv
  <2>4. \/ offline' = offline \ {o}
        \/ \E p : offline' = (offline \ {o}) \cup {p} /\ p.pc \notin {"create", "wait"}
    BY <1>t, <2>1
  <2> QED BY <1>2, <2>1, <2>3, <2>4, LaterClean
<1>7. CASE UnInit(o)
  <2>1. /\ o.pc = "uninit" /\ UNCHANGED <<entries, realTime, flagUnInit, queue, running, resend>>
        /\ \/ offline' = (offline \ {o}) \cup {[o EXCEPT !.pc = "flags"]}
           \/ offline' = offline \ {o}
    BY <1>7 DEF UnInit, Step, Finish, context
  <2>2. (\E x \in offline : x.pc = "check") => \E x \in offline' : x.pc = "check"
    BY <2>1
  <2>3. ToldInv'
    BY <1>2, <1>3, <2>1, <2>2 DEF ToldInv
  <2>4. \/ offline' = offline \ {o}
        \/ \E p : offline' = (offline \ {o}) \cup {p} /\ p.pc \notin {"create", "wait"}
    BY <1>t, <2>1
  <2> QED BY <1>2, <2>1, <2>3, <2>4, LaterClean
<1>8. CASE ClearFlags(o)
  <2>1. /\ o.pc = "flags" /\ UNCHANGED <<entries, realTime, queue, running, resend>>
        /\ offline' = (offline \ {o}) \cup {[o EXCEPT !.pc = "check"]}
    BY <1>8 DEF ClearFlags, Step, context
  <2>2. \E x \in offline' : x.pc = "check"
    BY <1>t, <2>1
  <2>3. ToldInv'
    BY <1>2, <1>3, <2>1, <2>2 DEF ToldInv
  <2>4. \E p : offline' = (offline \ {o}) \cup {p} /\ p.pc \notin {"create", "wait"}
    BY <1>t, <2>1
  <2> QED BY <1>2, <2>1, <2>3, <2>4, LaterClean
<1>9. CASE CheckExitSAOrNot(o)
  <2>1. /\ o.pc = "check" /\ UNCHANGED <<entries, realTime, queue, running>>
        /\ offline' = offline \ {o} /\ resend' = resend \cup dm
    BY <1>9 DEF CheckExitSAOrNot, Finish, context, Clean
  <2>2. ToldInv'
    BY <1>2, <1>3, <2>1 DEF ToldInv
  <2> QED BY <1>2, <2>1, <2>2, LaterClean
<1> QED BY <1>1, <1>4, <1>5, <1>6, <1>7, <1>8, <1>9

\* What went wrong stays on record, and the framework does not come back from its exit.
LEMMA CleanBefore == Next /\ Clean' => Clean
PROOF
<1> SUFFICES ASSUME Next, Clean' PROVE Clean
  OBVIOUS
<1>1. CASE Network
  <2>1. UNCHANGED <<flaws, factory>>
    BY <1>1, Zenon DEF Network, IsomerismChanges, DmOnline, DmOffline
  <2> QED BY <2>1 DEF Clean, factory
<1>2. CASE OnDeviceOnline \/ \E d \in resend : ResendOnLine(d)
  BY <1>2 DEF OnDeviceOnline, ResendOnLine, CheckOnLine, Clean
<1>3. ASSUME NEW c \in calls, SendOnLineEvent(c) PROVE Clean
  BY <1>3 DEF SendOnLineEvent, Push, Clean
<1>4. CASE OnDeviceOffline
  BY <1>4 DEF OnDeviceOffline, Push, Clean
<1>5. CASE OnLineTask
  BY <1>5 DEF OnLineTask, Push, Clean
<1>6. CASE StartTask
  BY <1>6 DEF StartTask, Clean
<1>7. ASSUME NEW t \in running, EnableTask(t) \/ DisableTask(t) PROVE Clean
  BY <1>7 DEF EnableTask, DisableTask, Clean
<1>8. ASSUME NEW o \in offline, OffLineStep(o) PROVE Clean
  BY <1>8 DEF OffLineStep, CreateDisableTask, WaitDisableTaskFinish, ClearOffLineInfo, UnInit, ClearFlags,
     CheckExitSAOrNot, Push, Clean
<1> QED BY <1>1, <1>2, <1>3, <1>4, <1>5, <1>6, <1>7, <1>8, Zenon DEF Next, Callbacks

LEMMA CleanStep == LifecycleInv /\ (Clean => CleanInv) /\ [Next]_vars => (Clean => CleanInv)'
PROOF
<1> SUFFICES ASSUME LifecycleInv, Clean => CleanInv, [Next]_vars, Clean' PROVE CleanInv'
  OBVIOUS
<1>1. CASE UNCHANGED vars
  <2>1. /\ UNCHANGED <<dm, notify, calls, resend, entries, realTime, flagUnInit, queue, running, offline, enabled>>
        /\ UNCHANGED <<flaws, exited>>
    BY <1>1 DEF vars, device, context, factory, tasks
  <2>2. CleanInv
    BY <2>1 DEF Clean
  <2>3. ToldInv'
    BY <2>1, <2>2 DEF CleanInv, ToldInv
  <2> QED BY <2>1, <2>2, <2>3, OnlyTold
<1>2. CASE Next
  <2>1. CleanInv
    BY <1>2, CleanBefore
  <2>2. ASSUME NEW d \in Device, DmOnline(d) PROVE CleanInv'
    <3> DEFINE x == [on |-> TRUE, dev |-> d]
    <3>1. /\ notify' = Append(notify, x) /\ dm' = dm \cup {d}
          /\ UNCHANGED <<calls, resend, context, factory, tasks, enabled>>
      BY <2>2, Zenon DEF DmOnline
    <3>2. x \in [on: BOOLEAN, dev: Device] /\ x.on = TRUE /\ x.dev = d
      OBVIOUS
    <3> HIDE DEF x
    <3>3. dm' = IF x.on THEN dm \cup {x.dev} ELSE dm \ {x.dev}
      BY <3>1, <3>2
    <3> QED BY <2>1, <3>1, <3>2, <3>3, DmClean
  <2>3. ASSUME NEW d \in Device, DmOffline(d) PROVE CleanInv'
    <3> DEFINE x == [on |-> FALSE, dev |-> d]
    <3>1. /\ notify' = Append(notify, x) /\ dm' = dm \ {d}
          /\ UNCHANGED <<calls, resend, context, factory, tasks, enabled>>
      BY <2>3, Zenon DEF DmOffline
    <3>2. x \in [on: BOOLEAN, dev: Device] /\ x.on = FALSE /\ x.dev = d
      OBVIOUS
    <3> HIDE DEF x
    <3>3. dm' = IF x.on THEN dm \cup {x.dev} ELSE dm \ {x.dev}
      BY <3>1, <3>2
    <3> QED BY <2>1, <3>1, <3>2, <3>3, DmClean
  <2>4. CASE IsomerismChanges
    <3>1. UNCHANGED <<dm, notify, calls, resend, entries, realTime, flagUnInit, queue, running, offline, enabled>>
      BY <2>4 DEF IsomerismChanges, context, factory, tasks
    <3>2. ToldInv'
      BY <2>1, <3>1 DEF CleanInv, ToldInv
    <3> QED BY <2>1, <3>1, <3>2, OnlyTold
  <2> QED BY <1>2, <2>1, <2>2, <2>3, <2>4, OnDeviceOnlineClean, OnDeviceOfflineClean, ResendClean, SendClean,
             OnLineTaskClean, StartTaskClean, EnableTaskClean, DisableTaskClean, OffLineStepClean, Zenon
      DEF Next, Network, Callbacks
<1> QED BY <1>1, <1>2

\* However devices come and go, while no push is refused, no driver fails and no device
\* comes back before it was forgotten, the framework settles with the devices that are
\* online: their hardware enabled, the local hardware with it, and no other.
THEOREM SettlesLikeNetwork == Spec => []SettledMatchesNetwork
PROOF
<1>1. Init => LifecycleInv /\ CleanInv
  <2> SUFFICES ASSUME Init PROVE LifecycleInv /\ CleanInv
    OBVIOUS
  <2>1. LifecycleInv
    BY LifecycleInit
  <2>2. \A type, h : ~Has(queue, type, h)
    BY DEF Init, Has
  <2>3. \A a, b, h : Followed(queue, a, b, h)
    BY DEF Init, Followed
  <2>4. KnownInv
    BY DEF Init, KnownInv
  <2>5. ToldInv
    BY DEF Init, ToldInv, LastTold
  <2>6. Fathered(queue, running, offline)
    BY DEF Init, Fathered
  <2>7. EnableInv
    BY DEF Init, EnableInv
  <2>8. DisableInv
    BY <2>3 DEF Init, DisableInv, Disabled, Runs
  <2> QED BY <2>1, <2>4, <2>5, <2>6, <2>7, <2>8 DEF CleanInv
<1>2. (Clean => CleanInv) => SettledMatchesNetwork
  <2> SUFFICES ASSUME CleanInv, Settled
               PROVE  /\ enabled \cap Device = entries /\ realTime = entries
                      /\ entries # {} => Local \in enabled
                      /\ flagUnInit \/ entries = dm
    BY DEF SettledMatchesNetwork, Clean
  <2>1. /\ \A type, h : ~Has(queue, type, h) /\ ~Runs(running, type, h)
        /\ \A pc, d : ~At(offline, pc, d)
        /\ \A d : ~Told(notify, d)
    BY DEF Settled, Has, Runs, At, Told
  <2>2. \A d : ~Leaves(queue, offline, d) /\ ~ToDisable(queue, offline, d)
    BY <2>1 DEF Leaves, ToDisable
  <2>3. realTime = entries /\ entries \subseteq Device
    BY <2>2 DEF CleanInv, KnownInv
  <2>4. entries \subseteq enabled /\ (entries # {} => Local \in enabled)
    BY <2>1, <2>3 DEF CleanInv, EnableInv
  <2>5. \A d \in Device : d \in enabled => d \in realTime
    BY <2>1, <2>2 DEF CleanInv, DisableInv, Disabled
  <2>6. flagUnInit \/ entries = dm
    BY <2>1, <2>3 DEF CleanInv, ToldInv, Settled
  <2> QED BY <2>3, <2>4, <2>5, <2>6
<1> QED BY <1>1, <1>2, LifecycleStep, CleanStep, PTL DEF Spec
-----------------------------------------------------------------------------
(* What an OFF_LINE task waits for will come.                              *)

\* The DISABLE task of number n for hardware h is queued or runs.
OnItsWay(q, run, n, h) ==
    \/ \E i \in 1..Len(q) : q[i].type = "DISABLE" /\ q[i].n = n /\ q[i].hw = h
    \/ \E t \in run : t.type = "DISABLE" /\ t.n = n /\ t.hw = h

\* WaitDisableTaskFinish has no timeout.  While no push was refused, each child that
\* an OFF_LINE task still waits for is queued or runs.
WaitsForSomebody ==
    "dropped" \notin flaws =>
        \A o \in offline : \A h \in o.kids : OnItsWay(queue, running, o.n, h)

\* Some OFF_LINE task can take its next step, or some task is there to be run: the guards
\* of OffLineStep, OnLineTask, StartTask, EnableTask and DisableTask.
SomebodyGoesOn ==
    \/ queue # <<>> \/ running # {}
    \/ \E o \in offline :
          \/ o.pc \in {"create", "clear", "flags", "check"}
          \/ o.pc = "wait" /\ o.kids = {}
          \/ o.pc = "uninit" /\ ReleaseFree

\* The tasks of a framework that is still there never all wait for one another.
TasksNeverStuck == "dropped" \notin flaws /\ offline # {} => SomebodyGoesOn

\* Queued tasks stay where they are while others are pushed.
LEMMA PushKeeps ==
    ASSUME NEW q \in Seq(TaskType), NEW ts \in Seq(TaskType), NEW seen, Push(q, ts, seen),
           "dropped" \notin flaws'
    PROVE  /\ "dropped" \notin flaws /\ queue' = q \o ts
           /\ \A i \in 1..Len(q) : i \in 1..Len(queue') /\ queue'[i] = q[i]
           /\ \A i \in 1..Len(ts) : Len(q) + i \in 1..Len(queue') /\ queue'[Len(q) + i] = ts[i]
PROOF
<1>1. "dropped" \notin flaws /\ queue' = q \o ts
  BY DEF Push
<1> QED BY <1>1

\* No child that is queued or runs is lost, and no father waits for more.
LEMMA WaitsKept ==
    ASSUME WaitsForSomebody, "dropped" \notin flaws,
           \A i \in 1..Len(queue) : queue[i].type = "DISABLE" =>
               OnItsWay(queue', running', queue[i].n, queue[i].hw),
           \A t \in running : t.type = "DISABLE" => OnItsWay(queue', running', t.n, t.hw),
           \A p \in offline' : p.kids # {} => \E o \in offline : p.n = o.n /\ p.kids \subseteq o.kids
    PROVE  WaitsForSomebody'
PROOF
<1> SUFFICES ASSUME NEW p \in offline', NEW h \in p.kids
             PROVE  OnItsWay(queue', running', p.n, h)
  BY DEF WaitsForSomebody
<1>1. PICK o \in offline : p.n = o.n /\ p.kids \subseteq o.kids
  OBVIOUS
<1>2. OnItsWay(queue, running, o.n, h)
  BY <1>1 DEF WaitsForSomebody
<1>3. CASE \E i \in 1..Len(queue) : queue[i].type = "DISABLE" /\ queue[i].n = o.n /\ queue[i].hw = h
  BY <1>1, <1>3
<1>4. CASE \E t \in running : t.type = "DISABLE" /\ t.n = o.n /\ t.hw = h
  BY <1>1, <1>4
<1> QED BY <1>2, <1>3, <1>4 DEF OnItsWay

LEMMA WaitsPushed ==
    ASSUME LifecycleTypeOK, WaitsForSomebody, NEW ts \in Seq(TaskType), NEW seen,
           Push(queue, ts, seen), UNCHANGED running, offline' = offline
    PROVE  WaitsForSomebody'
PROOF
<1> SUFFICES ASSUME "dropped" \notin flaws' PROVE WaitsForSomebody'
  BY DEF WaitsForSomebody
<1>1. /\ "dropped" \notin flaws
      /\ \A i \in 1..Len(queue) : i \in 1..Len(queue') /\ queue'[i] = queue[i]
  BY PushKeeps DEF LifecycleTypeOK
<1>2. \A i \in 1..Len(queue) : queue[i].type = "DISABLE" =>
         OnItsWay(queue', running', queue[i].n, queue[i].hw)
  BY <1>1 DEF OnItsWay
<1>3. \A t \in running : t.type = "DISABLE" => OnItsWay(queue', running', t.n, t.hw)
  BY DEF OnItsWay
<1> QED BY <1>1, <1>2, <1>3, WaitsKept

LEMMA WaitsOnLine ==
    ASSUME LifecycleTypeOK, WaitsForSomebody, OnLineTask
    PROVE  WaitsForSomebody'
PROOF
<1> SUFFICES ASSUME "dropped" \notin flaws' PROVE WaitsForSomebody'
  BY DEF WaitsForSomebody
<1> DEFINE ts == Children("ENABLE", Head(queue).n, Head(queue).hw)
<1>1. /\ queue # <<>> /\ Head(queue).type = "ON_LINE" /\ Push(Tail(queue), ts, {})
      /\ UNCHANGED <<running, offline>>
  BY DEF OnLineTask
<1>2. /\ Tail(queue) \in Seq(TaskType) /\ Head(queue) \in TaskType /\ Head(queue) = queue[1]
      /\ Len(queue) \in Nat /\ Len(Tail(queue)) = Len(queue) - 1
      /\ \A i \in 1..Len(Tail(queue)) : Tail(queue)[i] = queue[i + 1]
  BY <1>1, TailFacts DEF LifecycleTypeOK
<1>3. ts \in Seq(TaskType)
  BY <1>2 DEF Children, TaskType, Hardware
<1> HIDE DEF ts
<1>4. /\ "dropped" \notin flaws
      /\ \A i \in 1..Len(Tail(queue)) : i \in 1..Len(queue') /\ queue'[i] = Tail(queue)[i]
  BY <1>1, <1>2, <1>3, PushKeeps
<1>5. \A i \in 1..Len(queue) : queue[i].type = "DISABLE" =>
         OnItsWay(queue', running', queue[i].n, queue[i].hw)
  <2> SUFFICES ASSUME NEW i \in 1..Len(queue), queue[i].type = "DISABLE"
               PROVE  \E j \in 1..Len(queue') : queue'[j] = queue[i]
    BY DEF OnItsWay
  <2>1. i # 1
    BY <1>1, <1>2
  <2>2. i - 1 \in 1..Len(Tail(queue)) /\ (i - 1) + 1 = i
    BY <1>2, <2>1
  <2>3. queue'[i - 1] = queue[i] /\ i - 1 \in 1..Len(queue')
    BY <1>2, <1>4, <2>2
  <2> QED BY <2>3
<1>6. \A t \in running : t.type = "DISABLE" => OnItsWay(queue', running', t.n, t.hw)
  BY <1>1 DEF OnItsWay
<1> QED BY <1>1, <1>4, <1>5, <1>6, WaitsKept

LEMMA WaitsStart ==
    ASSUME LifecycleTypeOK, WaitsForSomebody, StartTask
    PROVE  WaitsForSomebody'
PROOF
<1> SUFFICES ASSUME "dropped" \notin flaws' PROVE WaitsForSomebody'
  BY DEF WaitsForSomebody
<1>1. /\ queue # <<>> /\ queue' = Tail(queue) /\ "dropped" \notin flaws
      /\ \/ /\ Head(queue).type = "OFF_LINE" /\ UNCHANGED running
            /\ offline' = offline \cup
                  {[n |-> Head(queue).n, dev |-> Head(queue).hw, kids |-> {}, pc |-> "create"]}
         \/ running' = running \cup {Head(queue)} /\ UNCHANGED offline
  BY DEF StartTask
<1>2. /\ Head(queue) = queue[1] /\ Len(queue) \in Nat /\ Len(Tail(queue)) = Len(queue) - 1
      /\ \A i \in 1..Len(Tail(queue)) : Tail(queue)[i] = queue[i + 1]
  BY <1>1, TailFacts DEF LifecycleTypeOK
<1>3. \A i \in 1..Len(queue) : queue[i].type = "DISABLE" =>
         OnItsWay(queue', running', queue[i].n, queue[i].hw)
  <2> SUFFICES ASSUME NEW i \in 1..Len(queue), queue[i].type = "DISABLE"
               PROVE  (\E j \in 1..Len(queue') : queue'[j] = queue[i]) \/ queue[i] \in running'
    BY DEF OnItsWay
  <2>1. CASE i = 1
    BY <1>1, <1>2, <2>1
  <2>2. CASE i # 1
    <3>1. i - 1 \in 1..Len(Tail(queue)) /\ (i - 1) + 1 = i
      BY <1>2, <2>2
    <3>2. queue'[i - 1] = queue[i] /\ i - 1 \in 1..Len(queue')
      BY <1>1, <1>2, <3>1
    <3> QED BY <3>2
  <2> QED BY <2>1, <2>2
<1>4. \A t \in running : t.type = "DISABLE" => OnItsWay(queue', running', t.n, t.hw)
  BY <1>1 DEF OnItsWay
<1>5. \A p \in offline' : p.kids # {} => \E o \in offline : p.n = o.n /\ p.kids \subseteq o.kids
  BY <1>1
<1> QED BY <1>1, <1>3, <1>4, <1>5, WaitsKept

\* A child that has run is waited for no more.
LEMMA WaitsRun ==
    ASSUME LifecycleTypeOK, WaitsForSomebody, NEW t \in running, EnableTask(t) \/ DisableTask(t)
    PROVE  WaitsForSomebody'
PROOF
<1> SUFFICES ASSUME "dropped" \notin flaws', NEW p \in offline', NEW h \in p.kids
             PROVE  OnItsWay(queue', running', p.n, h)
  BY DEF WaitsForSomebody
<1>1. "dropped" \notin flaws /\ running' = running \ {t} /\ UNCHANGED queue
  BY DEF EnableTask, DisableTask
<1>2. CASE EnableTask(t)
  <2>1. t.type = "ENABLE" /\ p \in offline
    BY <1>2 DEF EnableTask
  <2>2. OnItsWay(queue, running, p.n, h)
    BY <1>1, <2>1 DEF WaitsForSomebody
  <2> QED BY <1>1, <2>1, <2>2 DEF OnItsWay
<1>3. CASE DisableTask(t)
  <2>1. PICK o \in offline : p = IF o.n = t.n THEN [o EXCEPT !.kids = @ \ {t.hw}] ELSE o
    BY <1>3 DEF DisableTask, NotifyFatherFinish
  <2>2. /\ p.n = o.n /\ h \in o.kids /\ (o.n = t.n => h # t.hw)
    <3>1. o \in OffLineType
      BY DEF LifecycleTypeOK
    <3>2. CASE o.n = t.n
      BY <2>1, <3>1, <3>2 DEF OffLineType
    <3>3. CASE o.n # t.n
      BY <2>1, <3>3
    <3> QED BY <3>2, <3>3
  <2>3. OnItsWay(queue, running, o.n, h)
    BY <1>1, <2>2 DEF WaitsForSomebody
  <2>4. ~(t.n = o.n /\ t.hw = h)
    BY <2>2
  <2> QED BY <1>1, <2>2, <2>3, <2>4 DEF OnItsWay
<1> QED BY <1>2, <1>3

LEMMA WaitsOffLine ==
    ASSUME LifecycleTypeOK, WaitsForSomebody, NEW o \in offline, OffLineStep(o)
    PROVE  WaitsForSomebody'
PROOF
<1> SUFFICES ASSUME "dropped" \notin flaws' PROVE WaitsForSomebody'
  BY DEF WaitsForSomebody
<1>t. o \in OffLineType /\ o.n \in Nat /\ o.dev \in Device /\ queue \in Seq(TaskType)
  BY DEF LifecycleTypeOK, OffLineType
<1>1. CASE CreateDisableTask(o)
  <2> DEFINE ts == Children("DISABLE", o.n, o.dev)
  <2>1. /\ offline' = (offline \ {o}) \cup {[o EXCEPT !.pc = "wait", !.kids = {o.dev, Local}]}
        /\ Push(queue, ts, {}) /\ UNCHANGED running
    BY <1>1 DEF CreateDisableTask
  <2>2. /\ ts \in Seq(TaskType) /\ Len(ts) = 2
        /\ ts[1] = [type |-> "DISABLE", n |-> o.n, hw |-> o.dev]
        /\ ts[2] = [type |-> "DISABLE", n |-> o.n, hw |-> Local]
    BY <1>t DEF Children, TaskType, Hardware
  <2> HIDE DEF ts
  <2>3. /\ "dropped" \notin flaws
        /\ \A i \in 1..Len(queue) : i \in 1..Len(queue') /\ queue'[i] = queue[i]
        /\ \A i \in 1..Len(ts) : Len(queue) + i \in 1..Len(queue') /\ queue'[Len(queue) + i] = ts[i]
    BY <2>1, <2>2, <1>t, PushKeeps
  <2>4. OnItsWay(queue', running', o.n, o.dev) /\ OnItsWay(queue', running', o.n, Local)
    <3>1. \E i \in 1..Len(queue') : queue'[i] = [type |-> "DISABLE", n |-> o.n, hw |-> o.dev]
      BY <2>2, <2>3
    <3>2. \E i \in 1..Len(queue') : queue'[i] = [type |-> "DISABLE", n |-> o.n, hw |-> Local]
      BY <2>2, <2>3
    <3> QED BY <3>1, <3>2 DEF OnItsWay
  <2>5. \A n, h : OnItsWay(queue, running, n, h) => OnItsWay(queue', running', n, h)
    BY <2>1, <2>3 DEF OnItsWay
  <2> SUFFICES ASSUME NEW p \in offline', NEW h \in p.kids
               PROVE  OnItsWay(queue', running', p.n, h)
    BY DEF WaitsForSomebody
  <2>6. CASE p \in offline
    BY <2>3, <2>5, <2>6 DEF WaitsForSomebody
  <2>7. CASE p = [o EXCEPT !.pc = "wait", !.kids = {o.dev, Local}]
    BY <2>4, <2>7, <1>t DEF OffLineType
  <2> QED BY <2>1, <2>6, <2>7
<1>2. CASE ~CreateDisableTask(o)
  <2>1. /\ "dropped" \notin flaws /\ UNCHANGED <<queue, running>>
        /\ (\E pc : Step(o, pc)) \/ Finish(o)
    BY <1>2 DEF OffLineStep, WaitDisableTaskFinish, ClearOffLineInfo, UnInit, ClearFlags, CheckExitSAOrNot
  <2>2. \A p \in offline' : p.kids # {} => \E q \in offline : p.n = q.n /\ p.kids \subseteq q.kids
    BY <2>1, <1>t DEF Step, Finish, OffLineType
  <2>3. \A i \in 1..Len(queue) : queue[i].type = "DISABLE" =>
           OnItsWay(queue', running', queue[i].n, queue[i].hw)
    BY <2>1 DEF OnItsWay
  <2>4. \A t \in running : t.type = "DISABLE" => OnItsWay(queue', running', t.n, t.hw)
    BY <2>1 DEF OnItsWay
  <2> QED BY <2>1, <2>2, <2>3, <2>4, WaitsKept
<1> QED BY <1>1, <1>2

LEMMA WaitsStep ==
    ASSUME LifecycleTypeOK, WaitsForSomebody, [Next]_vars
    PROVE  WaitsForSomebody'
PROOF
<1>0. ASSUME UNCHANGED <<queue, running, offline>>, flaws \subseteq flaws' PROVE WaitsForSomebody'
  BY <1>0, Zenon DEF WaitsForSomebody
<1>1. CASE UNCHANGED vars
  <2>1. UNCHANGED <<queue, running, offline, flaws>>
    BY <1>1, Zenon DEF vars, tasks
  <2> QED BY <2>1, <1>0
<1>2. CASE Network
  <2>1. UNCHANGED <<queue, running, offline, flaws>>
    BY <1>2, Zenon DEF Network, IsomerismChanges, DmOnline, DmOffline, tasks
  <2> QED BY <2>1, <1>0
<1>3. CASE OnDeviceOnline \/ \E d \in resend : ResendOnLine(d)
  <2>1. UNCHANGED <<queue, running, offline>>
    BY <1>3, Zenon DEF OnDeviceOnline, ResendOnLine, tasks
  <2>2. flaws \subseteq flaws'
    BY <1>3 DEF OnDeviceOnline, ResendOnLine, CheckOnLine
  <2> QED BY <2>1, <2>2, <1>0
<1>4. ASSUME NEW c \in calls, SendOnLineEvent(c) PROVE WaitsForSomebody'
  <2>1. PICK seen : Push(queue, <<[type |-> "ON_LINE", n |-> made + 1, hw |-> c.dev]>>, seen)
    BY <1>4 DEF SendOnLineEvent
  <2>2. <<[type |-> "ON_LINE", n |-> made + 1, hw |-> c.dev]>> \in Seq(TaskType)
    BY DEF LifecycleTypeOK, TaskType, Hardware
  <2>3. UNCHANGED <<running, offline>>
    BY <1>4, Zenon DEF SendOnLineEvent
  <2> QED BY <2>1, <2>2, <2>3, WaitsPushed
<1>5. CASE OnDeviceOffline
  <2>1. CASE UNCHANGED <<tasks, flaws>>
    <3>1. UNCHANGED <<queue, running, offline, flaws>>
      BY <2>1 DEF tasks
    <3> QED BY <3>1, <1>0
  <2>2. ASSUME Push(queue, <<[type |-> "OFF_LINE", n |-> made', hw |-> Head(notify).dev]>>, {}),
               made' = made + 1, UNCHANGED <<running, offline>>
        PROVE  WaitsForSomebody'
    <3>1. notify # <<>>
      BY <1>5 DEF OnDeviceOffline
    <3>2. Head(notify).dev \in Device
      <4>1. notify \in Seq([on: BOOLEAN, dev: Device])
        BY DEF LifecycleTypeOK
      <4>2. Head(notify) \in [on: BOOLEAN, dev: Device]
        BY <3>1, <4>1, TailFacts
      <4> QED BY <4>2
    <3>3. <<[type |-> "OFF_LINE", n |-> made + 1, hw |-> Head(notify).dev]>> \in Seq(TaskType)
      BY <3>2 DEF LifecycleTypeOK, TaskType, Hardware
    <3>4. Push(queue, <<[type |-> "OFF_LINE", n |-> made + 1, hw |-> Head(notify).dev]>>, {})
      BY <2>2
    <3> QED BY <2>2, <3>3, <3>4, WaitsPushed
  <2> QED BY <1>5, <2>1, <2>2, Zenon DEF OnDeviceOffline
<1> QED BY <1>1, <1>2, <1>3, <1>4, <1>5, WaitsOnLine, WaitsStart, WaitsRun, WaitsOffLine, Zenon
     DEF Next, Callbacks

\* While no push was refused, an OFF_LINE task waits only for children that are queued
\* or run: with the fairness of the queue it does not wait for ever.
THEOREM WaitedChildrenCome == Spec => []WaitsForSomebody
PROOF
<1>1. Init => WaitsForSomebody
  BY DEF Init, WaitsForSomebody
<1>2. LifecycleInv /\ WaitsForSomebody /\ [Next]_vars => WaitsForSomebody'
  BY WaitsStep DEF LifecycleInv
<1> QED BY <1>1, <1>2, LifecycleInit, LifecycleStep, PTL DEF Spec

\* The threads of the framework never all wait for one another: children for the queue,
\* fathers for children, and one release for another.
THEOREM TasksGoOn == Spec => []TasksNeverStuck
PROOF
<1>1. ASSUME LifecycleTypeOK, WaitsForSomebody PROVE TasksNeverStuck
  <2> SUFFICES ASSUME "dropped" \notin flaws, NEW o \in offline, queue = <<>>, running = {}
               PROVE  SomebodyGoesOn
    BY DEF TasksNeverStuck, SomebodyGoesOn
  <2>1. o.pc \in {"create", "wait", "clear", "uninit", "flags", "check"}
    BY <1>1 DEF LifecycleTypeOK, OffLineType
  <2>2. o.kids = {}
    <3>1. \A h \in o.kids : OnItsWay(queue, running, o.n, h)
      BY <1>1 DEF WaitsForSomebody
    <3>2. \A n, h : ~OnItsWay(queue, running, n, h)
      BY DEF OnItsWay
    <3> QED BY <3>1, <3>2
  <2>3. ReleaseFree \/ \E p \in offline : p.pc \in {"flags", "check"}
    BY DEF ReleaseFree
  <2> QED BY <2>1, <2>2, <2>3, Zenon DEF SomebodyGoesOn
<1>2. LifecycleInv => LifecycleTypeOK
  BY DEF LifecycleInv
<1> QED BY <1>1, <1>2, LifecycleInit, LifecycleStep, WaitedChildrenCome, PTL DEF Spec
=============================================================================
