------------------------- MODULE ServedRosterProofs -------------------------
(***************************************************************************)
(* Proof that the served roster differs from the Relay's by the events in  *)
(* flight only, for any channels, senders, chunk counts and bounds, and a  *)
(* Relay that writes no event between the chunks of a snapshot.            *)
(***************************************************************************)
EXTENDS RelayProjectionProofs, WellFoundedInduction

-----------------------------------------------------------------------------
(***************************************************************************)
(* Replay, by induction on the length of what is replayed. The induction   *)
(* is on the least counterexample.                                         *)
(***************************************************************************)

\* A set of naturals has a least element.
LEMMA LeastNumber ==
  ASSUME NEW T \in SUBSET Nat, T # {}
  PROVE  \E m \in T : \A k \in T : m <= k
<1>1. PICK R : R = OpToRel(<, Nat)
  OBVIOUS
<1>2. IsWellFoundedOn(R, Nat)
  BY <1>1, NatLessThanWellFounded
<1>3. PICK m \in T : \A y \in T : ~(<<y, m>> \in R)
  BY <1>2, WFMin
<1>4. \A x, y \in Nat : <<y, x>> \in R <=> y < x
  BY <1>1 DEF OpToRel
<1>5. ASSUME NEW k \in T PROVE m <= k
  <2>1. k \in Nat /\ m \in Nat /\ ~(k < m)
    BY <1>3, <1>4
  <2>2. QED
    BY <2>1
<1>6. QED
  BY <1>5

\* A set of naturals that has 0 and with each number the next has all of them.
LEMMA Induction ==
  ASSUME NEW T, 0 \in T, \A n \in Nat : n \in T => n + 1 \in T
  PROVE  \A n \in Nat : n \in T
<1> SUFFICES ASSUME {n \in Nat : n \notin T} # {} PROVE FALSE
  OBVIOUS
<1> DEFINE U == {n \in Nat : n \notin T}
<1>1. U \in SUBSET Nat /\ U # {}
  OBVIOUS
<1> HIDE DEF U
<1>2. PICK m \in U : \A k \in U : m <= k
  BY <1>1, LeastNumber
<1>3. m \in Nat /\ m # 0 /\ m \notin T
  BY DEF U
<1>4. m - 1 \in Nat /\ m - 1 < m /\ (m - 1) + 1 = m
  BY <1>3
<1>5. m - 1 \notin U
  BY <1>2, <1>4
<1>6. QED
  BY <1>3, <1>4, <1>5 DEF U

\* The rosters between the frames of l, up to frame n.
Run(r, c, l, n) == r = [i \in 0 .. n |-> IF i = 0 THEN c ELSE Apply(r[i - 1], l[i])]

\* The equation of Replay has a solution.
LEMMA RunExists ==
  ASSUME NEW c, NEW l
  PROVE  \A n \in Nat : \E r : Run(r, c, l, n)
<1> DEFINE T == {n \in Nat : \E r : Run(r, c, l, n)}
<1>1. 0 \in T
  <2>1. Run([i \in 0 .. 0 |-> c], c, l, 0)
    BY DEF Run
  <2>2. QED
    BY <2>1
<1>2. ASSUME NEW n \in Nat, n \in T PROVE n + 1 \in T
  <2>1. PICK r : Run(r, c, l, n)
    BY <1>2
  <2> DEFINE q == [i \in 0 .. n + 1 |-> IF i <= n THEN r[i] ELSE Apply(r[n], l[n + 1])]
  <2>2. \A i \in 0 .. n : r[i] = IF i = 0 THEN c ELSE Apply(r[i - 1], l[i])
    BY <2>1 DEF Run
  <2>3. ASSUME NEW i \in 0 .. n + 1
        PROVE  q[i] = IF i = 0 THEN c ELSE Apply(q[i - 1], l[i])
    <3>1. CASE i <= n
      BY <2>2, <3>1
    <3>2. CASE i = n + 1
      BY <3>2
    <3>3. QED
      BY <3>1, <3>2
  <2>4. DOMAIN q = 0 .. n + 1 /\ q = [i \in 0 .. n + 1 |-> q[i]]
    OBVIOUS
  <2> HIDE DEF q
  <2>5. Run(q, c, l, n + 1)
    BY <2>3, <2>4 DEF Run
  <2>6. QED
    BY <2>5
<1> HIDE DEF T
<1>3. \A n \in Nat : n \in T
  BY <1>1, <1>2, Induction
<1>4. QED
  BY <1>3 DEF T

\* The equation has one solution.
LEMMA RunUnique ==
  ASSUME NEW c, NEW l, NEW n \in Nat, NEW r, Run(r, c, l, n), NEW q, Run(q, c, l, n)
  PROVE  \A i \in 0 .. n : r[i] = q[i]
<1> DEFINE T == {i \in Nat : i <= n => r[i] = q[i]}
<1>1. \A i \in 0 .. n : /\ r[i] = IF i = 0 THEN c ELSE Apply(r[i - 1], l[i])
                       /\ q[i] = IF i = 0 THEN c ELSE Apply(q[i - 1], l[i])
  BY DEF Run
<1>2. 0 \in T
  BY <1>1
<1>3. ASSUME NEW i \in Nat, i \in T PROVE i + 1 \in T
  <2> SUFFICES ASSUME i + 1 <= n PROVE r[i + 1] = q[i + 1]
    OBVIOUS
  <2>1. r[i] = q[i] /\ i + 1 \in 0 .. n /\ i + 1 # 0 /\ (i + 1) - 1 = i
    BY <1>3
  <2>2. QED
    BY <1>1, <2>1
<1> HIDE DEF T
<1>4. \A i \in Nat : i \in T
  BY <1>2, <1>3, Induction
<1>5. QED
  BY <1>4 DEF T

\* Replay is the last roster of a run.
LEMMA ReplayIsRun ==
  ASSUME NEW c, NEW l, Len(l) \in Nat, NEW r, Run(r, c, l, Len(l))
  PROVE  Replay(c, l) = r[Len(l)]
<1> DEFINE q == CHOOSE q : Run(q, c, l, Len(l))
<1>1. Replay(c, l) = q[Len(l)]
  BY DEF Replay, Run
<1>2. Run(q, c, l, Len(l))
  OBVIOUS
<1> HIDE DEF q
<1>3. r[Len(l)] = q[Len(l)]
  BY <1>2, RunUnique
<1>4. QED
  BY <1>1, <1>3

\* Applying a frame to a roster gives a roster.
LEMMA ApplyType ==
  ASSUME NEW c \in Rosters, NEW f \in Frames
  PROVE  Apply(c, f) \in Rosters
<1>1. CASE f.type = "event"
  <2>1. f \in Events
    BY <1>1 DEF Frames, HelloAckFrame, Chunks
  <2>2. f = Event(f.kind, f.slot) /\ f.kind \in EventKinds /\ f.slot \in Slots
    BY <2>1 DEF Events, Event
  <2>3. QED
    BY <1>1, <2>2, RecordedType DEF Apply
<1>2. QED
  BY <1>1 DEF Apply

\* Replaying frames gives a roster.
LEMMA ReplayType ==
  ASSUME NEW c \in Rosters, NEW l \in Seq(Frames)
  PROVE  Replay(c, l) \in Rosters
<1>1. Len(l) \in Nat /\ \A i \in 1 .. Len(l) : l[i] \in Frames
  BY LenProperties
<1>2. PICK r : Run(r, c, l, Len(l))
  BY <1>1, RunExists
<1>3. \A i \in 0 .. Len(l) : r[i] = IF i = 0 THEN c ELSE Apply(r[i - 1], l[i])
  BY <1>2 DEF Run
<1> DEFINE T == {i \in Nat : i <= Len(l) => r[i] \in Rosters}
<1>4. 0 \in T
  BY <1>1, <1>3
<1>5. ASSUME NEW i \in Nat, i \in T PROVE i + 1 \in T
  <2> SUFFICES ASSUME i + 1 <= Len(l) PROVE r[i + 1] \in Rosters
    OBVIOUS
  <2>1. /\ r[i] \in Rosters /\ i + 1 \in 0 .. Len(l) /\ i + 1 \in 1 .. Len(l)
        /\ (i + 1) - 1 = i
    BY <1>1, <1>5
  <2>2. r[i + 1] = Apply(r[i], l[i + 1])
    BY <1>3, <2>1
  <2>3. QED
    BY <1>1, <2>1, <2>2, ApplyType
<1> HIDE DEF T
<1>6. \A i \in Nat : i \in T
  BY <1>4, <1>5, Induction
<1>7. r[Len(l)] \in Rosters
  BY <1>1, <1>6 DEF T
<1>8. QED
  BY <1>1, <1>2, <1>7, ReplayIsRun

\* Nothing to replay.
LEMMA ReplayEmpty ==
  ASSUME NEW c
  PROVE  Replay(c, <<>>) = c
<1>1. PICK l : l = <<>>
  OBVIOUS
<1>2. Len(l) = 0
  BY <1>1, EmptySeq
<1>3. PICK r : Run(r, c, l, 0)
  BY RunExists
<1>4. r[0] = c
  BY <1>3 DEF Run
<1>5. Replay(c, l) = r[0]
  BY <1>2, <1>3, ReplayIsRun
<1>6. QED
  BY <1>1, <1>4, <1>5

\* One frame more.
LEMMA ReplayAppend ==
  ASSUME NEW c, NEW l \in Seq(Frames), NEW f \in Frames
  PROVE  Replay(c, Append(l, f)) = Apply(Replay(c, l), f)
<1>1. PICK m : m = Append(l, f)
  OBVIOUS
<1>2. /\ Len(l) \in Nat /\ Len(m) = Len(l) + 1 /\ m[Len(l) + 1] = f
      /\ \A i \in 1 .. Len(l) : m[i] = l[i]
  BY <1>1, LenProperties, AppendProperties
<1>3. PICK r : Run(r, c, m, Len(m))
  <2>1. Len(m) \in Nat
    BY <1>2
  <2>2. QED
    BY <2>1, RunExists
<1>4. \A i \in 0 .. Len(m) : r[i] = IF i = 0 THEN c ELSE Apply(r[i - 1], m[i])
  BY <1>3 DEF Run
<1> DEFINE q == [i \in 0 .. Len(l) |-> r[i]]
<1>5. Run(q, c, l, Len(l))
  <2>1. ASSUME NEW i \in 0 .. Len(l)
        PROVE  q[i] = IF i = 0 THEN c ELSE Apply(q[i - 1], l[i])
    BY <1>2, <1>4
  <2>2. q = [i \in 0 .. Len(l) |-> q[i]]
    OBVIOUS
  <2> HIDE DEF q
  <2>3. QED
    BY <2>1, <2>2 DEF Run
<1>6. q[Len(l)] = r[Len(l)]
  BY <1>2
<1> HIDE DEF q
<1>7. Replay(c, l) = r[Len(l)]
  BY <1>2, <1>5, <1>6, ReplayIsRun
<1>8. Replay(c, m) = r[Len(m)]
  BY <1>2, <1>3, ReplayIsRun
<1>9. r[Len(m)] = Apply(r[Len(l)], f)
  BY <1>2, <1>4
<1>10. QED
  BY <1>1, <1>7, <1>8, <1>9

\* The first frame and the others.
LEMMA ReplayTail ==
  ASSUME NEW c, NEW l \in Seq(Frames), l # <<>>
  PROVE  Replay(c, l) = Replay(Apply(c, Head(l)), Tail(l))
<1>1. PICK m : m = Tail(l)
  OBVIOUS
<1>2. PICK d : d = Apply(c, Head(l))
  OBVIOUS
<1>3. /\ Len(l) \in Nat \ {0} /\ Len(m) = Len(l) - 1 /\ Head(l) = l[1]
      /\ \A i \in 1 .. Len(m) : m[i] = l[i + 1]
  BY <1>1, EmptySeq, LenProperties, HeadTailProperties
<1>4. PICK r : Run(r, c, l, Len(l))
  BY <1>3, RunExists
<1>5. \A i \in 0 .. Len(l) : r[i] = IF i = 0 THEN c ELSE Apply(r[i - 1], l[i])
  BY <1>4 DEF Run
<1> DEFINE q == [i \in 0 .. Len(m) |-> r[i + 1]]
<1>6. Run(q, d, m, Len(m))
  <2>1. ASSUME NEW i \in 0 .. Len(m)
        PROVE  q[i] = IF i = 0 THEN d ELSE Apply(q[i - 1], m[i])
    <3>1. CASE i = 0
      BY <1>2, <1>3, <1>5, <3>1
    <3>2. CASE i # 0
      <4>1. /\ i \in 1 .. Len(m) /\ i - 1 \in 0 .. Len(m) /\ i + 1 \in 0 .. Len(l)
            /\ (i - 1) + 1 = i /\ (i + 1) - 1 = i /\ i + 1 # 0
        BY <1>3, <3>2
      <4>2. r[i + 1] = Apply(r[i], l[i + 1])
        BY <1>5, <4>1
      <4>3. QED
        BY <1>3, <3>2, <4>1, <4>2
    <3>3. QED
      BY <3>1, <3>2
  <2>2. q = [i \in 0 .. Len(m) |-> q[i]]
    OBVIOUS
  <2> HIDE DEF q
  <2>3. QED
    BY <2>1, <2>2 DEF Run
<1>7. q[Len(m)] = r[Len(l)]
  BY <1>3
<1> HIDE DEF q
<1>8. Replay(d, m) = r[Len(l)]
  BY <1>3, <1>6, <1>7, ReplayIsRun
<1>9. Replay(c, l) = r[Len(l)]
  BY <1>3, <1>4, ReplayIsRun
<1>10. QED
  BY <1>1, <1>2, <1>8, <1>9

-----------------------------------------------------------------------------
(***************************************************************************)
(* What events do to a roster.                                             *)
(***************************************************************************)

\* An event treats rosters alike that differ in joined and idle only.
LEMMA ApplyNorm ==
  ASSUME NEW c \in Rosters, NEW d \in Rosters, Norm(c) = Norm(d), NEW f \in Frames
  PROVE  Norm(Apply(c, f)) = Norm(Apply(d, f))
<1>1. CASE f.type # "event"
  BY <1>1 DEF Apply
<1>2. CASE f.type = "event"
  <2>1. f \in Events
    BY <1>2 DEF Frames, HelloAckFrame, Chunks
  <2>2. f.kind \in EventKinds /\ f.slot \in Slots
    BY <2>1 DEF Events
  <2>3. \A p \in Slots : (IF c[p] = "joined" THEN "idle" ELSE c[p])
                         = (IF d[p] = "joined" THEN "idle" ELSE d[p])
    <3>1. \A p \in Slots : Norm(c)[p] = Norm(d)[p]
      OBVIOUS
    <3>2. QED
      BY <3>1 DEF Norm
  <2>4. c[f.slot] = "absent" <=> d[f.slot] = "absent"
    BY <2>2, <2>3
  <2>5. ASSUME NEW p \in Slots
        PROVE  (IF Recorded(c, f)[p] = "joined" THEN "idle" ELSE Recorded(c, f)[p])
               = (IF Recorded(d, f)[p] = "joined" THEN "idle" ELSE Recorded(d, f)[p])
    BY <2>2, <2>3, <2>4 DEF Recorded, EventKinds, Rosters
  <2>6. Norm(Recorded(c, f)) = Norm(Recorded(d, f))
    BY <2>5 DEF Norm
  <2>7. QED
    BY <1>2, <2>6 DEF Apply
<1>3. QED
  BY <1>1, <1>2

\* One event more, seen from the roster the Relay had before it.
LEMMA SyncAppend ==
  ASSUME NEW c \in Rosters, NEW l \in Seq(Frames), NEW r \in Rosters,
         Norm(Replay(c, l)) = Norm(r), NEW f \in Frames
  PROVE  Norm(Replay(c, Append(l, f))) = Norm(Apply(r, f))
<1>1. Replay(c, l) \in Rosters
  BY ReplayType
<1>2. Norm(Apply(Replay(c, l), f)) = Norm(Apply(r, f))
  BY <1>1, ApplyNorm
<1>3. QED
  BY <1>2, ReplayAppend

\* The move of a participant and its announcements agree.
LEMMA SyncAnnounced ==
  ASSUME NEW c \in Rosters, NEW l \in Seq(Frames), NEW r \in Rosters,
         Norm(Replay(c, l)) = Norm(r),
         NEW p \in Slots, NEW b \in States, NEW es \in Announcements(p, r[p], b)
  PROVE  Norm(Replay(c, l \o es)) = Norm([r EXCEPT ![p] = b])
<1> DEFINE E(k) == Event(k, p)
<1>1. \A k \in EventKinds : E(k) \in Frames /\ E(k).type = "event" /\ E(k).kind = k
                            /\ E(k).slot = p
  BY EventType DEF Event
<1> DEFINE s == [r EXCEPT ![p] = b]
<1>2. s \in Rosters
  BY DEF Rosters
<1>3. ASSUME NEW k \in EventKinds, es = <<E(k)>>, Norm(Apply(r, E(k))) = Norm(s)
      PROVE  Norm(Replay(c, l \o es)) = Norm(s)
  <2>1. E(k) \in Frames
    BY <1>1
  <2> HIDE DEF E, s
  <2>2. l \o <<E(k)>> = Append(l, E(k))
    BY <2>1, AppendIsConcat
  <2>3. Norm(Replay(c, Append(l, E(k)))) = Norm(Apply(r, E(k)))
    BY <2>1, SyncAppend
  <2>4. QED
    BY <1>3, <2>2, <2>3
<1>4. ASSUME NEW k \in EventKinds, NEW m \in EventKinds, es = <<E(k), E(m)>>,
             Norm(Apply(Apply(r, E(k)), E(m))) = Norm(s)
      PROVE  Norm(Replay(c, l \o es)) = Norm(s)
  <2>1. E(k) \in Frames /\ E(m) \in Frames
    BY <1>1
  <2> HIDE DEF E
  <2>2. Append(l, E(k)) \in Seq(Frames)
    BY <2>1, AppendProperties
  <2>3. l \o <<E(k), E(m)>> = Append(Append(l, E(k)), E(m))
    BY <2>1
  <2>4. Norm(Replay(c, Append(l, E(k)))) = Norm(Apply(r, E(k)))
    BY <2>1, SyncAppend
  <2>5. Apply(r, E(k)) \in Rosters
    BY <2>1, ApplyType
  <2>6. Norm(Replay(c, Append(Append(l, E(k)), E(m)))) = Norm(Apply(Apply(r, E(k)), E(m)))
    BY <2>1, <2>2, <2>4, <2>5, SyncAppend
  <2>7. QED
    BY <1>4, <2>3, <2>6
<1>5. \A x \in Rosters, k \in EventKinds : Apply(x, E(k)) = Recorded(x, E(k))
  BY <1>1 DEF Apply
<1>6. ASSUME NEW x \in Rosters
      PROVE  /\ Apply(x, E("participant_joined")) = [x EXCEPT ![p] = "idle"]
             /\ Apply(x, E("participant_left")) = [x EXCEPT ![p] = "absent"]
             /\ Apply(x, E("talk_started")) = [x EXCEPT ![p] = "talking"]
             /\ Apply(x, E("talk_ended")) = IF x[p] # "absent" THEN [x EXCEPT ![p] = "idle"]
                                                              ELSE x
  BY <1>1, <1>5 DEF Recorded, EventKinds
<1>7. /\ [r EXCEPT ![p] = "absent"] \in Rosters /\ [r EXCEPT ![p] = "absent"][p] = "absent"
      /\ [r EXCEPT ![p] = "idle"] \in Rosters
      /\ [[r EXCEPT ![p] = "idle"] EXCEPT ![p] = "absent"] = [r EXCEPT ![p] = "absent"]
  BY DEF Rosters, States
<1>8. CASE r[p] = "absent" /\ b = "joined"
  <2>1. es = <<E("participant_joined")>>
    BY <1>8 DEF Announcements
  <2>2. Norm([r EXCEPT ![p] = "idle"]) = Norm(s)
    BY <1>8 DEF Norm, Rosters
  <2>3. QED
    BY <1>3, <1>6, <2>1, <2>2 DEF EventKinds
<1>9. CASE r[p] \in {"joined", "idle"} /\ b = "absent"
  <2>1. es = <<E("participant_left")>>
    BY <1>9 DEF Announcements
  <2>2. QED
    BY <1>3, <1>6, <1>9, <2>1 DEF EventKinds
<1>10. CASE r[p] = "talking" /\ b = "absent"
  <2>1. \/ es = <<E("participant_left"), E("talk_ended")>>
        \/ es = <<E("talk_ended"), E("participant_left")>>
    BY <1>10 DEF Announcements
  <2>2. /\ Apply(Apply(r, E("participant_left")), E("talk_ended")) = s
        /\ Apply(Apply(r, E("talk_ended")), E("participant_left")) = s
    BY <1>6, <1>7, <1>10
  <2>3. QED
    BY <1>4, <2>1, <2>2 DEF EventKinds
<1>11. CASE r[p] \in {"joined", "idle"} /\ b = "talking"
  <2>1. es = <<E("talk_started")>>
    BY <1>11 DEF Announcements
  <2>2. QED
    BY <1>3, <1>6, <1>11, <2>1 DEF EventKinds
<1>12. CASE r[p] = "talking" /\ b = "idle"
  <2>1. es = <<E("talk_ended")>>
    BY <1>12 DEF Announcements
  <2>2. QED
    BY <1>3, <1>6, <1>12, <2>1 DEF EventKinds
<1>13. QED
  BY <1>8, <1>9, <1>10, <1>11, <1>12 DEF Announcements

-----------------------------------------------------------------------------
(***************************************************************************)
(* The inductive invariant.                                                *)
(***************************************************************************)

\* Outside an open session nothing of a snapshot is under way, and the Relay
\* writes nothing before it has accepted the connection.
SessionInv ==
  /\ session \in {"down", "closed"} => link = <<>> /\ ~subscribed
  /\ link # <<>> \/ session = "open" => subscribed
  /\ session # "open" => /\ got = {} /\ unsent = {} /\ ~requested
                         /\ \A i \in DOMAIN link : link[i].type # "chunk"

\* Every occupied channel is a key.
ListedInv == Occupied(channels) \subseteq listed

\* The chunks on the link, and all chunks, written or not, read or not.
LinkChunks(l) == {l[i] : i \in {j \in DOMAIN l : l[j].type = "chunk"}}
Pending       == unsent \cup got \cup LinkChunks(link)

\* The chunks among fs of snapshot x, and that they are all of them: none was
\* given up by a Relay that started over.
Parts(fs, x) == {f \in fs : f.id = x}
Full(fs, x)  == \A f \in Parts(fs, x) : \A i \in 1 .. f.count :
                  \E g \in Parts(fs, x) : g.index = i

\* The frames of l from frame i on.
From(l, i) == SubSeq(l, i, Len(l))

IdInv ==
  /\ \A f \in unsent : f.id = sid
  /\ \A f \in Pending : f.id <= sid

\* A snapshot has one chunk per index.
UniqueInv ==
  \A f, g \in Pending : f.id = g.id => /\ f.count = g.count
                                       /\ f.index = g.index => f = g

\* The chunks of snapshot x have all been written before frame j.
WrittenBefore(j, x) ==
  /\ unsent # {} => x # sid
  /\ \A k \in DOMAIN link : j < k /\ link[k].type = "chunk" => link[k].id # x

\* An event that comes after one chunk of a snapshot comes after all of them.
OrderInv ==
  \A j \in DOMAIN link : link[j].type = "event" =>
    /\ \A f \in got : WrittenBefore(j, f.id)
    /\ \A i \in DOMAIN link : i < j /\ link[i].type = "chunk" => WrittenBefore(j, link[i].id)

\* Roster c and the frames l lead to roster r.
LeadsTo(c, l, r) == Norm(Replay(c, l)) = Norm(r)

\* The roster of a snapshot, with the events written after it, is the Relay's:
\* while it is being written, from the first of its chunks on the link, and from
\* its chunks that have been read.
UnsentInv == unsent # {} => Assembled(Parts(Pending, sid)) = relay
FlightInv ==
  \A i \in DOMAIN link : link[i].type = "chunk" /\ Full(Pending, link[i].id) =>
    LeadsTo(Assembled(Parts(Pending, link[i].id)), From(link, i), relay)
ReadInv ==
  ~snapshotAt => \A f \in got :
    /\ ~Complete(got, f.count)
    /\ Full(Pending, f.id) => LeadsTo(Assembled(Parts(Pending, f.id)), link, relay)

AppliedInv == snapshotAt => LeadsTo(channels, link, relay)

SyncInv ==
  /\ IdInv /\ UniqueInv /\ OrderInv
  /\ UnsentInv /\ FlightInv /\ ReadInv /\ AppliedInv

RosterInv == SessionInv /\ ListedInv /\ (session = "open" => SyncInv)

-----------------------------------------------------------------------------
(***************************************************************************)
(* The link.                                                               *)
(***************************************************************************)

\* Frames written at the end.
LEMMA FromConcat ==
  ASSUME NEW l \in Seq(Frames), NEW es \in Seq(Frames), NEW i \in 1 .. Len(l)
  PROVE  From(l \o es, i) = From(l, i) \o es
<1> DEFINE m == l \o es
           a == From(l, i)
<1>1. /\ Len(l) \in Nat /\ Len(es) \in Nat /\ m \in Seq(Frames)
      /\ Len(m) = Len(l) + Len(es)
      /\ \A k \in 1 .. Len(m) : m[k] = IF k <= Len(l) THEN l[k] ELSE es[k - Len(l)]
  BY LenProperties, ConcatProperties
<1>2. \A k \in i .. Len(l) : l[k] \in Frames
  BY <1>1, ElementOfSeq
<1>3. /\ a \in Seq(Frames) /\ Len(a) = Len(l) - i + 1
      /\ \A k \in 1 .. Len(l) - i + 1 : a[k] = l[i + k - 1]
  BY <1>1, <1>2, SubSeqProperties DEF From
<1> HIDE DEF m, a
<1>4. \A k \in i .. Len(m) : m[k] \in Frames
  BY <1>1, ElementOfSeq
<1>5. /\ From(m, i) \in Seq(Frames) /\ Len(From(m, i)) = Len(m) - i + 1
      /\ \A k \in 1 .. Len(m) - i + 1 : From(m, i)[k] = m[i + k - 1]
  <2>1. i \in Int /\ Len(m) \in Int /\ i <= Len(m)
    BY <1>1
  <2>2. QED
    BY <2>1, <1>4, SubSeqProperties DEF From
<1>6. /\ a \o es \in Seq(Frames) /\ Len(a \o es) = Len(a) + Len(es)
      /\ \A k \in 1 .. Len(a) + Len(es) :
           (a \o es)[k] = IF k <= Len(a) THEN a[k] ELSE es[k - Len(a)]
  BY <1>3, ConcatProperties
<1>7. Len(From(m, i)) = Len(a \o es)
  BY <1>1, <1>3, <1>5, <1>6
<1>8. ASSUME NEW k \in 1 .. Len(a \o es) PROVE From(m, i)[k] = (a \o es)[k]
  <2>1. /\ k \in 1 .. Len(m) - i + 1 /\ k \in 1 .. Len(a) + Len(es)
        /\ i + k - 1 \in 1 .. Len(m)
    BY <1>1, <1>3, <1>6
  <2>2. From(m, i)[k] = m[i + k - 1]
    BY <1>5, <2>1
  <2>3. CASE k <= Len(a)
    <3>1. k \in 1 .. Len(l) - i + 1 /\ i + k - 1 <= Len(l)
      BY <1>1, <1>3, <2>3
    <3>2. QED
      BY <1>1, <1>3, <1>6, <2>1, <2>2, <2>3, <3>1
  <2>4. CASE ~(k <= Len(a))
    <3>1. ~(i + k - 1 <= Len(l)) /\ (i + k - 1) - Len(l) = k - Len(a)
      BY <1>1, <1>3, <2>4
    <3>2. QED
      BY <1>1, <1>6, <2>1, <2>2, <2>4, <3>1
  <2>5. QED
    BY <2>3, <2>4
<1>9. From(m, i) = a \o es
  BY <1>5, <1>6, <1>7, <1>8, SeqEqual
<1>10. QED
  BY <1>9 DEF m, a

\* The last frame alone.
LEMMA FromLast ==
  ASSUME NEW l \in Seq(Frames), NEW f \in Frames
  PROVE  From(Append(l, f), Len(l) + 1) = Append(<<>>, f)
<1> DEFINE m == Append(l, f)
           n == Len(l) + 1
           e == Append(<<>>, f)
<1>1. /\ m \in Seq(Frames) /\ Len(m) = n /\ m[n] = f /\ n \in Nat /\ n - n + 1 = 1
      /\ n + 1 - 1 = n
  BY AppendProperties, LenProperties
<1>2. e \in Seq(Frames) /\ Len(e) = 1 /\ e[1] = f
  BY EmptySeq, AppendProperties
<1> HIDE DEF m, n, e
<1>3. /\ From(m, n) \in Seq(Frames) /\ Len(From(m, n)) = 1 /\ From(m, n)[1] = f
  <2>1. \A k \in n .. n : m[k] \in Frames
    BY <1>1
  <2>2. /\ SubSeq(m, n, n) \in Seq(Frames) /\ Len(SubSeq(m, n, n)) = 1
        /\ SubSeq(m, n, n)[1] = m[n]
    BY <1>1, <2>1, SubSeqProperties
  <2>3. QED
    BY <1>1, <2>2 DEF From
<1>4. From(m, n) = e
  BY <1>2, <1>3, SeqEqual
<1>5. QED
  BY <1>4 DEF m, n, e

\* The first frame taken off.
LEMMA FromTail ==
  ASSUME NEW l \in Seq(Frames), l # <<>>, NEW i \in 1 .. Len(Tail(l))
  PROVE  i + 1 \in 1 .. Len(l) /\ Tail(l)[i] = l[i + 1] /\ From(Tail(l), i) = From(l, i + 1)
<1> DEFINE m == Tail(l)
<1>1. /\ m \in Seq(Frames) /\ Len(m) = Len(l) - 1 /\ Len(l) \in Nat
      /\ \A k \in 1 .. Len(m) : m[k] = l[k + 1]
  BY HeadTailProperties, LenProperties
<1>2. i \in 1 .. Len(m)
  OBVIOUS
<1> HIDE DEF m
<1>3. /\ i \in Nat /\ Len(m) \in Nat /\ i <= Len(m) /\ i + 1 \in 1 .. Len(l)
      /\ Len(m) - i + 1 = Len(l) - (i + 1) + 1
  BY <1>1, <1>2
<1>4. /\ \A k \in i .. Len(m) : m[k] \in Frames
      /\ \A k \in i + 1 .. Len(l) : l[k] \in Frames
  BY <1>1, <1>3, ElementOfSeq
<1>5. /\ From(m, i) \in Seq(Frames) /\ Len(From(m, i)) = Len(m) - i + 1
      /\ \A k \in 1 .. Len(m) - i + 1 : From(m, i)[k] = m[i + k - 1]
  BY <1>3, <1>4, SubSeqProperties DEF From
<1>6. /\ From(l, i + 1) \in Seq(Frames) /\ Len(From(l, i + 1)) = Len(m) - i + 1
      /\ \A k \in 1 .. Len(m) - i + 1 : From(l, i + 1)[k] = l[(i + 1) + k - 1]
  <2>1. i + 1 \in Int /\ Len(l) \in Int /\ i + 1 <= Len(l)
    BY <1>1, <1>3
  <2>2. QED
    BY <1>3, <1>4, <2>1, SubSeqProperties DEF From
<1>7. ASSUME NEW k \in 1 .. Len(From(m, i)) PROVE From(m, i)[k] = From(l, i + 1)[k]
  <2>1. /\ k \in 1 .. Len(m) - i + 1 /\ i + k - 1 \in 1 .. Len(m)
        /\ (i + k - 1) + 1 = (i + 1) + k - 1
    BY <1>3, <1>5
  <2>2. QED
    BY <1>1, <1>5, <1>6, <2>1
<1>8. From(m, i) = From(l, i + 1)
  BY <1>5, <1>6, <1>7, SeqEqual
<1>9. QED
  BY <1>1, <1>2, <1>3, <1>8 DEF m

\* What LinkChunks holds.
LEMMA InLinkChunks ==
  ASSUME NEW l \in Seq(Frames)
  PROVE  /\ \A f : f \in LinkChunks(l) <=> \E i \in 1 .. Len(l) : f = l[i] /\ l[i].type = "chunk"
         /\ LinkChunks(l) \subseteq Chunks
<1>1. DOMAIN l = 1 .. Len(l) /\ \A i \in 1 .. Len(l) : l[i] \in Frames
  BY LenProperties
<1>2. \A f \in Frames : f.type = "chunk" => f \in Chunks
  BY DEF Frames, Events, HelloAckFrame
<1>3. QED
  BY <1>1, <1>2 DEF LinkChunks

\* Events do not count.
LEMMA LinkChunksEvents ==
  ASSUME NEW l \in Seq(Frames), NEW es \in Seq(Frames), \A i \in DOMAIN es : es[i].type = "event"
  PROVE  LinkChunks(l \o es) = LinkChunks(l)
<1> DEFINE m == l \o es
<1>1. /\ Len(l) \in Nat /\ Len(es) \in Nat /\ m \in Seq(Frames)
      /\ Len(m) = Len(l) + Len(es)
      /\ \A k \in 1 .. Len(m) : m[k] = IF k <= Len(l) THEN l[k] ELSE es[k - Len(l)]
      /\ DOMAIN es = 1 .. Len(es)
  BY LenProperties, ConcatProperties
<1> HIDE DEF m
<1>2. ASSUME NEW k \in 1 .. Len(m), m[k].type = "chunk"
      PROVE  k \in 1 .. Len(l) /\ m[k] = l[k]
  <2>1. CASE k <= Len(l)
    BY <1>1, <2>1
  <2>2. CASE ~(k <= Len(l))
    <3>1. k - Len(l) \in DOMAIN es
      BY <1>1, <2>2
    <3>2. QED
      BY <1>1, <1>2, <2>2, <3>1
  <2>3. QED
    BY <2>1, <2>2
<1>3. \A k \in 1 .. Len(l) : k \in 1 .. Len(m) /\ m[k] = l[k]
  BY <1>1
<1>4. /\ \A f : f \in LinkChunks(l) <=> \E k \in 1 .. Len(l) : f = l[k] /\ l[k].type = "chunk"
      /\ \A f : f \in LinkChunks(m) <=> \E k \in 1 .. Len(m) : f = m[k] /\ m[k].type = "chunk"
  BY <1>1, InLinkChunks
<1>5. LinkChunks(m) \subseteq LinkChunks(l)
  BY <1>2, <1>4
<1>6. LinkChunks(l) \subseteq LinkChunks(m)
  BY <1>3, <1>4
<1>7. QED
  BY <1>5, <1>6 DEF m

\* A chunk written.
LEMMA LinkChunksAppend ==
  ASSUME NEW l \in Seq(Frames), NEW f \in Chunks
  PROVE  LinkChunks(Append(l, f)) = LinkChunks(l) \cup {f}
<1> DEFINE m == Append(l, f)
<1>1. /\ f \in Frames /\ f.type = "chunk"
  BY ChunkIsFrame DEF Frames
<1>2. /\ Len(l) \in Nat /\ m \in Seq(Frames) /\ Len(m) = Len(l) + 1
      /\ \A k \in 1 .. Len(l) : m[k] = l[k]
      /\ m[Len(l) + 1] = f
  BY <1>1, LenProperties, AppendProperties
<1> HIDE DEF m
<1>3. \A k \in 1 .. Len(m) : k \in 1 .. Len(l) \/ k = Len(l) + 1
  BY <1>2
<1>4. \A k \in 1 .. Len(l) : k \in 1 .. Len(m)
  BY <1>2
<1>5. Len(l) + 1 \in 1 .. Len(m)
  BY <1>2
<1>6. \A g : g \in LinkChunks(m) <=> g \in LinkChunks(l) \cup {f}
  BY <1>1, <1>2, <1>3, <1>4, <1>5, InLinkChunks
<1>7. QED
  BY <1>6 DEF m

\* The first frame read.
LEMMA LinkChunksTail ==
  ASSUME NEW l \in Seq(Frames), l # <<>>
  PROVE  LinkChunks(l) = IF Head(l).type = "chunk" THEN LinkChunks(Tail(l)) \cup {Head(l)}
                                                   ELSE LinkChunks(Tail(l))
<1> DEFINE m == Tail(l)
<1>1. /\ m \in Seq(Frames) /\ Len(m) = Len(l) - 1 /\ Len(l) \in Nat \ {0}
      /\ \A k \in 1 .. Len(m) : m[k] = l[k + 1]
      /\ Head(l) = l[1]
  BY HeadTailProperties, LenProperties, EmptySeq
<1> HIDE DEF m
<1>2. \A k \in 1 .. Len(l) : k = 1 \/ (k - 1 \in 1 .. Len(m) /\ m[k - 1] = l[k])
  BY <1>1
<1>3. \A k \in 1 .. Len(m) : k + 1 \in 1 .. Len(l)
  BY <1>1
<1>4. 1 \in 1 .. Len(l)
  BY <1>1
<1>5. /\ \A f : f \in LinkChunks(l) <=> \E k \in 1 .. Len(l) : f = l[k] /\ l[k].type = "chunk"
      /\ \A f : f \in LinkChunks(m) <=> \E k \in 1 .. Len(m) : f = m[k] /\ m[k].type = "chunk"
  BY <1>1, InLinkChunks
<1>6. \A g \in LinkChunks(l) : g \in LinkChunks(m) \/ (g = l[1] /\ l[1].type = "chunk")
  BY <1>2, <1>5
<1>7. \A g \in LinkChunks(m) : g \in LinkChunks(l)
  BY <1>1, <1>3, <1>5
<1>8. l[1].type = "chunk" => l[1] \in LinkChunks(l)
  BY <1>4, <1>5
<1>9. QED
  BY <1>1, <1>6, <1>7, <1>8 DEF m

\* A chunk changes nothing when it is replayed.
LEMMA ReplayChunk ==
  ASSUME NEW f \in Chunks
  PROVE  \A c : Apply(c, f) = c
BY ChunkIsFrame DEF Apply

\* Every index is there, once: the set is complete.
LEMMA AllIndicesComplete ==
  ASSUME NEW fs \in SUBSET Chunks, OneSnapshot(fs), NEW g \in fs,
         \A i \in 1 .. g.count : \E f \in fs : f.index = i
  PROVE  Complete(fs, g.count)
<1> DEFINE n == g.count
           idx == [f \in fs |-> f.index]
<1>1. \A f \in fs : f.index \in 1 .. n
  BY ChunkIsFrame DEF OneSnapshot
<1>2. n \in Nat /\ IsFiniteSet(fs)
  BY ChunkIsFrame DEF OneSnapshot
<1>3. Cardinality(1 .. n) = n
  <2>1. 1 \in Int /\ n \in Int
    BY <1>2
  <2> HIDE DEF n
  <2>2. Cardinality(1 .. n) = IF 1 > n THEN 0 ELSE n - 1 + 1
    BY <2>1, FS_Interval, Zenon
  <2>3. (IF 1 > n THEN 0 ELSE n - 1 + 1) = n
    BY <1>2
  <2>4. QED
    BY <2>2, <2>3
<1>4. idx \in Injection(fs, 1 .. n)
  BY <1>1 DEF OneSnapshot, Injection, IsInjective
<1>5. idx \in Surjection(fs, 1 .. n)
  BY <1>1 DEF Surjection
<1> HIDE DEF idx, n
<1>6. Cardinality(fs) = n
  BY <1>2, <1>3, <1>4, <1>5, FS_Surjection
<1>7. QED
  BY <1>6 DEF Complete, n

-----------------------------------------------------------------------------
(***************************************************************************)
(* The Relay writes.                                                       *)
(***************************************************************************)

\* The frames es lead every roster from the Relay's roster to its next one.
Follows(es) ==
  \A c \in Rosters, l \in Seq(Frames) : LeadsTo(c, l, relay) => LeadsTo(c, l \o es, relay')

\* Pending chunks are chunks.
LEMMA PendingType ==
  ASSUME Types
  PROVE  Pending \subseteq Chunks /\ LinkChunks(link) \subseteq Chunks /\ DOMAIN link = 1 .. Len(link)
         /\ Len(link) \in Nat
BY InLinkChunks, LenProperties DEF Types, Pending

\* The roster of some chunks is a roster.
LEMMA PartsType ==
  ASSUME NEW fs \in SUBSET Chunks, NEW x
  PROVE  Parts(fs, x) \subseteq Chunks /\ Assembled(Parts(fs, x)) \in Rosters
<1>1. Parts(fs, x) \subseteq Chunks
  BY DEF Parts
<1>2. QED
  BY <1>1, AssembledType

\* What is in sync with the frames written so far is with the new ones.
LEMMA GrowSync ==
  ASSUME Types, NEW es \in Seq(Frames), link' = link \o es, Pending' = Pending, Follows(es),
         got' = got, snapshotAt' = snapshotAt, channels' = channels,
         FlightInv, ReadInv, AppliedInv
  PROVE  /\ ReadInv' /\ AppliedInv'
         /\ \A i \in DOMAIN link : link[i].type = "chunk" /\ Full(Pending, link[i].id) =>
              LeadsTo(Assembled(Parts(Pending, link[i].id)), From(link', i), relay')
<1>1. link \in Seq(Frames) /\ channels \in Rosters
  BY DEF Types
<1>2. \A x : Assembled(Parts(Pending, x)) \in Rosters
  BY PendingType, PartsType
<1>3. \A c \in Rosters : LeadsTo(c, link, relay) => LeadsTo(c, link', relay')
  BY <1>1 DEF Follows
<1>4. ReadInv'
  <2> SUFFICES ASSUME ~snapshotAt', NEW f \in got'
               PROVE  /\ ~Complete(got', f.count)
                      /\ Full(Pending', f.id) =>
                           LeadsTo(Assembled(Parts(Pending', f.id)), link', relay')
    BY DEF ReadInv
  <2>1. /\ ~Complete(got, f.count)
        /\ Full(Pending, f.id) => LeadsTo(Assembled(Parts(Pending, f.id)), link, relay)
    BY DEF ReadInv
  <2>2. QED
    BY <1>2, <1>3, <2>1
<1>5. AppliedInv'
  BY <1>1, <1>3 DEF AppliedInv
<1>6. ASSUME NEW i \in DOMAIN link, link[i].type = "chunk", Full(Pending, link[i].id)
      PROVE  LeadsTo(Assembled(Parts(Pending, link[i].id)), From(link', i), relay')
  <2> DEFINE c == Assembled(Parts(Pending, link[i].id))
  <2>1. c \in Rosters /\ LeadsTo(c, From(link, i), relay)
    BY <1>2, <1>6 DEF FlightInv
  <2>2. i \in 1 .. Len(link)
    BY PendingType
  <2>3. From(link, i) \in Seq(Frames)
    <3>1. \A k \in i .. Len(link) : link[k] \in Frames
      BY <1>1, <2>2, PendingType, ElementOfSeq
    <3>2. i \in Int /\ Len(link) \in Int
      BY <2>2, PendingType
    <3>3. QED
      BY <3>1, <3>2, SubSeqProperties DEF From
  <2>4. From(link', i) = From(link, i) \o es
    BY <1>1, <2>2, FromConcat
  <2> HIDE DEF c
  <2>5. LeadsTo(c, From(link', i), relay')
    BY <2>1, <2>3, <2>4 DEF Follows
  <2>6. QED
    BY <2>5 DEF c
<1>7. QED
  BY <1>4, <1>5, <1>6

\* An announcement or another event: nothing is being written then.
LEMMA EventsWritten ==
  ASSUME Types, SyncInv, unsent = {},
         NEW es \in Seq(Frames), \A i \in DOMAIN es : es[i].type = "event",
         link' = link \o es, Follows(es),
         UNCHANGED <<unsent, sid, got, snapshotAt, channels>>
  PROVE  SyncInv'
<1> USE DEF SyncInv
<1>1. link \in Seq(Frames)
  BY DEF Types
<1>2. Pending' = Pending
  BY <1>1, LinkChunksEvents DEF Pending
<1>3. IdInv' /\ UniqueInv' /\ UnsentInv'
  BY <1>2 DEF IdInv, UniqueInv, UnsentInv
<1>4. /\ Len(link) \in Nat /\ Len(es) \in Nat
      /\ DOMAIN link = 1 .. Len(link) /\ DOMAIN es = 1 .. Len(es)
      /\ DOMAIN link' = 1 .. Len(link) + Len(es)
      /\ \A k \in DOMAIN link' : link'[k] = IF k <= Len(link) THEN link[k] ELSE es[k - Len(link)]
  <2>1. /\ link' \in Seq(Frames) /\ Len(link') = Len(link) + Len(es)
        /\ \A k \in 1 .. Len(link) + Len(es) :
             link'[k] = IF k <= Len(link) THEN link[k] ELSE es[k - Len(link)]
    BY <1>1, ConcatProperties
  <2>2. QED
    BY <1>1, <2>1, LenProperties
<1>5. \A k \in DOMAIN link' : link'[k].type = "chunk" => k \in DOMAIN link /\ link'[k] = link[k]
  <2>1. \A k \in DOMAIN link' : k > Len(link) => k - Len(link) \in DOMAIN es
    BY <1>4
  <2>2. QED
    BY <1>4, <2>1
<1>6. OrderInv'
  <2> SUFFICES ASSUME NEW j \in DOMAIN link', link'[j].type = "event", NEW x,
                      \/ \E f \in got : x = f.id
                      \/ \E i \in DOMAIN link' : i < j /\ link'[i].type = "chunk"
                                                 /\ x = link'[i].id,
                      NEW k \in DOMAIN link', j < k, link'[k].type = "chunk"
               PROVE  link'[k].id # x
    BY DEF OrderInv, WrittenBefore
  <2>1. k \in DOMAIN link /\ link'[k] = link[k]
    BY <1>5
  <2>2. j \in DOMAIN link /\ link'[j] = link[j]
    BY <1>4, <2>1
  <2>3. QED
    BY <1>5, <2>1, <2>2 DEF OrderInv, WrittenBefore
<1>7. /\ ReadInv' /\ AppliedInv'
      /\ \A i \in DOMAIN link : link[i].type = "chunk" /\ Full(Pending, link[i].id) =>
           LeadsTo(Assembled(Parts(Pending, link[i].id)), From(link', i), relay')
  BY <1>2, GrowSync
<1>8. FlightInv'
  BY <1>2, <1>5, <1>7 DEF FlightInv
<1>9. QED
  BY <1>3, <1>6, <1>7, <1>8

\* A chunk of the current snapshot, for the first or the second time.
LEMMA ChunkWritten ==
  ASSUME Types, SyncInv, NEW f \in unsent, link' = Append(link, f),
         unsent' = unsent \/ unsent' = unsent \ {f},
         UNCHANGED <<relay, sid, got, snapshotAt, channels>>
  PROVE  SyncInv'
<1> USE DEF SyncInv
<1>1. link \in Seq(Frames) /\ f \in Chunks /\ f \in Frames /\ f.type = "chunk" /\ f.id = sid
  BY ChunkIsFrame DEF Types, Frames, IdInv
<1>2. Pending' = Pending
  BY <1>1, LinkChunksAppend DEF Pending
<1>3. IdInv' /\ UniqueInv' /\ UnsentInv'
  BY <1>2 DEF IdInv, UniqueInv, UnsentInv
<1>4. /\ Len(link) \in Nat
      /\ DOMAIN link = 1 .. Len(link) /\ DOMAIN link' = 1 .. Len(link) + 1
      /\ \A k \in DOMAIN link : k \in DOMAIN link' /\ link'[k] = link[k]
      /\ \A k \in DOMAIN link' : k \in DOMAIN link \/ (k = Len(link) + 1 /\ link'[k] = f)
  BY <1>1, LenProperties, AppendProperties
<1>5. OrderInv'
  <2> SUFFICES ASSUME NEW j \in DOMAIN link', link'[j].type = "event", NEW x,
                      \/ \E g \in got : x = g.id
                      \/ \E i \in DOMAIN link' : i < j /\ link'[i].type = "chunk"
                                                 /\ x = link'[i].id
               PROVE  WrittenBefore(j, x)'
    BY DEF OrderInv
  <2>1. j \in DOMAIN link /\ link'[j] = link[j]
    BY <1>1, <1>4
  <2>2. \A i \in DOMAIN link' : i < j => i \in DOMAIN link /\ link'[i] = link[i]
    BY <1>4, <2>1
  <2>3. WrittenBefore(j, x)
    BY <2>1, <2>2 DEF OrderInv
  <2>4. x # sid /\ \A k \in DOMAIN link : j < k /\ link[k].type = "chunk" => link[k].id # x
    BY <2>3 DEF WrittenBefore
  <2>5. \A k \in DOMAIN link' : j < k /\ link'[k].type = "chunk" => link'[k].id # x
    BY <1>1, <1>4, <2>4
  <2>6. QED
    BY <2>4, <2>5 DEF WrittenBefore
<1>6. link' = link \o <<f>> /\ <<f>> \in Seq(Frames)
  BY <1>1, AppendIsConcat
<1>7. Follows(<<f>>)
  <2> SUFFICES ASSUME NEW c \in Rosters, NEW l \in Seq(Frames), LeadsTo(c, l, relay)
               PROVE  LeadsTo(c, l \o <<f>>, relay')
    BY DEF Follows
  <2>1. Replay(c, Append(l, f)) = Replay(c, l)
    BY <1>1, ReplayAppend, ReplayChunk
  <2>2. l \o <<f>> = Append(l, f)
    BY <1>1, AppendIsConcat
  <2>3. QED
    BY <2>1, <2>2 DEF LeadsTo
<1>8. /\ ReadInv' /\ AppliedInv'
      /\ \A i \in DOMAIN link : link[i].type = "chunk" /\ Full(Pending, link[i].id) =>
           LeadsTo(Assembled(Parts(Pending, link[i].id)), From(link', i), relay')
  BY <1>2, <1>6, <1>7, GrowSync
<1>9. LeadsTo(Assembled(Parts(Pending, f.id)), From(link', Len(link) + 1), relay')
  <2>1. Assembled(Parts(Pending, f.id)) = relay
    BY <1>1 DEF UnsentInv
  <2>2. From(link', Len(link) + 1) = Append(<<>>, f)
    BY <1>1, FromLast
  <2>3. <<>> \in Seq(Frames)
    BY EmptySeq
  <2>4. Replay(relay, Append(<<>>, f)) = Apply(Replay(relay, <<>>), f)
    BY <1>1, <2>3, ReplayAppend
  <2>5. Replay(relay, Append(<<>>, f)) = relay
    BY <1>1, <2>4, ReplayEmpty, ReplayChunk
  <2>6. QED
    BY <2>1, <2>2, <2>5 DEF LeadsTo
<1>10. FlightInv'
  <2> SUFFICES ASSUME NEW i \in DOMAIN link', link'[i].type = "chunk",
                      Full(Pending, link'[i].id)
               PROVE  LeadsTo(Assembled(Parts(Pending, link'[i].id)), From(link', i), relay')
    BY <1>2 DEF FlightInv
  <2>1. CASE i \in DOMAIN link
    BY <1>4, <1>8, <2>1
  <2>2. CASE i = Len(link) + 1 /\ link'[i] = f
    BY <1>9, <2>2
  <2>3. QED
    BY <1>4, <2>1, <2>2
<1>11. QED
  BY <1>3, <1>5, <1>8, <1>10

\* The chunks of a new snapshot give the roster of the moment.
LEMMA CaptureRoster ==
  ASSUME Types, NEW n \in ChunkCounts, NEW spread,
         \A p \in Slots : spread[p] # {} /\ spread[p] \subseteq 1 .. n,
         Capture(n, spread)
  PROVE  /\ Assembled(unsent') = relay
         /\ \A f \in unsent' : f.id = sid + 1 /\ f.count = n
         /\ \A f, g \in unsent' : f.index = g.index => f = g
<1> DEFINE part(i) == [p \in Slots |-> IF i \in spread[p] THEN relay[p] ELSE "absent"]
           C(i) == Chunk(sid + 1, i, n, part(i))
<1>1. sid' = sid + 1 /\ unsent' = {C(i) : i \in 1 .. n}
  BY DEF Capture
<1>2. \A i \in 1 .. n : /\ C(i).id = sid + 1 /\ C(i).count = n /\ C(i).index = i
                        /\ C(i).part = part(i)
  BY <1>1 DEF Chunk
<1>3. relay = [p \in Slots |-> relay[p]]
  BY DEF Types, Rosters
<1>4. ASSUME NEW p \in Slots
      PROVE  relay[p] = IF \E f \in unsent' : f.part[p] # "absent"
                        THEN (CHOOSE f \in unsent' : f.part[p] # "absent").part[p]
                        ELSE "absent"
  <2>1. \A i \in 1 .. n : C(i).part[p] = IF i \in spread[p] THEN relay[p] ELSE "absent"
    BY <1>2
  <2> HIDE DEF C
  <2>2. \A f \in unsent' : f.part[p] # "absent" => f.part[p] = relay[p]
    BY <1>1, <2>1
  <2>3. CASE relay[p] = "absent"
    BY <2>2, <2>3
  <2>4. CASE relay[p] # "absent"
    <3>1. PICK i \in 1 .. n : i \in spread[p]
      OBVIOUS
    <3>2. \E f \in unsent' : f.part[p] # "absent"
      BY <1>1, <2>1, <2>4, <3>1
    <3>3. QED
      BY <2>2, <3>2
  <2>5. QED
    BY <2>3, <2>4
<1>5. Assembled(unsent') = relay
  BY <1>3, <1>4 DEF Assembled
<1> HIDE DEF C
<1>6. \A f \in unsent' : \E i \in 1 .. n : f = C(i)
  BY <1>1
<1>7. ASSUME NEW f \in unsent' PROVE f.id = sid + 1 /\ f.count = n /\ f = C(f.index)
  <2>1. PICK i \in 1 .. n : f = C(i)
    BY <1>6
  <2>2. C(i).id = sid + 1 /\ C(i).count = n /\ C(i).index = i
    BY <1>2
  <2>3. QED
    BY <2>1, <2>2
<1>8. QED
  BY <1>5, <1>7

\* A snapshot that is full after the Relay gave up the last one lost nothing.
LEMMA FullKept ==
  ASSUME NEW fs \in SUBSET Chunks, NEW gs \in SUBSET fs, NEW x,
         \A f, g \in fs : f.id = g.id => f.count = g.count /\ (f.index = g.index => f = g),
         Full(gs, x), Parts(gs, x) # {}
  PROVE  Parts(fs, x) = Parts(gs, x) /\ Full(fs, x)
<1>1. PICK g \in gs : g.id = x
  BY DEF Parts
<1>2. ASSUME NEW f \in fs, f.id = x PROVE f \in gs
  <2>1. f.count = g.count /\ f.index \in 1 .. f.count
    BY <1>1, <1>2, ChunkIsFrame
  <2>2. PICK h \in gs : h.id = x /\ h.index = f.index
    BY <1>1, <2>1 DEF Full, Parts
  <2>3. QED
    BY <1>2, <2>2
<1>3. Parts(fs, x) = Parts(gs, x)
  BY <1>2 DEF Parts
<1>4. QED
  BY <1>3 DEF Full

\* A new snapshot is taken.
LEMMA SnapshotTaken ==
  ASSUME Types, Types', SyncInv, NEW n \in ChunkCounts, NEW spread,
         \A p \in Slots : spread[p] # {} /\ spread[p] \subseteq 1 .. n,
         Capture(n, spread),
         UNCHANGED <<relay, link, got, snapshotAt, channels>>
  PROVE  SyncInv'
<1> USE DEF SyncInv
<1> DEFINE old == got \cup LinkChunks(link)
<1>1. /\ Assembled(unsent') = relay
      /\ sid' = sid + 1
      /\ \A f \in unsent' : f.id = sid + 1 /\ f.count = n
      /\ \A f, g \in unsent' : f.index = g.index => f = g
  BY CaptureRoster DEF Capture
<1>2. /\ Pending = unsent \cup old /\ Pending' = unsent' \cup old
      /\ Pending \subseteq Chunks /\ sid \in Nat
  BY PendingType DEF Pending, Types, SnapshotIds
<1> HIDE DEF old
<1>3. \A f \in old : f.id \in Nat /\ f.id <= sid
  BY <1>2, ChunkIsFrame DEF IdInv, SnapshotIds
<1>4. \A x : x \in Nat /\ x <= sid => x # sid + 1 /\ x <= sid + 1
  BY <1>2
<1>5. IdInv'
  BY <1>1, <1>2, <1>3, <1>4 DEF IdInv
<1>6. UniqueInv'
  BY <1>1, <1>2, <1>3, <1>4 DEF UniqueInv
<1>7. /\ \A f \in got : f \in old
      /\ \A i \in DOMAIN link : link[i].type = "chunk" => link[i] \in old
  BY DEF old, LinkChunks
<1>8. OrderInv'
  <2> SUFFICES ASSUME NEW j \in DOMAIN link, link[j].type = "event", NEW f \in old,
                      \/ f \in got
                      \/ \E i \in DOMAIN link : i < j /\ link[i].type = "chunk" /\ f = link[i]
               PROVE  WrittenBefore(j, f.id)'
    BY <1>7 DEF OrderInv
  <2>1. WrittenBefore(j, f.id)
    BY DEF OrderInv
  <2>2. f.id # sid'
    BY <1>1, <1>3, <1>4
  <2>3. QED
    BY <2>1, <2>2 DEF WrittenBefore
<1>9. UnsentInv'
  <2>1. Parts(Pending', sid') = unsent'
    BY <1>1, <1>2, <1>3, <1>4 DEF Parts
  <2>2. QED
    BY <1>1, <2>1 DEF UnsentInv
<1>10. ASSUME NEW f \in old, Full(Pending', f.id)
       PROVE  Parts(Pending', f.id) = Parts(Pending, f.id) /\ Full(Pending, f.id)
  <2>1. Parts(Pending', f.id) = Parts(old, f.id)
    BY <1>1, <1>2, <1>3, <1>4 DEF Parts
  <2>2. Full(old, f.id) /\ Parts(old, f.id) # {}
    BY <1>10, <2>1 DEF Full, Parts
  <2>3. Parts(Pending, f.id) = Parts(old, f.id) /\ Full(Pending, f.id)
    <3>1. \A g, h \in Pending : g.id = h.id => g.count = h.count /\ (g.index = h.index => g = h)
      BY DEF UniqueInv
    <3>2. old \in SUBSET Pending /\ Pending \in SUBSET Chunks
      BY <1>2
    <3>3. QED
      BY <2>2, <3>1, <3>2, FullKept
  <2>4. QED
    BY <2>1, <2>3
<1>11. FlightInv'
  BY <1>7, <1>10 DEF FlightInv
<1>12. ReadInv'
  BY <1>7, <1>10 DEF ReadInv, Complete
<1>13. AppliedInv'
  BY DEF AppliedInv
<1>14. QED
  BY <1>5, <1>6, <1>8, <1>9, <1>11, <1>12, <1>13

-----------------------------------------------------------------------------
(***************************************************************************)
(* The session reads.                                                      *)
(***************************************************************************)

\* What reading a frame leaves of the order and of the chunks on the link.
LEMMA FrameRead ==
  ASSUME Types, SyncInv, link # <<>>, link' = Tail(link),
         got' = IF Head(link).type = "chunk" THEN got \cup {Head(link)} ELSE got,
         relay' = relay, unsent' = unsent, sid' = sid
  PROVE  Pending' = Pending /\ IdInv' /\ UniqueInv' /\ OrderInv' /\ UnsentInv' /\ FlightInv'
<1> USE DEF SyncInv
<1>1. link \in Seq(Frames)
  BY DEF Types
<1>2. Pending' = Pending
  BY <1>1, LinkChunksTail DEF Pending
<1>3. IdInv' /\ UniqueInv' /\ UnsentInv'
  BY <1>2 DEF IdInv, UniqueInv, UnsentInv
<1>4. /\ Len(link) \in Nat \ {0} /\ Len(link') = Len(link) - 1 /\ Head(link) = link[1]
      /\ DOMAIN link = 1 .. Len(link) /\ DOMAIN link' = 1 .. Len(link')
      /\ \A i \in DOMAIN link' : i + 1 \in DOMAIN link /\ link'[i] = link[i + 1]
  <2>1. /\ link' \in Seq(Frames) /\ Len(link') = Len(link) - 1
        /\ \A i \in 1 .. Len(link') : link'[i] = link[i + 1]
    BY <1>1, HeadTailProperties
  <2>2. DOMAIN link = 1 .. Len(link) /\ DOMAIN link' = 1 .. Len(link')
    BY <1>1, <2>1, LenProperties
  <2>3. Len(link) \in Nat \ {0} /\ Head(link) = link[1]
    BY <1>1, EmptySeq
  <2>4. \A i \in 1 .. Len(link') : i + 1 \in 1 .. Len(link)
    BY <2>1, <2>3
  <2>5. QED
    BY <2>1, <2>2, <2>3, <2>4
<1>5. \A i, k \in DOMAIN link' : i < k => i + 1 < k + 1
  BY <1>4
<1>6. \A k \in DOMAIN link' : 1 < k + 1 /\ 1 \in DOMAIN link
  BY <1>4
<1>7. \A j \in DOMAIN link' : \A x : WrittenBefore(j + 1, x) => WrittenBefore(j, x)'
  BY <1>4, <1>5 DEF WrittenBefore
<1>8. OrderInv'
  <2> SUFFICES ASSUME NEW j \in DOMAIN link', link'[j].type = "event"
               PROVE  /\ \A f \in got' : WrittenBefore(j + 1, f.id)
                      /\ \A i \in DOMAIN link' : i < j /\ link'[i].type = "chunk" =>
                           WrittenBefore(j + 1, link'[i].id)
    BY <1>7 DEF OrderInv
  <2>1. j + 1 \in DOMAIN link /\ link[j + 1].type = "event"
    BY <1>4
  <2>2. /\ \A f \in got : WrittenBefore(j + 1, f.id)
        /\ \A i \in DOMAIN link : i < j + 1 /\ link[i].type = "chunk" =>
             WrittenBefore(j + 1, link[i].id)
    BY <2>1 DEF OrderInv
  <2>3. Head(link).type = "chunk" => WrittenBefore(j + 1, Head(link).id)
    BY <1>4, <1>6, <2>2
  <2>4. QED
    BY <1>4, <1>5, <2>2, <2>3
<1>9. FlightInv'
  <2> SUFFICES ASSUME NEW i \in DOMAIN link', link'[i].type = "chunk",
                      Full(Pending, link'[i].id)
               PROVE  LeadsTo(Assembled(Parts(Pending, link'[i].id)), From(link', i), relay)
    BY <1>2 DEF FlightInv
  <2>1. From(link', i) = From(link, i + 1)
    BY <1>1, <1>4, FromTail
  <2>2. QED
    BY <1>4, <2>1 DEF FlightInv
<1>10. QED
  BY <1>2, <1>3, <1>8, <1>9

\* recordLifecycleEvent: an event that comes before the snapshot is complete is
\* not one that the snapshot misses.
LEMMA EventRead ==
  ASSUME Types, ReassemblyInv, SyncInv, link # <<>>, link' = Tail(link),
         Head(link).type = "event", channels' = Apply(channels, Head(link)),
         UNCHANGED <<relay, unsent, sid, got, snapshotAt>>
  PROVE  SyncInv'
<1>1. Pending' = Pending /\ IdInv' /\ UniqueInv' /\ OrderInv' /\ UnsentInv' /\ FlightInv'
  <2>1. got' = IF Head(link).type = "chunk" THEN got \cup {Head(link)} ELSE got
    OBVIOUS
  <2>2. relay' = relay /\ unsent' = unsent /\ sid' = sid
    OBVIOUS
  <2>3. QED
    BY <2>1, <2>2, FrameRead
<1> USE DEF SyncInv
<1>2. link \in Seq(Frames) /\ got \subseteq Chunks
  BY DEF Types
<1>3. AppliedInv'
  <2>1. Replay(channels, link) = Replay(channels', link')
    BY <1>2, ReplayTail
  <2>2. QED
    BY <2>1 DEF AppliedInv, LeadsTo
<1>4. ReadInv'
  <2> SUFFICES ASSUME ~snapshotAt, NEW f \in got
               PROVE  ~Complete(got, f.count) /\ ~Full(Pending, f.id)
    BY <1>1 DEF ReadInv
  <2>1. ~Complete(got, f.count)
    BY DEF ReadInv
  <2>2. /\ 1 \in DOMAIN link /\ link[1] = Head(link)
        /\ \A k \in DOMAIN link : k = 1 \/ 1 < k
    <3>1. Len(link) \in Nat \ {0} /\ DOMAIN link = 1 .. Len(link)
      BY <1>2, EmptySeq, LenProperties
    <3>2. QED
      BY <1>2, <3>1
  <2>3. WrittenBefore(1, f.id)
    BY <2>2 DEF OrderInv
  <2>4. Parts(Pending, f.id) \subseteq got
    <3>1. \A g \in unsent : g.id # f.id
      BY <2>3 DEF WrittenBefore, IdInv
    <3>2. \A g \in LinkChunks(link) : g.id # f.id
      BY <2>2, <2>3 DEF WrittenBefore, LinkChunks
    <3>3. QED
      BY <3>1, <3>2 DEF Parts, Pending
  <2>5. ASSUME Full(Pending, f.id) PROVE FALSE
    <3>1. f \in Parts(Pending, f.id)
      BY DEF Parts, Pending
    <3>2. \A i \in 1 .. f.count : \E g \in got : g.index = i
      BY <2>4, <2>5, <3>1 DEF Full
    <3>3. QED
      BY <1>2, <2>1, <3>2, AllIndicesComplete DEF ReassemblyInv
  <2>6. QED
    BY <2>1, <2>5
<1>5. QED
  BY <1>1, <1>3, <1>4

\* ReceiveChunk: the last chunk of a snapshot applies what it holds, and the
\* events after it bring that up to date.
LEMMA ChunkRead ==
  ASSUME Types, ReassemblyInv, SyncInv, session = "open",
         link # <<>>, ReceiveChunk(Head(link))
  PROVE  SyncInv'
<1> DEFINE f == Head(link)
           rs == Assembled(Parts(Pending, f.id))
<1>1. f \in Chunks /\ f.type = "chunk" /\ link \in Seq(Frames) /\ got \subseteq Chunks
  BY HeadChunk DEF ReceiveChunk, Types
<1>2. /\ Consistent(f) /\ ~Duplicate(f) /\ link' = Tail(link)
      /\ got' = got \cup {f}
      /\ IF Complete(got', f.count) THEN applyRelayStateSnapshot(got') ELSE UNCHANGED stateVars
      /\ relay' = relay /\ unsent' = unsent /\ sid' = sid
  BY DEF ReceiveChunk, relayVars
<1>3. Pending' = Pending /\ IdInv' /\ UniqueInv' /\ OrderInv' /\ UnsentInv' /\ FlightInv'
  <2>1. got' = IF Head(link).type = "chunk" THEN got \cup {Head(link)} ELSE got
    BY <1>1, <1>2
  <2>2. QED
    BY <1>2, <2>1, FrameRead
<1>4. ~snapshotAt
  BY <1>1, <1>2, NoChunkAfter DEF ReassemblyInv
<1>5. f \in Pending /\ got \subseteq Pending /\ Pending \subseteq Chunks
  <2>1. f \in LinkChunks(link)
    BY <1>1, LinkChunksTail
  <2>2. QED
    BY <2>1, PendingType DEF Pending
<1>6. Full(Pending, f.id) => LeadsTo(rs, link, relay) /\ LeadsTo(rs, link', relay)
  <2>1. 1 \in DOMAIN link /\ link[1] = f
    <3>1. Len(link) \in Nat \ {0} /\ DOMAIN link = 1 .. Len(link)
      BY <1>1, EmptySeq, LenProperties
    <3>2. QED
      BY <1>1, <3>1
  <2>2. From(link, 1) = link
    BY <1>1, SubSeqFull DEF From
  <2>3. Full(Pending, f.id) => LeadsTo(rs, link, relay)
    BY <1>1, <2>1, <2>2 DEF SyncInv, FlightInv
  <2>4. Replay(rs, link) = Replay(rs, link')
    <3>1. Replay(rs, link) = Replay(Apply(rs, f), Tail(link))
      BY <1>1, ReplayTail
    <3>2. Apply(rs, f) = rs
      BY <1>1, ReplayChunk
    <3>3. QED
      BY <1>2, <3>1, <3>2
  <2>5. QED
    BY <2>3, <2>4 DEF LeadsTo
<1> HIDE DEF f
<1>7. \A g \in got' : g.id = f.id /\ g.count = f.count
  BY <1>2 DEF Consistent
<1>8. CASE Complete(got', f.count)
  <2>1. channels' = Assembled(got') /\ snapshotAt'
    BY <1>2, <1>8 DEF applyRelayStateSnapshot
  <2>2. OneSnapshot(got') /\ got' \in SUBSET Chunks /\ f \in got'
    <3>1. IsFiniteSet(got')
      BY <1>2, FS_AddElement DEF ReassemblyInv, OneSnapshot
    <3>2. \A g, h \in got' : g.index = h.index => g = h
      BY <1>2 DEF ReassemblyInv, OneSnapshot, Duplicate
    <3>3. QED
      BY <1>1, <1>2, <1>7, <3>1, <3>2 DEF OneSnapshot
  <2>3. {g.index : g \in got'} = 1 .. f.count
    BY <1>8, <2>2, AllIndices
  <2>4. ASSUME NEW h \in Pending, h.id = f.id PROVE h \in got'
    <3>1. h.count = f.count /\ h.index \in 1 .. h.count
      BY <1>5, <2>4, ChunkIsFrame DEF SyncInv, UniqueInv
    <3>2. PICK g \in got' : g.index = h.index
      BY <2>3, <3>1
    <3>3. g \in Pending /\ g.id = h.id
      BY <1>2, <1>5, <1>7, <2>4
    <3>4. QED
      BY <3>2, <3>3 DEF SyncInv, UniqueInv
  <2>5. Parts(Pending, f.id) = got'
    BY <1>2, <1>5, <1>7, <2>4 DEF Parts
  <2>6. Full(Pending, f.id)
    <3>1. \A i \in 1 .. f.count : \E g \in got' : g.index = i
      BY <2>3
    <3>2. QED
      BY <1>7, <2>5, <3>1 DEF Full
  <2>7. AppliedInv'
    BY <1>2, <1>6, <2>1, <2>5, <2>6 DEF AppliedInv
  <2>8. ReadInv'
    BY <2>1 DEF ReadInv
  <2>9. QED
    BY <1>3, <2>7, <2>8 DEF SyncInv
<1>9. CASE ~Complete(got', f.count)
  <2>1. snapshotAt' = snapshotAt
    BY <1>2, <1>9 DEF stateVars
  <2>2. AppliedInv'
    BY <1>4, <2>1 DEF AppliedInv
  <2>3. ReadInv'
    <3> SUFFICES ASSUME NEW g \in got'
                 PROVE  /\ ~Complete(got', g.count)
                        /\ Full(Pending, g.id) =>
                             LeadsTo(Assembled(Parts(Pending, g.id)), link', relay)
      BY <1>2, <1>3 DEF ReadInv
    <3>1. g.id = f.id /\ g.count = f.count
      BY <1>7
    <3>2. QED
      BY <1>6, <1>9, <3>1
  <2>4. QED
    BY <1>3, <2>2, <2>3 DEF SyncInv
<1>10. QED
  BY <1>8, <1>9

-----------------------------------------------------------------------------
(***************************************************************************)
(* The steps of the specification.                                         *)
(***************************************************************************)

\* Announcements are events.
LEMMA AnnouncementEvents ==
  ASSUME NEW p \in Slots, NEW a, NEW b, NEW es \in Announcements(p, a, b)
  PROVE  \A i \in DOMAIN es : es[i].type = "event"
<1>1. \/ \E k \in EventKinds : es = <<Event(k, p)>>
      \/ \E k, l \in EventKinds : es = <<Event(k, p), Event(l, p)>>
  BY DEF Announcements, EventKinds
<1>2. \A k \in EventKinds : Event(k, p).type = "event"
  BY DEF Event
<1>3. QED
  BY <1>1, <1>2

\* Writing events keeps chunks out of the link, and it empty while unaccepted.
LEMMA SessionEvents ==
  ASSUME Types, SessionInv, NEW es \in Seq(Frames), \A i \in DOMAIN es : es[i].type = "event",
         WriteEvents(es), UNCHANGED <<subscribed, requested, unsent, session, got>>
  PROVE  SessionInv'
<1>1. CASE ~subscribed
  BY <1>1 DEF SessionInv, WriteEvents
<1>2. CASE subscribed
  <2>1. link' = link \o es /\ link \in Seq(Frames)
    BY <1>2 DEF WriteEvents, Types
  <2>2. session # "open" => \A i \in DOMAIN link' : link'[i].type # "chunk"
    <3>1. LinkChunks(link') = LinkChunks(link)
      BY <2>1, LinkChunksEvents
    <3>2. QED
      BY <3>1 DEF LinkChunks, SessionInv
  <2>3. QED
    BY <1>2, <2>1, <2>2 DEF SessionInv
<1>3. QED
  BY <1>1, <1>2

\* Every action keeps SessionInv.
LEMMA SessionStep == Types /\ SessionInv /\ [Next]_vars => SessionInv'
<1> SUFFICES ASSUME Types, SessionInv, [Next]_vars PROVE SessionInv'
  OBVIOUS
<1>1. ASSUME NEW p \in Slots, NEW b \in States, Change(p, b) PROVE SessionInv'
  <2>1. PICK es \in Announcements(p, relay[p], b) : WriteEvents(es)
    BY <1>1 DEF Change
  <2>2. es \in Seq(Frames) /\ \A i \in DOMAIN es : es[i].type = "event"
    BY AnnouncementType, AnnouncementEvents
  <2>3. UNCHANGED <<subscribed, requested, unsent, session, got>>
    BY <1>1 DEF Change
  <2>4. QED
    BY <2>1, <2>2, <2>3, SessionEvents
<1>2. ASSUME NEW p \in Slots, OtherEvent(p) PROVE SessionInv'
  <2>1. Event("other", p) \in Frames /\ Event("other", p).type = "event"
    BY EventType DEF EventKinds, Event
  <2>2. PICK es : es = <<Event("other", p)>>
    OBVIOUS
  <2>3. es \in Seq(Frames) /\ \A i \in DOMAIN es : es[i].type = "event"
    BY <2>1, <2>2
  <2>4. WriteEvents(es) /\ UNCHANGED <<subscribed, requested, unsent, session, got>>
    BY <1>2, <2>2 DEF OtherEvent, relayVars
  <2>5. QED
    BY <2>3, <2>4, SessionEvents
<1>3. CASE RelayAccept
  <2>1. link' = Append(link, HelloAckFrame) /\ link \in Seq(Frames) /\ HelloAckFrame \in Frames
    BY <1>3 DEF RelayAccept, Types, Frames
  <2>2. \A i \in DOMAIN link' : \/ i \in DOMAIN link /\ link'[i] = link[i]
                                \/ link'[i] = HelloAckFrame
    BY <2>1, AppendProperties, LenProperties
  <2>3. \A i \in DOMAIN link' : link'[i].type # "chunk"
    BY <1>3, <2>2 DEF RelayAccept, SessionInv, HelloAckFrame
  <2>4. QED
    BY <1>3, <2>3 DEF RelayAccept, SessionInv
<1>4. CASE RelaySnapshot \/ RelayListTwice \/ RelayRestartSnapshot
  BY <1>4 DEF RelaySnapshot, RelayListTwice, RelayRestartSnapshot, SessionInv
<1>5. CASE RelayWriteChunk \/ RelayRepeatChunk
  <2>1. session = "open"
    BY <1>5 DEF RelayWriteChunk, RelayRepeatChunk, SessionInv
  <2>2. QED
    BY <1>5, <2>1 DEF RelayWriteChunk, RelayRepeatChunk, SessionInv, relayVars
<1>6. CASE Dial
  BY <1>6 DEF Dial, SessionInv, relayVars
<1>7. CASE LoseConnection \/ RejectChunk(Head(link))
  BY <1>7 DEF LoseConnection, RejectChunk, Close, SessionInv
<1>8. CASE markDisconnected
  BY <1>8 DEF markDisconnected, SessionInv, relayVars
<1>9. CASE ReceiveHelloAck
  BY <1>9 DEF ReceiveHelloAck, Receive, SessionInv
<1>10. CASE recordLifecycleEvent
  BY <1>10 DEF recordLifecycleEvent, SessionInv, relayVars
<1>11. CASE ReceiveChunk(Head(link))
  BY <1>11 DEF ReceiveChunk, SessionInv, relayVars
<1>12. CASE UNCHANGED vars
  BY <1>12 DEF vars, relayVars, SessionInv
<1>13. QED
  BY <1>1, <1>2, <1>3, <1>4, <1>5, <1>6, <1>7, <1>8, <1>9, <1>10, <1>11, <1>12
     DEF Next, ReceiveFrame

\* Keys are kept for the channels an event leaves occupied.
LEMMA KeysRecorded ==
  ASSUME ListedInv, channels \in Rosters, NEW k \in EventKinds, NEW p \in Slots
  PROVE  Occupied(Recorded(channels, Event(k, p))) \subseteq RecordedKeys(channels, Event(k, p))
<1> DEFINE e == Event(k, p)
           c == Recorded(channels, e)
<1>1. e.kind = k /\ e.slot = p
  BY DEF Event
<1> HIDE DEF e
<1>2. \A q \in Slots : q # p => c[q] = channels[q]
  BY <1>1 DEF Recorded, Rosters
<1> HIDE DEF c
<1>3. ASSUME NEW q \in Slots, c[q] # "absent" PROVE q[1] \in RecordedKeys(channels, e)
  <2>1. q[1] \in Occupied(c)
    BY <1>3 DEF Occupied
  <2>2. CASE q = p
    BY <1>1, <2>1, <2>2 DEF RecordedKeys, c
  <2>3. CASE q # p
    <3>1. q[1] \in listed
      BY <1>2, <1>3, <2>3 DEF ListedInv, Occupied
    <3>2. QED
      BY <1>1, <2>1, <3>1 DEF RecordedKeys, c
  <2>4. QED
    BY <2>2, <2>3
<1>4. QED
  BY <1>3 DEF Occupied, c, e

\* Every action keeps ListedInv.
LEMMA ListedStep == Types /\ ListedInv /\ [Next]_vars => ListedInv'
<1> SUFFICES ASSUME Types, ListedInv, [Next]_vars PROVE ListedInv'
  OBVIOUS
<1>1. ASSUME NEW p \in Slots, (\E b \in States : Change(p, b)) \/ OtherEvent(p)
      PROVE  ListedInv'
  BY <1>1 DEF Change, OtherEvent, stateVars, ListedInv
<1>2. CASE \/ RelayAccept \/ RelaySnapshot \/ RelayWriteChunk
           \/ RelayRestartSnapshot \/ RelayListTwice \/ RelayRepeatChunk
           \/ Dial \/ LoseConnection \/ markDisconnected \/ RejectChunk(Head(link))
           \/ UNCHANGED vars
  <2>1. channels' = channels /\ listed' = listed
    BY <1>2 DEF RelayAccept, RelaySnapshot, RelayWriteChunk, RelayRestartSnapshot,
       RelayListTwice, RelayRepeatChunk, Dial, LoseConnection, markDisconnected,
       RejectChunk, stateVars, vars
  <2>2. QED
    BY <2>1 DEF ListedInv
<1>3. CASE ReceiveHelloAck
  <2>1. Occupied(NoOne) = {}
    BY DEF Occupied, NoOne
  <2>2. QED
    BY <1>3, <2>1 DEF ReceiveHelloAck, markConnected, ListedInv
<1>4. CASE recordLifecycleEvent
  <2>1. PICK k \in EventKinds, p \in Slots :
          /\ channels' = Recorded(channels, Event(k, p))
          /\ listed' = RecordedKeys(channels, Event(k, p))
    BY <1>4 DEF recordLifecycleEvent
  <2>2. QED
    BY <2>1, KeysRecorded DEF ListedInv, Types
<1>5. CASE ReceiveChunk(Head(link))
  BY <1>5 DEF ReceiveChunk, applyRelayStateSnapshot, stateVars, ListedInv
<1>6. QED
  BY <1>1, <1>2, <1>3, <1>4, <1>5 DEF Next, ReceiveFrame

\* The announcements of a change lead to it.
LEMMA ChangeFollows ==
  ASSUME Types, NEW p \in Slots, NEW b \in States, NEW es \in Announcements(p, relay[p], b),
         relay' = [relay EXCEPT ![p] = b]
  PROVE  Follows(es)
<1> SUFFICES ASSUME NEW c \in Rosters, NEW l \in Seq(Frames), LeadsTo(c, l, relay)
             PROVE  LeadsTo(c, l \o es, relay')
  BY DEF Follows
<1>1. PICK r \in Rosters : r = relay
  BY DEF Types
<1>2. Norm(Replay(c, l)) = Norm(r) /\ es \in Announcements(p, r[p], b)
  BY <1>1 DEF LeadsTo
<1>3. Norm(Replay(c, l \o es)) = Norm([r EXCEPT ![p] = b])
  BY <1>2, SyncAnnounced
<1>4. QED
  BY <1>1, <1>3 DEF LeadsTo

\* Other events change no roster.
LEMMA OtherFollows ==
  ASSUME Types, NEW p \in Slots, relay' = relay
  PROVE  Follows(<<Event("other", p)>>)
<1> DEFINE e == Event("other", p)
<1> SUFFICES ASSUME NEW c \in Rosters, NEW l \in Seq(Frames), LeadsTo(c, l, relay)
             PROVE  LeadsTo(c, l \o <<e>>, relay)
  BY DEF Follows
<1>1. e \in Frames /\ e.type = "event" /\ e.kind = "other"
  BY EventType DEF EventKinds, Event
<1> HIDE DEF e
<1>2. \A d : Apply(d, e) = d
  BY <1>1 DEF Apply, Recorded
<1>3. Replay(c, Append(l, e)) = Replay(c, l)
  BY <1>1, <1>2, ReplayAppend
<1>4. l \o <<e>> = Append(l, e)
  BY <1>1, AppendIsConcat
<1>5. QED
  BY <1>3, <1>4 DEF LeadsTo

\* Every action of a live session keeps the rosters in sync.
LEMMA SyncStep ==
  ASSUME ~EventsBetweenChunks, Types, Types', ReassemblyInv, SessionInv,
         session = "open" => SyncInv, [Next]_vars, session' = "open"
  PROVE  SyncInv'
<1>1. ASSUME NEW p \in Slots, NEW b \in States, Change(p, b) PROVE SyncInv'
  <2>1. PICK es \in Announcements(p, relay[p], b) : WriteEvents(es)
    BY <1>1 DEF Change
  <2>2. es \in Seq(Frames) /\ \A i \in DOMAIN es : es[i].type = "event"
    BY AnnouncementType, AnnouncementEvents
  <2>3. session = "open" /\ Follows(es)
    BY <1>1, ChangeFollows DEF Change
  <2>4. unsent = {} /\ link' = link \o es /\ SyncInv
    BY <2>1, <2>3 DEF WriteEvents, SessionInv
  <2>5. UNCHANGED <<unsent, sid, got, snapshotAt, channels>>
    BY <1>1 DEF Change, stateVars
  <2>6. QED
    BY <2>2, <2>3, <2>4, <2>5, EventsWritten
<1>2. ASSUME NEW p \in Slots, OtherEvent(p) PROVE SyncInv'
  <2>1. Event("other", p) \in Frames /\ Event("other", p).type = "event"
    BY EventType DEF EventKinds, Event
  <2>2. PICK es : es = <<Event("other", p)>>
    OBVIOUS
  <2>3. es \in Seq(Frames) /\ \A i \in DOMAIN es : es[i].type = "event"
    BY <2>1, <2>2
  <2>4. session = "open" /\ relay' = relay /\ Follows(es)
    BY <1>2, <2>2, OtherFollows DEF OtherEvent, relayVars
  <2>5. unsent = {} /\ link' = link \o es /\ SyncInv
    BY <1>2, <2>2, <2>4 DEF OtherEvent, WriteEvents, SessionInv
  <2>6. UNCHANGED <<unsent, sid, got, snapshotAt, channels>>
    BY <1>2 DEF OtherEvent, relayVars, stateVars
  <2>7. QED
    BY <2>3, <2>4, <2>5, <2>6, EventsWritten
<1>3. CASE RelaySnapshot \/ RelayRestartSnapshot \/ RelayListTwice
  <2>1. PICK n \in ChunkCounts :
          \E spread \in SoundSpreads(n) \cup TwiceListed(n) : Capture(n, spread)
    BY <1>3 DEF RelaySnapshot, RelayRestartSnapshot, RelayListTwice
  <2> PICK spread \in SoundSpreads(n) \cup TwiceListed(n) : Capture(n, spread)
    BY <2>1
  <2>2. \A p \in Slots : spread[p] # {} /\ spread[p] \subseteq 1 .. n
    BY DEF SoundSpreads, TwiceListed
  <2>3. UNCHANGED <<relay, link, got, snapshotAt, channels>> /\ session = "open"
    BY <1>3 DEF RelaySnapshot, RelayRestartSnapshot, RelayListTwice, stateVars
  <2>4. QED
    BY <2>1, <2>2, <2>3, SnapshotTaken
<1>4. CASE RelayWriteChunk \/ RelayRepeatChunk
  <2>1. PICK f \in unsent : /\ link' = Append(link, f)
                            /\ unsent' = unsent \/ unsent' = unsent \ {f}
    BY <1>4 DEF RelayWriteChunk, RelayRepeatChunk, relayVars
  <2>2. UNCHANGED <<relay, sid, got, snapshotAt, channels>> /\ session = "open"
    BY <1>4 DEF RelayWriteChunk, RelayRepeatChunk, relayVars, stateVars
  <2>3. QED
    BY <2>1, <2>2, ChunkWritten
<1>5. CASE ReceiveHelloAck
  <2>1. /\ got = {} /\ unsent = {} /\ \A i \in DOMAIN link : link[i].type # "chunk"
        /\ got' = got /\ unsent' = unsent /\ link' = Tail(link) /\ link # <<>> /\ ~snapshotAt'
    BY <1>5 DEF ReceiveHelloAck, Receive, markConnected, SessionInv
  <2>2. \A i \in DOMAIN link' : link'[i].type # "chunk"
    <3>1. link \in Seq(Frames) /\ link' \in Seq(Frames)
      BY DEF Types
    <3>2. DOMAIN link' = 1 .. Len(link') /\ DOMAIN link = 1 .. Len(link)
      BY <3>1, LenProperties
    <3>3. \A i \in DOMAIN link' : i + 1 \in DOMAIN link /\ link'[i] = link[i + 1]
      BY <2>1, <3>1, <3>2, FromTail
    <3>4. QED
      BY <2>1, <3>3
  <2>3. Pending' = {}
    BY <2>1, <2>2 DEF Pending, LinkChunks
  <2>4. QED
    BY <2>1, <2>2, <2>3 DEF SyncInv, IdInv, UniqueInv, OrderInv, UnsentInv, FlightInv,
       ReadInv, AppliedInv
<1>6. CASE recordLifecycleEvent
  <2>1. PICK k \in EventKinds, p \in Slots :
          link # <<>> /\ Event(k, p) = Head(link)
          /\ channels' = Recorded(channels, Event(k, p))
    BY <1>6 DEF recordLifecycleEvent, Receive
  <2>2. Head(link).type = "event"
    BY <2>1 DEF Event
  <2>3. /\ session = "open" /\ link' = Tail(link)
        /\ UNCHANGED <<relay, unsent, sid, got, snapshotAt>>
    BY <1>6 DEF recordLifecycleEvent, relayVars
  <2>4. channels' = Apply(channels, Head(link))
    BY <2>1, <2>2 DEF Apply
  <2>5. QED
    BY <2>1, <2>2, <2>3, <2>4, EventRead
<1>7. CASE link # <<>> /\ ReceiveChunk(Head(link))
  BY <1>7, ChunkRead DEF ReceiveChunk
<1>8. CASE \/ RelayAccept \/ Dial \/ LoseConnection \/ markDisconnected
           \/ RejectChunk(Head(link))
  BY <1>8 DEF RelayAccept, Dial, LoseConnection, markDisconnected, RejectChunk, Close
<1>9. CASE UNCHANGED vars
  <2>1. SyncInv /\ UNCHANGED <<relay, unsent, sid, link, got, snapshotAt, channels>>
    BY <1>9 DEF vars, relayVars, stateVars
  <2>2. Pending' = Pending
    BY <2>1 DEF Pending
  <2>3. IdInv' /\ UniqueInv' /\ UnsentInv' /\ AppliedInv'
    BY <2>1, <2>2 DEF SyncInv, IdInv, UniqueInv, UnsentInv, AppliedInv
  <2>4. OrderInv'
    BY <2>1 DEF SyncInv, OrderInv, WrittenBefore
  <2>5. FlightInv' /\ ReadInv'
    BY <2>1, <2>2 DEF SyncInv, FlightInv, ReadInv, Complete
  <2>6. QED
    BY <2>3, <2>4, <2>5 DEF SyncInv
<1>10. QED
  BY <1>1, <1>2, <1>3, <1>4, <1>5, <1>6, <1>7, <1>8, <1>9 DEF Next, ReceiveFrame

\* Nothing is served, listed or under way at the start.
LEMMA RosterInit == Init => RosterInv
<1> SUFFICES ASSUME Init PROVE RosterInv
  OBVIOUS
<1>1. Occupied(NoOne) = {}
  BY DEF Occupied, NoOne
<1>2. QED
  BY <1>1 DEF Init, RosterInv, SessionInv, ListedInv

\* While a session lives, the roster that is served and the events in flight
\* make the Relay's roster, and every occupied channel is listed, whatever the
\* Relay's restarts, repetitions and lost connections, as long as it writes no
\* event between the chunks of a snapshot.
THEOREM ServedMatchesRelayHolds ==
  ASSUME EventsBetweenChunks = FALSE
  PROVE  Spec => []ServedMatchesRelay
<1>1. RosterInv /\ Types /\ Types' /\ ReassemblyInv /\ [Next]_vars => RosterInv'
  BY SessionStep, ListedStep, SyncStep DEF RosterInv
<1>2. RosterInv => ServedMatchesRelay
  BY DEF RosterInv, ListedInv, SyncInv, AppliedInv, LeadsTo, ServedMatchesRelay, Ready
<1>3. Init => ReassemblyInv
  BY FS_EmptySet DEF Init, ReassemblyInv, OneSnapshot
<1>4. QED
  BY <1>1, <1>2, <1>3, TypeInit, TypeStep, ReassemblyStep, RosterInit, PTL DEF Spec
=============================================================================
