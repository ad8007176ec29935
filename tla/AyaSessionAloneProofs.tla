------------------------ MODULE AyaSessionAloneProofs -----------------------
(***************************************************************************)
(* Theorems about AyaSession when one actor at a time is at work.  While   *)
(* one screen at a time generates, each generation ends and is given       *)
(* tokens of its own only; while one model at a time is selected or        *)
(* deleted, the session is ready when its model is loaded, whatever the    *)
(* screens generate meanwhile.                                             *)
(***************************************************************************)
EXTENDS AyaSessionProofs
-----------------------------------------------------------------------------
(* What is on its way to Dart: what has left the main thread, and behind   *)
(* it what is posted to the main thread.                                   *)
Length == Len(toDart) + Len(posted)
Wire   == [k \in 1 .. Length |->
             IF k <= Len(toDart) THEN toDart[k] ELSE posted[k - Len(toDart)].message]

(* r is q, of length n, with e at i.                                       *)
Inserted(q, r, n, i, e) ==
  /\ n \in Nat /\ i \in 1 .. n + 1 /\ DOMAIN q = 1 .. n /\ DOMAIN r = 1 .. n + 1
  /\ r[i] = e
  /\ \A k \in 1 .. n : (k < i => r[k] = q[k]) /\ (i <= k => r[k + 1] = q[k])

Tells(m) == \E n, i : Inserted(Wire, Wire', n, i, m)
Hears(m) == \E n, i : Inserted(Wire', Wire, n, i, m)

LEMMA InsertedKeeps ==
  ASSUME NEW q, NEW r, NEW n, NEW i, NEW e, Inserted(q, r, n, i, e), NEW S, NEW E
  PROVE  /\ Without(q, S) /\ e \notin S => Without(r, S)
         /\ Without(q, S) /\ e \in E => Only(r, S, E)
         /\ Only(q, S, E) /\ e \notin S => Only(r, S, E)
<1>1. /\ n \in Nat /\ i \in 1 .. n + 1 /\ DOMAIN q = 1 .. n /\ DOMAIN r = 1 .. n + 1
      /\ r[i] = e
      /\ \A k \in 1 .. n : (k < i => r[k] = q[k]) /\ (i <= k => r[k + 1] = q[k])
  BY DEF Inserted
<1>2. ASSUME NEW j \in DOMAIN r, j # i
      PROVE  \/ j \in DOMAIN q /\ j < i /\ r[j] = q[j]
             \/ j - 1 \in DOMAIN q /\ i < j /\ r[j] = q[j - 1]
  <2>1. CASE j < i
    BY <1>1, <2>1
  <2>2. CASE i < j
    <3>1. j - 1 \in 1 .. n /\ i <= j - 1 /\ (j - 1) + 1 = j
      BY <1>1, <2>2
    <3> QED
      BY <1>1, <2>2, <3>1
  <2> QED
    BY <1>1, <1>2, <2>1, <2>2
<1>3. Without(q, S) /\ e \notin S => Without(r, S)
  BY <1>1, <1>2 DEF Without
<1>4. Without(q, S) /\ e \in E => Only(r, S, E)
  BY <1>1, <1>2 DEF Without, Only
<1>5. ASSUME Only(q, S, E), e \notin S PROVE Only(r, S, E)
  <2>1. PICK k \in DOMAIN q : q[k] \in E /\ \A j \in DOMAIN q \ {k} : q[j] \notin S
    BY <1>5 DEF Only
  <2>2. k < i \/ i <= k
    BY <1>1
  <2>3. CASE k < i
    <3>1. k \in DOMAIN r /\ r[k] \in E
      BY <1>1, <2>1, <2>3
    <3>2. \A j \in DOMAIN r \ {k} : r[j] \notin S
      BY <1>1, <1>2, <1>5, <2>1, <2>3
    <3> QED
      BY <3>1, <3>2 DEF Only
  <2>4. CASE i <= k
    <3>1. k + 1 \in DOMAIN r /\ r[k + 1] \in E
      BY <1>1, <2>1, <2>4
    <3>2. \A j \in DOMAIN r \ {k + 1} : r[j] \notin S
      BY <1>1, <1>2, <1>5, <2>1, <2>4
    <3> QED
      BY <3>1, <3>2 DEF Only
  <2> QED
    BY <2>2, <2>3, <2>4
<1> QED
  BY <1>3, <1>4, <1>5

LEMMA InsertedLeaves ==
  ASSUME NEW q, NEW r, NEW n, NEW i, NEW e, Inserted(q, r, n, i, e), NEW S, NEW E, E \subseteq S
  PROVE  /\ Without(r, S) => e \notin S /\ Without(q, S)
         /\ Only(r, S, E) /\ e \notin S => Only(q, S, E)
         /\ Only(r, S, E) /\ e \in S => e \in E /\ Without(q, S)
<1>1. /\ n \in Nat /\ i \in 1 .. n + 1 /\ DOMAIN q = 1 .. n /\ DOMAIN r = 1 .. n + 1
      /\ r[i] = e
      /\ \A k \in 1 .. n : (k < i => r[k] = q[k]) /\ (i <= k => r[k + 1] = q[k])
  BY DEF Inserted
<1>2. ASSUME NEW j \in DOMAIN q
      PROVE  \/ j \in DOMAIN r /\ j < i /\ r[j] = q[j]
             \/ j + 1 \in DOMAIN r /\ i <= j /\ r[j + 1] = q[j]
  BY <1>1
<1>3. Without(r, S) => e \notin S /\ Without(q, S)
  BY <1>1, <1>2 DEF Without
<1>4. ASSUME Only(r, S, E) PROVE /\ e \notin S => Only(q, S, E)
                                 /\ e \in S => e \in E /\ Without(q, S)
  <2>1. PICK k \in DOMAIN r : r[k] \in E /\ \A j \in DOMAIN r \ {k} : r[j] \notin S
    BY <1>4 DEF Only
  <2>2. CASE k = i
    <3>1. e \in S /\ e \in E
      BY <1>1, <2>1, <2>2
    <3>2. \A j \in DOMAIN q : q[j] \notin S
      BY <1>1, <1>2, <2>1, <2>2
    <3> QED
      BY <3>1, <3>2 DEF Without
  <2>3. CASE k < i
    <3>1. e \notin S /\ k \in DOMAIN q /\ q[k] \in E
      BY <1>1, <2>1, <2>3
    <3>2. \A j \in DOMAIN q \ {k} : q[j] \notin S
      BY <1>1, <1>2, <2>1, <2>3
    <3> QED
      BY <3>1, <3>2 DEF Only
  <2>4. CASE i < k
    <3>1. k - 1 \in 1 .. n /\ i <= k - 1 /\ (k - 1) + 1 = k
      BY <1>1, <2>4
    <3>2. e \notin S /\ k - 1 \in DOMAIN q /\ q[k - 1] \in E
      BY <1>1, <2>1, <2>4, <3>1
    <3>3. \A j \in DOMAIN q \ {k - 1} : q[j] \notin S
      BY <1>1, <1>2, <2>1, <2>4
    <3> QED
      BY <3>2, <3>3 DEF Only
  <2> QED
    BY <1>1, <2>2, <2>3, <2>4
<1> QED
  BY <1>3, <1>4

LEMMA InsertedThere ==
  ASSUME NEW q, NEW r, NEW n, NEW i, NEW e, Inserted(q, r, n, i, e), NEW S, e \in S
  PROVE  ~Without(r, S)
BY DEF Inserted, Without

LEMMA WireTyped ==
  ASSUME TypesOK
  PROVE  /\ Length \in Nat /\ DOMAIN Wire = 1 .. Length
         /\ \A k \in DOMAIN Wire : Wire[k] \in Told
<1>1. /\ toDart \in Seq(Told) /\ posted \in Seq(Posted)
      /\ \A p \in Posted : p.message \in Told
  BY DEF TypesOK, WiresOK, NativeOK, Posted
<1>2. Len(toDart) \in Nat /\ Len(posted) \in Nat
      /\ (\A k \in 1 .. Len(toDart) : toDart[k] \in Told)
      /\ (\A k \in 1 .. Len(posted) : posted[k] \in Posted)
  BY <1>1
<1> QED
  BY <1>1, <1>2 DEF Wire, Length

LEMMA WireSame == ASSUME UNCHANGED <<toDart, posted>> PROVE Wire' = Wire
BY DEF Wire, Length

LEMMA RepliesTold ==
  ASSUME TypesOK, NEW m \in Told, Replies(m), posted' = posted
  PROVE  Inserted(Wire, Wire', Length, Len(toDart) + 1, m)
<1>1. toDart \in Seq(Told) /\ posted \in Seq(Posted)
  BY DEF TypesOK, WiresOK, NativeOK
<1>2. /\ Len(toDart) \in Nat /\ Len(posted) \in Nat /\ Len(toDart') = Len(toDart) + 1
      /\ toDart'[Len(toDart) + 1] = m
      /\ \A k \in 1 .. Len(toDart) : toDart'[k] = toDart[k]
  BY <1>1 DEF Replies
<1> QED
  BY <1>2 DEF Wire, Length, Inserted

LEMMA PostsTold ==
  ASSUME TypesOK, NEW m \in Told, NEW sink \in Streams \cup {None}, Posts(m, sink),
         toDart' = toDart
  PROVE  Inserted(Wire, Wire', Length, Length + 1, m)
<1>1. toDart \in Seq(Told) /\ posted \in Seq(Posted)
  BY DEF TypesOK, WiresOK, NativeOK
<1> DEFINE p == [message |-> m, sink |-> sink]
<1>2. p.message = m
  OBVIOUS
<1>3. posted' = Append(posted, p)
  BY DEF Posts
<1> HIDE DEF p
<1>4. /\ Len(toDart) \in Nat /\ Len(posted) \in Nat /\ Len(posted') = Len(posted) + 1
      /\ posted'[Len(posted) + 1].message = m
      /\ \A k \in 1 .. Len(posted) : posted'[k] = posted[k]
  <2>1. p \in Posted \cup {p} /\ posted \in Seq(Posted \cup {p})
    BY <1>1
  <2>2. /\ Len(Append(posted, p)) = Len(posted) + 1 /\ Append(posted, p)[Len(posted) + 1] = p
        /\ \A k \in 1 .. Len(posted) : Append(posted, p)[k] = posted[k]
    BY <1>1, <2>1
  <2>3. Len(toDart) \in Nat /\ Len(posted) \in Nat
    BY <1>1
  <2> QED
    BY <1>2, <1>3, <2>2, <2>3
<1>5. /\ Length \in Nat /\ Length' = Length + 1
      /\ DOMAIN Wire = 1 .. Length /\ DOMAIN Wire' = 1 .. Length + 1
  BY <1>4 DEF Wire, Length
<1>6. Wire'[Length + 1] = m
  <2>1. Length + 1 \in 1 .. Length' /\ ~(Length + 1 <= Len(toDart))
        /\ (Length + 1) - Len(toDart) = Len(posted) + 1
    BY <1>4, <1>5 DEF Length
  <2> QED
    BY <1>4, <2>1 DEF Wire
<1>7. ASSUME NEW k \in 1 .. Length PROVE Wire'[k] = Wire[k]
  <2>1. k \in 1 .. Length'
    BY <1>5
  <2>2. k <= Len(toDart) \/ k - Len(toDart) \in 1 .. Len(posted)
    BY <1>4 DEF Length
  <2> QED
    BY <1>4, <2>1, <2>2 DEF Wire
<1> QED
  BY <1>5, <1>6, <1>7 DEF Inserted

LEMMA ReceivesHeard ==
  ASSUME TypesOK, toDart # <<>>, toDart' = Tail(toDart), posted' = posted
  PROVE  Inserted(Wire', Wire, Length - 1, 1, Head(toDart))
<1>1. toDart \in Seq(Told) /\ posted \in Seq(Posted)
  BY DEF TypesOK, WiresOK, NativeOK
<1>2. /\ Len(toDart) \in Nat /\ Len(posted) \in Nat /\ Len(toDart) # 0
      /\ Len(toDart') = Len(toDart) - 1 /\ Head(toDart) = toDart[1]
      /\ \A k \in 1 .. Len(toDart) - 1 : toDart'[k] = toDart[k + 1]
  BY <1>1
<1> QED
  BY <1>2 DEF Wire, Length, Inserted

LEMMA RunsPosted ==
  ASSUME TypesOK, RunPosted
  PROVE  \/ Wire' = Wire
         \/ /\ Inserted(Wire', Wire, Length - 1, Len(toDart) + 1, Head(posted).message)
            /\ Head(posted).sink \notin {None, plugin.sink} /\ toDart' = toDart
<1>1. toDart \in Seq(Told) /\ posted \in Seq(Posted)
  BY DEF TypesOK, WiresOK, NativeOK
<1>2. /\ Len(toDart) \in Nat /\ Len(posted) \in Nat /\ Len(posted) # 0
      /\ Len(posted') = Len(posted) - 1 /\ Head(posted) = posted[1]
      /\ \A k \in 1 .. Len(posted) - 1 : posted'[k] = posted[k + 1]
  BY <1>1 DEF RunPosted
<1>3. CASE Replies(Head(posted).message)
  <2> DEFINE m == Head(posted).message
  <2>1. toDart' = Append(toDart, m)
    BY <1>3 DEF Replies
  <2> HIDE DEF m
  <2>2. /\ Len(toDart') = Len(toDart) + 1 /\ toDart'[Len(toDart) + 1] = m
        /\ \A k \in 1 .. Len(toDart) : toDart'[k] = toDart[k]
    BY <1>1, <2>1
  <2>3. Length' = Length
    BY <1>2, <2>2 DEF Length
  <2>4. ASSUME NEW k \in 1 .. Length
        PROVE  (IF k <= Len(toDart) THEN toDart[k] ELSE posted[k - Len(toDart)].message)
                 = (IF k <= Len(toDart') THEN toDart'[k] ELSE posted'[k - Len(toDart')].message)
    <3>1. CASE k <= Len(toDart)
      BY <1>2, <2>2, <3>1 DEF Length
    <3>2. CASE k = Len(toDart) + 1
      BY <1>2, <2>2, <3>2 DEF m
    <3>3. CASE k > Len(toDart) + 1
      <4>1. k - Len(toDart') \in 1 .. Len(posted) - 1 /\ (k - Len(toDart')) + 1 = k - Len(toDart)
        BY <1>2, <2>2, <3>3 DEF Length
      <4> QED
        BY <1>2, <2>2, <3>3, <4>1
    <3> QED
      BY <1>2, <3>1, <3>2, <3>3 DEF Length
  <2> QED
    BY <2>3, <2>4 DEF Wire
<1>4. CASE toDart' = toDart /\ Head(posted).sink \notin {None, plugin.sink}
  <2>1. /\ Length \in Nat /\ Length - 1 \in Nat /\ (Length - 1) + 1 = Length
        /\ Length' = Length - 1 /\ Len(toDart) + 1 \in 1 .. Length
        /\ DOMAIN Wire' = 1 .. Length - 1 /\ DOMAIN Wire = 1 .. Length
    BY <1>2, <1>4 DEF Wire, Length
  <2>2. Wire[Len(toDart) + 1] = Head(posted).message
    BY <1>2, <2>1 DEF Wire
  <2>3. ASSUME NEW k \in 1 .. Length - 1
        PROVE  /\ k < Len(toDart) + 1 => Wire[k] = Wire'[k]
               /\ Len(toDart) + 1 <= k => Wire[k + 1] = Wire'[k]
    <3>1. k \in 1 .. Length' /\ k \in 1 .. Length /\ k + 1 \in 1 .. Length
      BY <2>1
    <3>2. CASE k <= Len(toDart)
      BY <1>2, <1>4, <3>1, <3>2 DEF Wire
    <3>3. CASE Len(toDart) + 1 <= k
      <4>1. /\ k - Len(toDart) \in 1 .. Len(posted) - 1
            /\ (k + 1) - Len(toDart) = (k - Len(toDart)) + 1
            /\ ~(k <= Len(toDart)) /\ ~(k + 1 <= Len(toDart))
        BY <1>2, <3>3 DEF Length
      <4>2. Wire[k + 1] = posted[(k + 1) - Len(toDart)].message
        BY <3>1, <4>1 DEF Wire
      <4>3. Wire'[k] = posted'[k - Len(toDart)].message
        <5>1. Len(toDart') = Len(toDart)
          BY <1>4
        <5>2. Wire'[k] = IF k <= Len(toDart') THEN toDart'[k] ELSE posted'[k - Len(toDart')].message
          BY <3>1 DEF Wire
        <5> QED
          BY <4>1, <5>1, <5>2
      <4>4. posted'[k - Len(toDart)] = posted[(k - Len(toDart)) + 1]
        BY <1>2, <4>1
      <4> QED
        BY <4>1, <4>2, <4>3, <4>4
    <3> QED
      BY <1>2, <3>2, <3>3
  <2>4. Inserted(Wire', Wire, Length - 1, Len(toDart) + 1, Head(posted).message)
    BY <2>1, <2>2, <2>3 DEF Inserted
  <2> QED
    BY <1>4, <2>4
<1> QED
  BY <1>3, <1>4 DEF RunPosted

LEMMA Telling ==
  ASSUME TypesOK, NEW m \in Told,
         \/ Replies(m) /\ posted' = posted
         \/ toDart' = toDart /\ \E sink \in Streams \cup {None} : Posts(m, sink)
  PROVE  Tells(m)
BY RepliesTold, PostsTold DEF Tells

LEMMA Hearing ==
  ASSUME TypesOK, toDart # <<>>, toDart' = Tail(toDart), posted' = posted
  PROVE  Hears(Head(toDart))
BY ReceivesHeard DEF Hears

LEMMA EmptyWire ==
  ASSUME toDart = <<>>, posted = <<>>, NEW S
  PROVE  Without(Wire, S)
<1>1. Len(toDart) = 0 /\ Len(posted) = 0
  OBVIOUS
<1>2. DOMAIN Wire = 1 .. 0
  BY <1>1 DEF Wire, Length
<1> QED
  BY <1>2 DEF Without
-----------------------------------------------------------------------------
(* One screen at a time waits for a generation, whose end is on its way.   *)
Active == {"delay", "ended", "leaving", "left", "open"}

Job(s) == [Asking(s) EXCEPT !.sink = s]

Listening(s) ==
  /\ \A k \in DOMAIN toNative :
       /\ toNative[k].op # "cancel"
       /\ toNative[k].op = "listen" => toNative[k] = Listen(s)
  /\ plugin.sink = s \/ \E k \in DOMAIN toNative : toNative[k] = Listen(s)

(* What is posted for the sink of s, which is in place, or for any.         *)
Reaches(p, s) == p.sink = None \/ (p.sink = s /\ plugin.sink = s)

Coming(s) ==
  \/ \E k \in DOMAIN toNative :
       /\ toNative[k] = Asking(s)
       /\ plugin.sink = s \/ \E j \in 1 .. k - 1 : toNative[j] = Listen(s)
  \/ /\ plugin.sink = s
     /\ (Generating /\ worker.job = Job(s)) \/ \E k \in DOMAIN jobs : jobs[k] = Job(s)
  \/ \E k \in DOMAIN toDart : toDart[k] = Message("refused", s) \/ toDart[k].op = "end"
  \/ \E k \in DOMAIN posted : Reaches(posted[k], s) /\ posted[k].message.op = "end"

StreamsOK ==
  /\ \A s, t \in Streams : stream[s].state \in Active /\ stream[t].state \in Active => s = t
  /\ handler # None => stream[handler].state \in {"delay", "leaving", "open"}
  /\ \A s \in Streams :
       stream[s].state \in {"delay", "open"} =>
         /\ handler = s /\ Listening(s)
         /\ stream[s].state = "open" => Coming(s)

(* While nothing is cancelled, what is on its way is of the one generation *)
(* that is open, in one place at a time.                                   *)
Uncancelled == \A s \in Streams : stream[s].state \notin {"leaving", "left", "cancelled"}

Asks   == {c \in Calls : c.op = "generateStream"}
Of(s)  == {c \in Asks : c.who = s}
Events == {m \in Messages : m.op \notin Answers}

TokensOnly(s) == \A k \in DOMAIN Wire : Wire[k] \in Events => Wire[k] = Message("token", s)
EndedLast(s) ==
  \E k \in DOMAIN Wire :
    /\ Wire[k] \in {Message("end", s), Message("refused", s)}
    /\ \A j \in DOMAIN Wire \ {k} :
         Wire[j] \in Events => j < k /\ Wire[j] = Message("token", s)

Asked(call, job, run, event) ==
  /\ ~call => Without(toNative, Asks)
  /\ ~job => Without(jobs, Asks)
  /\ ~run => ~Generating
  /\ ~event => Without(Wire, Events)

OwnGeneration(s) ==
  \/ Asked(TRUE, FALSE, FALSE, FALSE) /\ Only(toNative, Asks, Of(s))
  \/ Asked(FALSE, TRUE, FALSE, FALSE) /\ Only(jobs, Asks, Of(s))
  \/ Asked(FALSE, FALSE, TRUE, TRUE) /\ Generating /\ worker.job.who = s /\ TokensOnly(s)
  \/ Asked(FALSE, FALSE, FALSE, TRUE) /\ EndedLast(s)

OwnOK ==
  Uncancelled =>
    /\ kept = Nothing
    /\ \A s \in Streams : /\ stream[s].tokens \subseteq {s} /\ stream[s].state # "ended"
                          /\ stream[s].state = "open" => OwnGeneration(s)
    /\ (\A s \in Streams : stream[s].state # "open") => Asked(FALSE, FALSE, FALSE, FALSE)

-----------------------------------------------------------------------------
(* One generation at a time: what is on its way for the screen that waits. *)

CallComing(s) ==
  \E k \in DOMAIN toNative :
    /\ toNative[k] = Asking(s)
    /\ plugin.sink = s \/ \E j \in 1 .. k - 1 : toNative[j] = Listen(s)
JobComing(s) ==
  /\ plugin.sink = s
  /\ (Generating /\ worker.job = Job(s)) \/ \E k \in DOMAIN jobs : jobs[k] = Job(s)
EndTold(s) ==
  \E k \in DOMAIN toDart : toDart[k] = Message("refused", s) \/ toDart[k].op = "end"
EndPosted(s) ==
  \E k \in DOMAIN posted : Reaches(posted[k], s) /\ posted[k].message.op = "end"
EndComing(s) == EndTold(s) \/ EndPosted(s)

LEMMA WaysToCome ==
  ASSUME NEW s
  PROVE  /\ Coming(s) <=> CallComing(s) \/ JobComing(s) \/ EndComing(s)
         /\ Coming(s)' <=> CallComing(s)' \/ JobComing(s)' \/ EndComing(s)'
BY DEF Coming, CallComing, JobComing, EndComing, EndTold, EndPosted

LEMMA SameCalls ==
  ASSUME NEW s, plugin'.sink = plugin.sink, toNative' = toNative
  PROVE  /\ Listening(s) => Listening(s)'
         /\ CallComing(s) => CallComing(s)'
BY DEF Listening, CallComing

LEMMA OneMoreCall ==
  ASSUME WiresOK, NEW s, NEW c \in Sent, Sends(c), c.op \notin {"listen", "cancel"},
         plugin'.sink = plugin.sink
  PROVE  /\ Listening(s) => Listening(s)'
         /\ CallComing(s) => CallComing(s)'
         /\ Listening(s) /\ c = Asking(s) => CallComing(s)'
<1> DEFINE n == Len(toNative)
<1>1. /\ n \in Nat /\ DOMAIN toNative = 1 .. n /\ DOMAIN toNative' = 1 .. n + 1
      /\ \A k \in DOMAIN toNative : toNative'[k] = toNative[k]
      /\ toNative'[n + 1] = c
  BY Appending DEF WiresOK, Sends
<1> HIDE DEF n
<1>2. Listening(s) => Listening(s)'
  BY <1>1 DEF Listening
<1>3. CallComing(s) => CallComing(s)'
  <2>1. ASSUME NEW k \in DOMAIN toNative, NEW j \in 1 .. k - 1
        PROVE  j \in DOMAIN toNative
    BY <1>1
  <2> QED
    BY <1>1, <2>1 DEF CallComing
<1>4. ASSUME Listening(s), c = Asking(s)
      PROVE  CallComing(s)'
  <2>1. n + 1 \in DOMAIN toNative' /\ toNative'[n + 1] = Asking(s)'
    BY <1>1, <1>4 DEF Asking, Call
  <2>2. plugin'.sink = s \/ \E j \in 1 .. (n + 1) - 1 : toNative'[j] = Listen(s)'
    BY <1>1, <1>4 DEF Listening, Listen, Call
  <2> QED
    BY <2>1, <2>2 DEF CallComing
<1> QED
  BY <1>2, <1>3, <1>4

LEMMA OneCallLess ==
  ASSUME WiresOK, NEW s, toNative # <<>>, toNative' = Tail(toNative),
         plugin'.sink = plugin.sink, Head(toNative).op # "listen"
  PROVE  /\ Listening(s) => Listening(s)'
         /\ CallComing(s) /\ Head(toNative) # Asking(s) => CallComing(s)'
         /\ CallComing(s) /\ Head(toNative) = Asking(s) => CallComing(s)' \/ plugin.sink = s
<1>1. /\ Head(toNative) = toNative[1] /\ DOMAIN toNative \subseteq Nat
      /\ \A k \in DOMAIN toNative' :
           k + 1 \in DOMAIN toNative /\ toNative'[k] = toNative[k + 1] /\ k \in Nat
      /\ \A k \in DOMAIN toNative :
           k # 1 => k - 1 \in DOMAIN toNative' /\ toNative'[k - 1] = toNative[k]
  BY Taking DEF WiresOK
<1>2. toNative[1] # Listen(s)
  BY <1>1 DEF Listen, Call
<1>3. ASSUME Listening(s) PROVE Listening(s)'
  <2>1. \A k \in DOMAIN toNative' :
          /\ toNative'[k].op # "cancel"
          /\ toNative'[k].op = "listen" => toNative'[k] = Listen(s)
    BY <1>1, <1>3 DEF Listening
  <2>2. plugin.sink = s \/ \E k \in DOMAIN toNative' : toNative'[k] = Listen(s)
    <3>1. CASE plugin.sink = s
      BY <3>1
    <3>2. ASSUME NEW k \in DOMAIN toNative, toNative[k] = Listen(s)
          PROVE  \E j \in DOMAIN toNative' : toNative'[j] = Listen(s)
      <4>1. k # 1
        BY <1>2, <3>2
      <4>2. k - 1 \in DOMAIN toNative' /\ toNative'[k - 1] = Listen(s)
        BY <1>1, <3>2, <4>1
      <4> QED
        BY ONLY <4>2
    <3> QED
      BY <1>3, <3>1, <3>2 DEF Listening
  <2> QED
    BY <2>1, <2>2 DEF Listening, Listen, Call
<1>4. ASSUME NEW k \in DOMAIN toNative, k # 1, toNative[k] = Asking(s),
             plugin.sink = s \/ \E j \in 1 .. k - 1 : toNative[j] = Listen(s)
      PROVE  CallComing(s)'
  <2>1. k - 1 \in DOMAIN toNative' /\ toNative'[k - 1] = Asking(s)
    BY <1>1, <1>4
  <2>2. ASSUME NEW j \in 1 .. k - 1, toNative[j] = Listen(s)
        PROVE  j - 1 \in 1 .. (k - 1) - 1 /\ toNative'[j - 1] = Listen(s)
    <3>1. j # 1 /\ k \in Nat
      BY <1>1, <1>2, <2>2
    <3>2. j \in DOMAIN toNative
      BY DEF WiresOK
    <3> QED
      BY <1>1, <3>1, <3>2, <2>2
  <2> QED
    BY <1>4, <2>1, <2>2 DEF CallComing, Asking, Listen, Call
<1>5. ASSUME CallComing(s), Head(toNative) # Asking(s) PROVE CallComing(s)'
  BY <1>1, <1>4, <1>5 DEF CallComing
<1>6. ASSUME CallComing(s), Head(toNative) = Asking(s) PROVE CallComing(s)' \/ plugin.sink = s
  <2>1. PICK k \in DOMAIN toNative :
          /\ toNative[k] = Asking(s)
          /\ plugin.sink = s \/ \E j \in 1 .. k - 1 : toNative[j] = Listen(s)
    BY <1>6 DEF CallComing
  <2>2. CASE k = 1
    BY <2>1, <2>2
  <2>3. CASE k # 1
    BY <1>4, <2>1, <2>3
  <2> QED
    BY <2>2, <2>3
<1> QED
  BY <1>3, <1>5, <1>6

LEMMA EndStays ==
  ASSUME WiresOK, NEW s, EndTold(s),
         \/ toDart' = toDart
         \/ \E m \in Told : Replies(m)
         \/ /\ toDart # <<>> /\ toDart' = Tail(toDart)
            /\ Head(toDart).op # "end" /\ Head(toDart) # Message("refused", s)
  PROVE  EndTold(s)'
<1>1. PICK k \in DOMAIN toDart : toDart[k] = Message("refused", s) \/ toDart[k].op = "end"
  BY DEF EndTold
<1>2. \E j \in DOMAIN toDart' : toDart'[j] = toDart[k]
  <2>1. CASE toDart' = toDart
    BY <2>1
  <2>2. ASSUME NEW m \in Told, Replies(m) PROVE \E j \in DOMAIN toDart' : toDart'[j] = toDart[k]
    <3>1. k \in DOMAIN toDart' /\ toDart'[k] = toDart[k]
      BY <2>2, Appending DEF WiresOK, Replies
    <3> QED
      BY <3>1
  <2>3. CASE /\ toDart # <<>> /\ toDart' = Tail(toDart)
             /\ Head(toDart).op # "end" /\ Head(toDart) # Message("refused", s)
    <3>1. toDart \in Seq(Told)
      BY DEF WiresOK
    <3>2. Head(toDart) = toDart[1]
      BY <2>3, <3>1, Taking
    <3>3. k # 1
      BY <1>1, <2>3, <3>2
    <3>4. k - 1 \in DOMAIN toDart' /\ toDart'[k - 1] = toDart[k]
      BY <2>3, <3>1, <3>3, Taking
    <3> QED
      BY <3>4
  <2> QED
    BY <2>1, <2>2, <2>3
<1> QED
  BY <1>1, <1>2 DEF EndTold, Message

LEMMA EndSent ==
  ASSUME WiresOK, NEW s, NEW m \in Told, Replies(m), m = Message("refused", s) \/ m.op = "end"
  PROVE  EndTold(s)'
<1>1. Len(toDart) + 1 \in DOMAIN toDart' /\ toDart'[Len(toDart) + 1] = m
  BY Appending DEF WiresOK, Replies
<1> QED
  BY <1>1 DEF EndTold, Message

(* What is posted stays until the main thread gets to it.                  *)
LEMMA PostedStays ==
  ASSUME NativeOK, NEW s, EndPosted(s), plugin'.sink = plugin.sink \/ plugin'.sink = s,
         posted' = posted \/ \E p \in Posted : posted' = Append(posted, p)
  PROVE  EndPosted(s)'
<1>1. PICK k \in DOMAIN posted : Reaches(posted[k], s) /\ posted[k].message.op = "end"
  BY DEF EndPosted
<1>2. k \in DOMAIN posted' /\ posted'[k] = posted[k]
  <2>1. CASE posted' = posted
    BY <2>1
  <2>2. ASSUME NEW p \in Posted, posted' = Append(posted, p)
        PROVE  k \in DOMAIN posted' /\ posted'[k] = posted[k]
    BY <2>2, Appending DEF NativeOK
  <2> QED
    BY <2>1, <2>2
<1> QED
  BY <1>1, <1>2 DEF EndPosted, Reaches

LEMMA EndIsPosted ==
  ASSUME NativeOK, NEW s, NEW p \in Posted, posted' = Append(posted, p), p.message.op = "end",
         Reaches(p, s), plugin' = plugin
  PROVE  EndPosted(s)'
<1>1. Len(posted) + 1 \in DOMAIN posted' /\ posted'[Len(posted) + 1] = p
  BY Appending DEF NativeOK
<1> QED
  BY <1>1 DEF EndPosted, Reaches

(* The end of a generation that listens passes from one queue to the other. *)
LEMMA EndRuns ==
  ASSUME TypesOK, NEW s, EndComing(s), RunPosted
  PROVE  EndComing(s)'
<1>1. WiresOK /\ posted \in Seq(Posted) /\ posted # <<>> /\ posted' = Tail(posted)
      /\ plugin' = plugin
  BY DEF TypesOK, NativeOK, RunPosted
<1>2. Head(posted) \in Posted /\ Head(posted) = posted[1]
      /\ \A k \in DOMAIN posted : k # 1 => k - 1 \in DOMAIN posted' /\ posted'[k - 1] = posted[k]
  BY <1>1, Taking
<1>3. Head(posted).message \in Told
  BY <1>2 DEF Posted
<1>4. ASSUME EndTold(s) PROVE EndTold(s)'
  <2>1. toDart' = toDart \/ Replies(Head(posted).message)
    BY DEF RunPosted
  <2> QED
    BY <1>1, <1>3, <1>4, <2>1, EndStays
<1>5. ASSUME EndPosted(s) PROVE EndComing(s)'
  <2>1. PICK k \in DOMAIN posted : Reaches(posted[k], s) /\ posted[k].message.op = "end"
    BY <1>5 DEF EndPosted
  <2>2. CASE k = 1
    <3>1. Head(posted).sink \in {None, plugin.sink} /\ Head(posted).message.op = "end"
      BY <1>2, <2>1, <2>2 DEF Reaches
    <3>2. Replies(Head(posted).message)
      BY <3>1 DEF RunPosted
    <3> QED
      BY <1>1, <1>3, <3>1, <3>2, EndSent DEF EndComing
  <2>3. CASE k # 1
    <3>1. k - 1 \in DOMAIN posted' /\ posted'[k - 1] = posted[k]
      BY <1>2, <2>3
    <3>2. EndPosted(s)'
      BY <1>1, <2>1, <3>1 DEF EndPosted, Reaches
    <3> QED
      BY <3>2 DEF EndComing
  <2> QED
    BY <2>2, <2>3
<1> QED
  BY <1>4, <1>5 DEF EndComing

(* A reply, or a post, leaves what is coming where it is.                  *)
LEMMA EndKept ==
  ASSUME TypesOK, NEW s, EndComing(s), plugin'.sink = plugin.sink \/ plugin'.sink = s,
         \/ toDart' = toDart
         \/ \E m \in Told : Replies(m)
         \/ /\ toDart # <<>> /\ toDart' = Tail(toDart)
            /\ Head(toDart).op # "end" /\ Head(toDart) # Message("refused", s),
         posted' = posted \/ \E p \in Posted : posted' = Append(posted, p)
  PROVE  EndComing(s)'
<1>1. WiresOK /\ NativeOK
  BY DEF TypesOK
<1>2. EndTold(s) => EndTold(s)'
  BY <1>1, EndStays
<1>3. EndPosted(s) => EndPosted(s)'
  BY <1>1, PostedStays
<1> QED
  BY <1>2, <1>3 DEF EndComing

LEMMA JobStays ==
  ASSUME WorkerOK, NEW s, JobComing(s), plugin'.sink = plugin.sink, worker' = worker,
         jobs' = jobs \/ \E c \in Sent : c.op \in {"load", "generate", "generateStream"} /\ jobs' = Append(jobs, c)
  PROVE  JobComing(s)'
<1>1. ASSUME NEW k \in DOMAIN jobs
      PROVE  k \in DOMAIN jobs' /\ jobs'[k] = jobs[k]
  <2>1. CASE jobs' = jobs
    BY <2>1
  <2>2. ASSUME NEW c \in Sent, c.op \in {"load", "generate", "generateStream"}, jobs' = Append(jobs, c)
        PROVE  k \in DOMAIN jobs' /\ jobs'[k] = jobs[k]
    BY <2>2, Appending DEF WorkerOK, Jobs
  <2> QED
    BY <2>1, <2>2
<1> QED
  BY <1>1 DEF JobComing, Generating, Job, Asking, Call

(* What the plugin does keeps the answer to a generation on its way.       *)
LEMMA MainWaits ==
  ASSUME TypesOK, NEW s \in Streams, Listening(s), MainThread
  PROVE  Listening(s)' /\ (Coming(s) => Coming(s)')
<1> USE PluginAssumption
<1>1. WiresOK /\ WorkerOK /\ plugin \in Plugins
  BY DEF TypesOK, NativeOK
<1>2. Asking(s).op = "generateStream" /\ Listen(s).op = "listen" /\ Listen(s).who = s
      /\ Asking(s).who = s
  BY DEF Asking, Listen, Call
<1>3. CASE OnListen
  <2>1. toNative # <<>> /\ toNative' = Tail(toNative) /\ Head(toNative).op = "listen"
    BY <1>1, <1>3, TakesTyped DEF OnListen
  <2>2. /\ Head(toNative) = toNative[1] /\ 1 \in DOMAIN toNative
        /\ \A k \in DOMAIN toNative' : k + 1 \in DOMAIN toNative /\ toNative'[k] = toNative[k + 1]
        /\ \A k \in DOMAIN toNative :
             k # 1 => k - 1 \in DOMAIN toNative' /\ toNative'[k - 1] = toNative[k]
    BY <1>1, <2>1, Taking DEF WiresOK
  <2>3. toNative[1] = Listen(s)
    BY <2>1, <2>2 DEF Listening
  <2>4. plugin'.sink = s /\ UNCHANGED <<toDart, posted, jobs, worker>>
    BY <1>1, <1>2, <1>3, <2>2, <2>3 DEF OnListen, Plugins
  <2>5. Listening(s)'
    <3>1. \A k \in DOMAIN toNative' :
            /\ toNative'[k].op # "cancel"
            /\ toNative'[k].op = "listen" => toNative'[k] = Listen(s)
      BY <2>2 DEF Listening
    <3> QED
      BY <2>4, <3>1 DEF Listening, Listen, Call
  <2>6. ASSUME CallComing(s) PROVE CallComing(s)'
    <3>1. PICK k \in DOMAIN toNative : toNative[k] = Asking(s)
      BY <2>6 DEF CallComing
    <3>2. k # 1
      BY <1>2, <2>3, <3>1
    <3>3. k - 1 \in DOMAIN toNative' /\ toNative'[k - 1] = Asking(s)
      BY <2>2, <3>1, <3>2
    <3> QED
      BY ONLY <2>4, <3>3 DEF CallComing, Asking, Call
  <2>7. JobComing(s) => JobComing(s)'
    BY <2>4 DEF JobComing, Generating, Job, Asking, Call
  <2>8. EndComing(s) => EndComing(s)'
    BY <2>4, EndKept
  <2> QED
    BY <2>5, <2>6, <2>7, <2>8, WaysToCome
<1>4. CASE OnCancel
  <2>1. toNative # <<>> /\ Head(toNative).op = "cancel"
    BY <1>1, <1>4, TakesTyped DEF OnCancel
  <2>2. 1 \in DOMAIN toNative /\ toNative[1].op = "cancel"
    BY <1>1, <2>1, Taking DEF WiresOK
  <2> QED
    BY <2>2 DEF Listening
<1>5. CASE GenerateStream
  <2> DEFINE call == Head(toNative)
  <2>1. /\ toNative # <<>> /\ toNative' = Tail(toNative) /\ call.op = "generateStream"
        /\ call \in Sent /\ call.who \in Streams
    BY <1>1, <1>5, TakesTyped DEF GenerateStream, Sent
  <2>2. /\ plugin' = plugin /\ worker' = worker /\ posted' = posted
        /\ \/ jobs' = Append(jobs, [call EXCEPT !.sink = plugin.sink]) /\ toDart' = toDart
           \/ jobs' = jobs /\ Replies(Message("refused", call.who))
    BY <1>5 DEF GenerateStream
  <2>3. Message("refused", call.who) \in Told /\ [call EXCEPT !.sink = plugin.sink] \in Sent
        /\ [call EXCEPT !.sink = plugin.sink].op = "generateStream"
    BY <1>1, <2>1, MessageTyped DEF Sent, Calls, Plugins
  <2>4. Listening(s)' /\ (CallComing(s) /\ call # Asking(s) => CallComing(s)')
        /\ (CallComing(s) /\ call = Asking(s) => CallComing(s)' \/ plugin.sink = s)
    BY <1>1, <2>1, <2>2, OneCallLess
  <2> HIDE DEF call
  <2>5. JobComing(s) => JobComing(s)'
    BY <1>1, <2>2, <2>3, JobStays
  <2>6. EndComing(s) => EndComing(s)'
    BY <2>2, <2>3, EndKept
  <2>7. ASSUME call = Asking(s), plugin.sink = s PROVE JobComing(s)' \/ EndComing(s)'
    <3>1. CASE jobs' = Append(jobs, [call EXCEPT !.sink = plugin.sink])
      <4>1. [call EXCEPT !.sink = plugin.sink] = Job(s)
        BY <2>7 DEF Job
      <4>2. Job(s) \in Sent /\ Job(s).op = "generateStream"
        BY <2>3, <4>1
      <4>3. Len(jobs) + 1 \in DOMAIN jobs' /\ jobs'[Len(jobs) + 1] = Job(s)
        BY <1>1, <3>1, <4>1, <4>2, Appending DEF WorkerOK, Jobs
      <4> QED
        BY <2>2, <2>7, <4>3 DEF JobComing, Job, Asking, Call
    <3>2. CASE Replies(Message("refused", call.who))
      <4>1. call.who = s
        BY <1>2, <2>7
      <4> QED
        BY <1>1, <2>3, <3>2, <4>1, EndSent DEF EndComing
    <3> QED
      BY <2>2, <3>1, <3>2
  <2> QED
    BY <2>4, <2>5, <2>6, <2>7, WaysToCome
<1>6. CASE Generate \/ LoadModel \/ UnloadModel
  <2> DEFINE call == Head(toNative)
  <2>1. /\ toNative # <<>> /\ toNative' = Tail(toNative) /\ call \in Sent
        /\ call.op \in {"generate", "load", "unload"}
    BY <1>1, <1>6, TakesTyped DEF Generate, LoadModel, UnloadModel
  <2>2. call.who \in Selects
    BY <2>1 DEF Sent, Commands
  <2>3. Message("notWarm", call.who) \in Told /\ Message("unloaded", call.who) \in Told
    BY <2>2, MessageTyped DEF Answers
  <2>4. Listening(s)' /\ (CallComing(s) => CallComing(s)')
    <3>1. plugin'.sink = plugin.sink
      BY <1>1, <1>6 DEF Generate, LoadModel, UnloadModel, Plugins
    <3>2. call # Asking(s)
      BY <1>2, <2>1
    <3> QED
      BY <1>1, <2>1, <3>1, <3>2, OneCallLess
  <2>5. plugin'.sink = plugin.sink /\ worker' = worker /\ posted' = posted
    BY <1>1, <1>6 DEF Generate, LoadModel, UnloadModel, Plugins
  <2>6. jobs' = jobs \/ (call.op \in {"load", "generate"} /\ jobs' = Append(jobs, call))
    BY <1>6, <2>1 DEF Generate, LoadModel, UnloadModel, Takes
  <2>7. toDart' = toDart \/ Replies(Message("notWarm", call.who))
        \/ Replies(Message("unloaded", call.who))
    BY <1>6 DEF Generate, LoadModel, UnloadModel
  <2> HIDE DEF call
  <2>8. JobComing(s) => JobComing(s)'
    BY <1>1, <2>1, <2>5, <2>6, JobStays
  <2>9. EndComing(s) => EndComing(s)'
    BY <2>3, <2>5, <2>7, EndKept
  <2> QED
    BY <2>4, <2>8, <2>9, WaysToCome
<1>7. CASE Unloaded
  <2>1. /\ plugin'.sink = plugin.sink /\ UNCHANGED <<toNative, posted, jobs, worker>>
        /\ plugin.unloading \in Selects
        /\ Replies(Message("unloaded", plugin.unloading))
    BY <1>1, <1>7 DEF Unloaded, Plugins, MainIsFree
  <2>2. Message("unloaded", plugin.unloading) \in Told
    BY <2>1, MessageTyped DEF Answers
  <2>3. EndComing(s) => EndComing(s)'
    BY <2>1, <2>2, EndKept
  <2>4. JobComing(s) => JobComing(s)'
    BY <1>1, <2>1, JobStays
  <2> QED
    BY <2>1, <2>3, <2>4, SameCalls, WaysToCome
<1>8. CASE RunPosted
  <2>1. UNCHANGED <<toNative, plugin, jobs, worker>>
    BY <1>8 DEF RunPosted
  <2>2. EndComing(s) => EndComing(s)'
    BY <1>8, EndRuns
  <2>3. JobComing(s) => JobComing(s)'
    BY <1>1, <2>1, JobStays
  <2> QED
    BY <2>1, <2>2, <2>3, SameCalls, WaysToCome
<1> QED
  BY <1>3, <1>4, <1>5, <1>6, <1>7, <1>8 DEF MainThread

LEMMA PostsPosted ==
  ASSUME NEW m \in Told, NEW sink \in Streams \cup {None}, Posts(m, sink),
         sink # None => m.op \in {"token", "end"}
  PROVE  \E p \in Posted : /\ posted' = Append(posted, p)
                           /\ p.message = m /\ p.sink = sink
<1>1. [message |-> m, sink |-> sink] \in Posted
  BY DEF Posted
<1> QED
  BY <1>1 DEF Posts

LEMMA EmitsPosted ==
  ASSUME WorkerOK, Generating, NEW op \in {"token", "end"}, Emits(op)
  PROVE  \E p \in Posted : /\ posted' = Append(posted, p)
                           /\ p.message = Message(op, worker.job.who)
                           /\ p.sink \in {None, worker.job.sink}
<1>1. Message(op, worker.job.who) \in Told /\ Message(op, worker.job.who).op = op
  BY MessageTyped DEF WorkerOK
<1>2. worker.job.sink \in Streams \cup {None}
  BY DEF WorkerOK, Workers, Calls
<1>3. \E sink \in {None, worker.job.sink} : Posts(Message(op, worker.job.who), sink)
  BY DEF Emits
<1> QED
  BY <1>1, <1>2, <1>3, PostsPosted

LEMMA WorkerWaits ==
  ASSUME TypesOK, NEW s \in Streams, Listening(s), Worker
  PROVE  Listening(s)' /\ (Coming(s) => Coming(s)')
<1> USE PluginAssumption
<1>1. WiresOK /\ WorkerOK /\ plugin \in Plugins /\ worker \in Workers
  BY DEF TypesOK, NativeOK, WorkerOK
<1>2. plugin'.sink = plugin.sink /\ UNCHANGED <<toNative, toDart>>
  BY <1>1 DEF Worker, StartJob, InitModel, InitReturned, StreamInit, StreamNext, StreamEnd, Plugins
<1>3. Listening(s)' /\ (CallComing(s) => CallComing(s)')
  BY <1>2, SameCalls
<1>4. CASE StartJob
  <2> DEFINE job == Head(jobs)
  <2>1. /\ job \in Jobs /\ job = jobs[1]
        /\ \A k \in DOMAIN jobs : k # 1 => k - 1 \in DOMAIN jobs' /\ jobs'[k - 1] = jobs[k]
    BY <1>1, <1>4, Taking DEF StartJob, WorkerOK
  <2> HIDE DEF job
  <2>2. /\ worker.pc = "idle"
        /\ \/ job.op = "load" /\ posted' = posted
           \/ job.op = "generateStream" /\ worker' = [pc |-> "init", job |-> job] /\ posted' = posted
           \/ /\ job.op = "generate"
              /\ \/ Posts(Message("warm", job.who), None)
                 \/ Posts(Message("notWarm", job.who), None)
    BY <1>4 DEF StartJob, WorkerAt, job
  <2>3. ASSUME JobComing(s) PROVE JobComing(s)'
    <3>1. PICK k \in DOMAIN jobs : jobs[k] = Job(s)
      BY <2>2, <2>3 DEF JobComing, Generating
    <3>2. CASE k = 1
      <4>1. job = Job(s) /\ job.op = "generateStream"
        BY <2>1, <3>1, <3>2 DEF Job, Asking, Call
      <4>2. worker' = [pc |-> "init", job |-> Job(s)]
        BY <2>2, <4>1
      <4> QED
        BY <1>2, <2>3, <4>2 DEF JobComing, Generating, Job, Asking, Call
    <3>3. CASE k # 1
      <4>1. k - 1 \in DOMAIN jobs' /\ jobs'[k - 1] = Job(s)
        BY <2>1, <3>1, <3>3
      <4> QED
        BY ONLY <1>2, <2>3, <4>1 DEF JobComing, Job, Asking, Call
    <3> QED
      BY <3>2, <3>3
  <2>4. ASSUME EndComing(s) PROVE EndComing(s)'
    <3>1. job.op = "generate" =>
            Message("warm", job.who) \in Told /\ Message("notWarm", job.who) \in Told
      BY <2>1, MessageTyped DEF Answers, Jobs, Sent, Commands
    <3>2. posted' = posted \/ \E p \in Posted : posted' = Append(posted, p)
      BY <2>2, <3>1, PostsPosted
    <3> QED
      BY <1>2, <2>4, <3>2, EndKept
  <2> QED
    BY <1>3, <2>3, <2>4, WaysToCome
<1>5. CASE InitModel \/ InitReturned
  <2>1. ~Generating /\ jobs' = jobs /\ worker.job.who \in Selects
    BY <1>1, <1>5 DEF InitModel, InitReturned, WorkerAt, Generating, WorkerOK, Loading
  <2>2. JobComing(s) => JobComing(s)'
    BY <1>2, <2>1 DEF JobComing, Job, Asking, Call
  <2>3. EndComing(s) => EndComing(s)'
    <3>1. Message("loaded", worker.job.who) \in Told /\ Message("notLoaded", worker.job.who) \in Told
      BY <2>1, MessageTyped DEF Answers
    <3>2. posted' = posted \/ Posts(Message("loaded", worker.job.who), None)
          \/ Posts(Message("notLoaded", worker.job.who), None)
      BY <1>5 DEF InitModel, InitReturned
    <3>3. posted' = posted \/ \E p \in Posted : posted' = Append(posted, p)
      BY <3>1, <3>2, PostsPosted
    <3> QED
      BY <1>2, <3>3, EndKept
  <2> QED
    BY <1>3, <2>2, <2>3, WaysToCome
<1>6. CASE StreamInit \/ StreamNext
  <2>1. jobs' = jobs /\ Generating /\ worker.job.who \in Streams
    BY <1>1, <1>6 DEF StreamInit, StreamNext, WorkerAt, Generating, WorkerOK
  <2>2. worker'.job = worker.job /\ Generating'
    BY <1>1, <1>6 DEF StreamInit, StreamNext, WorkerAt, WorkerGoes, Generating, Workers
  <2>3. JobComing(s) => JobComing(s)'
    BY <1>2, <2>1, <2>2 DEF JobComing, Job, Asking, Call
  <2>4. EndComing(s) => EndComing(s)'
    <3>1. posted' = posted \/ Emits("token")
      BY <1>6 DEF StreamInit, StreamNext
    <3>2. posted' = posted \/ \E p \in Posted : posted' = Append(posted, p)
      BY <1>1, <2>1, <3>1, EmitsPosted
    <3> QED
      BY <1>2, <3>2, EndKept
  <2> QED
    BY <1>3, <2>3, <2>4, WaysToCome
<1>7. CASE StreamEnd
  <2>1. jobs' = jobs /\ plugin' = plugin /\ Generating /\ Emits("end")
    BY <1>7 DEF StreamEnd, WorkerAt, Generating
  <2>2. PICK p \in Posted : /\ posted' = Append(posted, p)
                            /\ p.message = Message("end", worker.job.who)
                            /\ p.sink \in {None, worker.job.sink}
    BY <1>1, <2>1, EmitsPosted
  <2>3. EndComing(s) => EndComing(s)'
    BY <1>2, <2>2, EndKept
  <2>4. ASSUME JobComing(s) PROVE JobComing(s)' \/ EndComing(s)'
    <3>1. CASE worker.job = Job(s)
      <4>1. plugin.sink = s /\ worker.job.sink = s
        BY <2>4, <3>1 DEF JobComing, Job, Asking, Call
      <4>2. p.message.op = "end" /\ Reaches(p, s)
        BY <2>2, <4>1 DEF Reaches, Message
      <4>3. NativeOK
        BY DEF TypesOK
      <4> QED
        BY <2>1, <2>2, <4>2, <4>3, EndIsPosted DEF EndComing
    <3>2. CASE worker.job # Job(s)
      BY <1>2, <2>1, <2>4, <3>2 DEF JobComing, Job, Asking, Call
    <3> QED
      BY <3>1, <3>2
  <2> QED
    BY <1>3, <2>3, <2>4, WaysToCome
<1> QED
  BY <1>4, <1>5, <1>6, <1>7 DEF Worker

LEMMA SessionWaits ==
  ASSUME TypesOK, NEW s \in Streams, Listening(s), NEW a \in Selects, Session(a)
  PROVE  Listening(s)' /\ (Coming(s) => Coming(s)')
<1>1. WiresOK /\ UNCHANGED <<posted, plugin, jobs, worker>>
  BY SessionWires DEF TypesOK, nativeVars
<1>2. Listening(s)' /\ (CallComing(s) => CallComing(s)')
  <2>1. ASSUME NEW c \in Sent, c.op \in Commands, Sends(c)
        PROVE  Listening(s)' /\ (CallComing(s) => CallComing(s)')
    BY <1>1, <2>1, OneMoreCall DEF Commands
  <2> QED
    BY <1>1, <2>1, SameCalls, SessionWires
<1>3. JobComing(s) => JobComing(s)'
  BY <1>1 DEF JobComing, Generating, Job, Asking, Call
<1>4. EndComing(s) => EndComing(s)'
  <2>1. \/ toDart' = toDart
        \/ /\ toDart # <<>> /\ toDart' = Tail(toDart)
           /\ Head(toDart).op # "end" /\ Head(toDart) # Message("refused", s)
    BY SessionWires DEF Answers, Message
  <2> QED
    BY <1>1, <2>1, EndKept
<1> QED
  BY <1>2, <1>3, <1>4, WaysToCome

LEMMA QuietStreams ==
  ASSUME StreamsOK, UNCHANGED <<handler, stream>>,
         \A s \in Streams : Listening(s) => Listening(s)' /\ (Coming(s) => Coming(s)')
  PROVE  StreamsOK'
BY DEF StreamsOK

LEMMA NowWaits ==
  ASSUME DartOK, NEW s \in Streams,
         NEW state \in {"ended", "left", "leaving", "open", "done", "failed", "cancelled"},
         Becomes(s, state)
  PROVE  /\ stream'[s].state = state /\ \A t \in Streams \ {s} : stream'[t] = stream[t]
BY DEF DartOK, Becomes, Generations

LEMMA GenerationStreams ==
  ASSUME TypesOK, StreamsOK, ~OverlapStreams, Generation
  PROVE  StreamsOK'
<1> USE PluginAssumption
<1>1. WiresOK /\ WorkerOK /\ DartOK
  BY DEF TypesOK
<1>2. /\ \A s, t \in Streams : stream[s].state \in Active /\ stream[t].state \in Active => s = t
      /\ handler # None => stream[handler].state \in {"delay", "leaving", "open"}
      /\ \A s \in Streams : stream[s].state \in {"delay", "open"} =>
           /\ handler = s /\ Listening(s)
           /\ stream[s].state = "open" => Coming(s)
      /\ handler \in Streams \cup {None}
  BY <1>1 DEF StreamsOK, DartOK
(* The one active generation, if it still is, is the only one.             *)
<1>3. ASSUME NEW s \in Streams, stream[s].state \in Active,
             \A t \in Streams \ {s} : stream'[t].state = stream[t].state,
             handler' # None => handler' = s /\ stream'[s].state \in {"delay", "leaving", "open"},
             stream'[s].state \in {"delay", "open"} =>
               /\ handler' = s /\ Listening(s)'
               /\ stream'[s].state = "open" => Coming(s)'
      PROVE  StreamsOK'
  <2>1. \A t \in Streams \ {s} : stream'[t].state \notin Active
    BY <1>2, <1>3
  <2>2. \A t \in Streams \ {s} : stream'[t].state \notin {"delay", "open"}
    BY <2>1 DEF Active
  <2> QED
    BY <1>3, <2>1, <2>2 DEF StreamsOK
<1>4. ASSUME NEW s \in Streams, NEW screen \in Screens, Start(s, screen) PROVE StreamsOK'
  <2>1. \A t \in Streams : stream[t].state \notin Active
    BY <1>4 DEF Start, Settled, Waiting, Open, Active
  <2>2. toNative = <<>>
    BY <1>4 DEF Start, Settled
  <2>3. CASE Begins(s, screen, "delay") /\ Listens(s)
    <3>1. stream'[s].state = "delay" /\ \A t \in Streams \ {s} : stream'[t] = stream[t]
      BY <1>1, <2>3 DEF Begins, DartOK
    <3>2. handler' = s /\ toNative' = <<Listen(s)>>
      BY <2>2, <2>3 DEF Listens, Sends, Listen
    <3>3. Listening(s)'
      <4>1. DOMAIN toNative' = {1} /\ toNative'[1] = Listen(s)
        BY <3>2
      <4>2. Listen(s).op = "listen"
        BY DEF Listen, Call
      <4>3. Listen(s)' = Listen(s)
        BY DEF Listen, Call
      <4> QED
        BY <4>1, <4>2, <4>3 DEF Listening
    <3> QED
      BY <2>1, <3>1, <3>2, <3>3 DEF StreamsOK, Active
  <2>4. CASE Begins(s, screen, "failed") /\ UNCHANGED handler
    <3>1. stream'[s].state = "failed" /\ \A t \in Streams \ {s} : stream'[t] = stream[t]
      BY <1>1, <2>4 DEF Begins, DartOK
    <3>2. handler = None
      BY <1>2, <2>1 DEF Active
    <3> QED
      BY <2>1, <2>4, <3>1, <3>2 DEF StreamsOK, Active
  <2> QED
    BY <1>4, <2>3, <2>4 DEF Start
<1>5. ASSUME NEW s \in Streams, Request(s) PROVE StreamsOK'
  <2>1. stream[s].state \in Active
    BY <1>5 DEF Request, Active
  <2>2. CASE stream[s].state = "delay"
    <3>1. stream'[s].state = "open" /\ \A t \in Streams \ {s} : stream'[t] = stream[t]
      BY <1>1, <1>5, <2>2, NowWaits DEF Request
    <3>2. Sends(Asking(s)) /\ handler' = s /\ Listening(s) /\ plugin' = plugin
      BY <1>2, <1>5, <2>2 DEF Request, Asking, nativeVars
    <3>3. Asking(s) \in Sent /\ Asking(s).op = "generateStream"
      BY CallTyped DEF Asking, Commands
    <3>4. Listening(s)' /\ CallComing(s)'
      BY <1>1, <3>2, <3>3, OneMoreCall
    <3> QED
      BY <1>3, <2>1, <3>1, <3>2, <3>4, WaysToCome
  <2>3. CASE stream[s].state # "delay"
    <3>1. stream'[s].state \in {"done", "cancelled"} /\ \A t \in Streams \ {s} : stream'[t] = stream[t]
      BY <1>1, <1>5, <2>3, NowWaits DEF Request
    <3>2. handler' = None
      BY <1>2, <1>5, <2>1, <2>3 DEF Request, Active
    <3> QED
      BY <1>3, <2>1, <3>1, <3>2
  <2> QED
    BY <2>2, <2>3
<1>6. ASSUME NEW s \in Streams, stream[s].state \in Active,
             NEW state \in {"ended", "left", "done", "failed", "cancelled"}, Unsubscribes(s, state)
      PROVE  StreamsOK'
  <2>1. stream'[s].state = state /\ (\A t \in Streams \ {s} : stream'[t] = stream[t]) /\ handler' = None
    BY <1>1, <1>6, NowWaits DEF Unsubscribes
  <2> QED
    BY <1>3, <1>6, <2>1
<1>7. ASSUME NEW s \in Streams, CancelStream(s) PROVE StreamsOK'
  <2>1. stream[s].state \in Active
    BY <1>7 DEF CancelStream, Waiting, Open, Active
  <2>2. CASE stream[s].state = "delay" /\ Becomes(s, "leaving") /\ UNCHANGED handler
    BY <1>1, <1>2, <1>3, <2>1, <2>2, NowWaits
  <2> QED
    BY <1>6, <1>7, <2>1, <2>2 DEF CancelStream
(* A message that leaves for another place than the waiting generation's.  *)
<1>8. ASSUME NEW s \in Streams, toDart # <<>>, toDart' = Tail(toDart),
             UNCHANGED <<toNative, nativeVars>>,
             Head(toDart).op # "end" /\ Head(toDart) # Message("refused", s)
      PROVE  Listening(s) => Listening(s)' /\ (Coming(s) => Coming(s)')
  <2>1. UNCHANGED <<posted, plugin, jobs, worker>>
    BY <1>8 DEF nativeVars
  <2>2. EndComing(s) => EndComing(s)'
    BY <1>8, <2>1, EndKept
  <2>3. JobComing(s) => JobComing(s)'
    BY <2>1 DEF JobComing, Generating, Job, Asking, Call
  <2> QED
    BY <1>8, <2>1, <2>2, <2>3, SameCalls, WaysToCome
<1>9. CASE Token
  <2>1. toDart # <<>> /\ toDart' = Tail(toDart) /\ Head(toDart).op = "token"
    BY <1>1, <1>9, ReceivesTyped DEF Token
  <2>2. \A s \in Streams : Listening(s) => Listening(s)' /\ (Coming(s) => Coming(s)')
    <3>1. \A s \in Streams : Head(toDart) # Message("refused", s)
      BY <2>1 DEF Message
    <3>2. UNCHANGED <<toNative, nativeVars>>
      BY <1>9 DEF Token
    <3> QED
      BY <1>8, <2>1, <3>1, <3>2
  <2>3. \A s \in Streams : stream'[s].state = stream[s].state
    BY <1>1, <1>9 DEF Token, DartOK, Generations
  <2>4. handler' = handler
    BY <1>9 DEF Token
  <2> QED
    BY <1>2, <2>2, <2>3, <2>4 DEF StreamsOK
<1>10. CASE End
  <2>1. CASE handler # None
    <3>1. \E state \in {"ended", "left", "done"} : Unsubscribes(handler, state)
      BY <1>10, <2>1 DEF End
    <3> QED
      BY <1>2, <1>6, <2>1, <3>1 DEF Active
  <2>2. CASE handler = None
    <3>1. \A s \in Streams : stream[s].state \notin {"delay", "open"}
      BY <1>2, <2>2
    <3> QED
      BY <1>2, <1>10, <2>2, <3>1 DEF End, StreamsOK
  <2> QED
    BY <2>1, <2>2
<1>11. CASE Refused
  <2> DEFINE t == Head(toDart).who
  <2>1. toDart # <<>> /\ toDart' = Tail(toDart) /\ Head(toDart).op = "refused" /\ t \in Streams
    <3>1. toDart # <<>> /\ toDart' = Tail(toDart) /\ Head(toDart) \in Told
          /\ Head(toDart).op = "refused"
      BY <1>1, <1>11, ReceivesTyped DEF Refused
    <3> QED
      BY <3>1 DEF Told, Answers
  <2>2. CASE stream[t].state = "open"
    BY <1>6, <1>11, <2>1, <2>2 DEF Refused, Active
  <2>3. CASE stream[t].state # "open"
    <3>1. UNCHANGED <<handler, stream, toNative, nativeVars>>
      BY <1>11, <2>3 DEF Refused
    <3>2. ASSUME NEW s \in Streams, stream[s].state = "open"
          PROVE  Listening(s) => Listening(s)' /\ (Coming(s) => Coming(s)')
      <4>1. Head(toDart) # Message("refused", s)
        BY <2>3, <3>2 DEF Message
      <4> QED
        BY <1>8, <2>1, <3>1, <4>1
    <3>3. ASSUME NEW s \in Streams PROVE Listening(s) => Listening(s)'
      BY <3>1, SameCalls DEF nativeVars
    <3> QED
      BY <1>2, <3>1, <3>2, <3>3 DEF StreamsOK
  <2> QED
    BY <2>2, <2>3
<1> QED
  BY <1>4, <1>5, <1>7, <1>9, <1>10, <1>11 DEF Generation

LEMMA StreamsStep ==
  ASSUME ~OverlapStreams, TypesOK, StreamsOK, [Next]_vars
  PROVE  StreamsOK'
<1>1. CASE Generation
  BY <1>1, GenerationStreams
<1>2. ASSUME NEW a \in Selects, Session(a) PROVE StreamsOK'
  BY <1>2, SessionWires, SessionWaits, QuietStreams
<1>3. CASE MainThread /\ UNCHANGED dartVars
  BY <1>3, MainWaits, QuietStreams DEF dartVars
<1>4. CASE Worker /\ UNCHANGED dartVars
  BY <1>4, WorkerWaits, QuietStreams DEF dartVars
<1>5. CASE UNCHANGED vars
  <2>1. UNCHANGED <<toNative, toDart, posted, plugin, jobs, worker, handler, stream>>
    BY <1>5 DEF vars, pluginVars, nativeVars, dartVars
  <2> QED
    BY <2>1 DEF StreamsOK, Listening, Coming, Reaches, Listen, Asking, Job, Call, Generating, Message
<1> QED
  BY <1>1, <1>2, <1>3, <1>4, <1>5, Steps

LEMMA StreamsStay ==
  ASSUME ~OverlapStreams
  PROVE  Spec => []StreamsOK
<1>1. Init => StreamsOK
  BY DEF Init, StreamsOK, Active
<1>2. TypesOK /\ StreamsOK /\ [Next]_vars => StreamsOK'
  BY StreamsStep
<1> QED
  BY <1>1, <1>2, SessionTypesKept, PTL DEF Spec

(* A generation asked for ends, whatever is cancelled, selected, deleted   *)
(* or refused on its way: once nothing is in flight, no screen waits.      *)
THEOREM EveryGenerationEnds ==
  ASSUME ~OverlapStreams
  PROVE  Spec => []GenerationsEnd
<1>1. ASSUME TypesOK, StreamsOK, AllIdle, NEW s \in Streams PROVE ~Waiting(s)
  <2>1. toNative = <<>> /\ toDart = <<>> /\ posted = <<>> /\ jobs = <<>> /\ ~Generating
    BY <1>1 DEF AllIdle, Settled, Generating
  <2>2. ~Coming(s)
    BY <2>1 DEF Coming
  <2>3. stream[s].state # "open"
    BY <1>1, <2>2 DEF StreamsOK
  <2> QED
    BY <1>1, <2>3 DEF AllIdle, Settled, Waiting, Open
<1>2. TypesOK /\ StreamsOK => GenerationsEnd
  BY <1>1 DEF GenerationsEnd
<1> QED
  BY <1>2, SessionTypesKept, StreamsStay, PTL
-----------------------------------------------------------------------------
(* While nothing is cancelled: the events on their way are of one          *)
(* generation, and its end is the last of them.                            *)

LEMMA Named ==
  ASSUME NEW s
  PROVE  /\ Message("token", s)' = Message("token", s) /\ Message("end", s)' = Message("end", s)
         /\ Message("refused", s)' = Message("refused", s)
         /\ Message("token", s).op = "token" /\ Message("end", s).op = "end"
         /\ Message("refused", s).op = "refused"
         /\ Message("end", s).who = s /\ Message("refused", s).who = s
BY DEF Message

LEMMA EventsTold ==
  ASSUME NEW n, NEW i, NEW m \in Told, Inserted(Wire, Wire', n, i, m), NEW s \in Streams
  PROVE  /\ m \notin Events /\ Without(Wire, Events) => Without(Wire', Events)
         /\ m \notin Events \/ m = Message("token", s) =>
              (TokensOnly(s) => TokensOnly(s)')
         /\ m \notin Events /\ EndedLast(s) => EndedLast(s)'
         /\ m \in {Message("end", s), Message("refused", s)} /\ TokensOnly(s)
              /\ (i = n + 1 \/ Without(Wire, Events)) => EndedLast(s)'
<1>1. /\ n \in Nat /\ i \in 1 .. n + 1 /\ DOMAIN Wire = 1 .. n /\ DOMAIN Wire' = 1 .. n + 1
      /\ Wire'[i] = m
      /\ \A k \in 1 .. n : (k < i => Wire'[k] = Wire[k]) /\ (i <= k => Wire'[k + 1] = Wire[k])
  BY DEF Inserted
<1>2. ASSUME NEW j \in DOMAIN Wire', j # i
      PROVE  \/ j \in DOMAIN Wire /\ j < i /\ Wire'[j] = Wire[j]
             \/ j - 1 \in DOMAIN Wire /\ i < j /\ Wire'[j] = Wire[j - 1]
  <2>1. CASE j < i
    BY <1>1, <2>1
  <2>2. CASE i < j
    <3>1. j - 1 \in 1 .. n /\ i <= j - 1 /\ (j - 1) + 1 = j
      BY <1>1, <2>2
    <3> QED
      BY <1>1, <2>2, <3>1
  <2> QED
    BY <1>1, <1>2, <2>1, <2>2
<1>3. m \notin Events /\ Without(Wire, Events) => Without(Wire', Events)
  BY InsertedKeeps
<1>4. ASSUME m \notin Events \/ m = Message("token", s), TokensOnly(s) PROVE TokensOnly(s)'
  BY <1>1, <1>2, <1>4, Named DEF TokensOnly
<1>5. ASSUME m \notin Events, EndedLast(s) PROVE EndedLast(s)'
  <2>1. PICK k \in DOMAIN Wire :
          /\ Wire[k] \in {Message("end", s), Message("refused", s)}
          /\ \A j \in DOMAIN Wire \ {k} :
               Wire[j] \in Events => j < k /\ Wire[j] = Message("token", s)
    BY <1>5 DEF EndedLast
  <2>2. CASE k < i
    <3>1. k \in DOMAIN Wire' /\ Wire'[k] = Wire[k]
      BY <1>1, <2>2
    <3>2. ASSUME NEW j \in DOMAIN Wire' \ {k}, Wire'[j] \in Events
          PROVE  j < k /\ Wire'[j] = Message("token", s)
      <4>1. j # i
        BY <1>1, <1>5, <3>2
      <4> QED
        BY <1>1, <1>2, <2>1, <2>2, <3>2, <4>1
    <3> QED
      BY <2>1, <3>1, <3>2, Named DEF EndedLast
  <2>3. CASE i <= k
    <3>1. k + 1 \in DOMAIN Wire' /\ Wire'[k + 1] = Wire[k]
      BY <1>1, <2>3
    <3>2. ASSUME NEW j \in DOMAIN Wire' \ {k + 1}, Wire'[j] \in Events
          PROVE  j < k + 1 /\ Wire'[j] = Message("token", s)
      <4>1. j # i
        BY <1>1, <1>5, <3>2
      <4> QED
        BY <1>1, <1>2, <2>1, <2>3, <3>2, <4>1
    <3> QED
      BY <2>1, <3>1, <3>2, Named DEF EndedLast
  <2> QED
    BY <1>1, <2>2, <2>3
<1>6. ASSUME m \in {Message("end", s), Message("refused", s)}, TokensOnly(s),
             i = n + 1 \/ Without(Wire, Events)
      PROVE  EndedLast(s)'
  <2>1. ASSUME NEW j \in DOMAIN Wire' \ {i}, Wire'[j] \in Events
        PROVE  j < i /\ Wire'[j] = Message("token", s)
    <3>1. CASE i = n + 1
      BY <1>1, <1>2, <1>6, <2>1, <3>1 DEF TokensOnly
    <3>2. CASE Without(Wire, Events)
      BY <1>2, <2>1, <3>2 DEF Without
    <3> QED
      BY <1>6, <3>1, <3>2
  <2>2. i \in DOMAIN Wire'
    BY <1>1
  <2> QED
    BY <1>1, <1>6, <2>1, <2>2, Named DEF EndedLast
<1> QED
  BY <1>3, <1>4, <1>5, <1>6

LEMMA EventsHeard ==
  ASSUME NEW n, NEW i, NEW h \in Told, Inserted(Wire', Wire, n, i, h), NEW s \in Streams
  PROVE  /\ Without(Wire, Events) => Without(Wire', Events) /\ h \notin Events
         /\ TokensOnly(s) => /\ TokensOnly(s)'
                             /\ h \in Events => h = Message("token", s)
         /\ EndedLast(s) /\ h.op \notin {"end", "refused"} =>
              /\ EndedLast(s)'
              /\ h \in Events => h = Message("token", s)
         /\ EndedLast(s) /\ h.op \in {"end", "refused"} =>
              /\ h.who = s
              /\ \A j \in DOMAIN Wire \ {i} : Wire[j] \in Events => Wire[j] = Message("token", s)
              /\ i = 1 => Without(Wire', Events)
<1>1. /\ n \in Nat /\ i \in 1 .. n + 1 /\ DOMAIN Wire' = 1 .. n /\ DOMAIN Wire = 1 .. n + 1
      /\ Wire[i] = h
      /\ \A k \in 1 .. n : (k < i => Wire[k] = Wire'[k]) /\ (i <= k => Wire[k + 1] = Wire'[k])
  BY DEF Inserted
<1>2. ASSUME NEW j \in DOMAIN Wire'
      PROVE  \/ j \in DOMAIN Wire /\ j < i /\ Wire[j] = Wire'[j]
             \/ j + 1 \in DOMAIN Wire /\ i <= j /\ Wire[j + 1] = Wire'[j]
  BY <1>1
<1>3. Without(Wire, Events) => Without(Wire', Events) /\ h \notin Events
  BY InsertedLeaves
<1>4. ASSUME TokensOnly(s)
      PROVE  TokensOnly(s)' /\ (h \in Events => h = Message("token", s))
  BY <1>1, <1>2, <1>4, Named DEF TokensOnly
<1>5. ASSUME EndedLast(s)
      PROVE  /\ h.op \notin {"end", "refused"} =>
                  EndedLast(s)' /\ (h \in Events => h = Message("token", s))
             /\ h.op \in {"end", "refused"} =>
                  /\ h.who = s
                  /\ \A j \in DOMAIN Wire \ {i} :
                       Wire[j] \in Events => Wire[j] = Message("token", s)
                  /\ i = 1 => Without(Wire', Events)
  <2>1. PICK k \in DOMAIN Wire :
          /\ Wire[k] \in {Message("end", s), Message("refused", s)}
          /\ \A j \in DOMAIN Wire \ {k} :
               Wire[j] \in Events => j < k /\ Wire[j] = Message("token", s)
    BY <1>5 DEF EndedLast
  <2>2. CASE k = i
    <3>1. h \in {Message("end", s), Message("refused", s)}
      BY <1>1, <2>1, <2>2
    <3>2. ASSUME i = 1 PROVE Without(Wire', Events)
      <4>1. ASSUME NEW j \in DOMAIN Wire' PROVE Wire'[j] \notin Events
        <5>1. j + 1 \in DOMAIN Wire \ {k} /\ ~(j + 1 < k) /\ Wire[j + 1] = Wire'[j]
          BY <1>1, <1>2, <2>2, <3>2
        <5> QED
          BY <2>1, <5>1
      <4> QED
        BY <4>1 DEF Without
    <3> QED
      BY <2>1, <2>2, <3>1, <3>2, Named
  <2>3. CASE k # i
    <3>1. h \in Events => h = Message("token", s)
      BY <1>1, <2>1, <2>3
    <3>2. h.op \notin {"end", "refused"}
      <4>1. h.op \in {"end", "refused"} => h \in Events
        BY DEF Told, Events, Answers
      <4> QED
        BY <3>1, <4>1, Named
    <3>3. CASE k < i
      <4>1. k \in DOMAIN Wire' /\ Wire'[k] \in {Message("end", s), Message("refused", s)}
        BY <1>1, <2>1, <3>3
      <4>2. ASSUME NEW j \in DOMAIN Wire' \ {k}, Wire'[j] \in Events
            PROVE  j < k /\ Wire'[j] = Message("token", s)
        <5>1. CASE j \in DOMAIN Wire /\ j < i /\ Wire[j] = Wire'[j]
          BY <2>1, <4>2, <5>1
        <5>2. CASE j + 1 \in DOMAIN Wire /\ i <= j /\ Wire[j + 1] = Wire'[j]
          <6>1. j + 1 # k /\ j \in Nat /\ k \in Nat
            BY <1>1, <3>3, <5>2
          <6> QED
            BY <2>1, <4>2, <5>2, <6>1
        <5> QED
          BY <1>2, <5>1, <5>2
      <4>3. EndedLast(s)'
        BY <4>1, <4>2, Named DEF EndedLast
      <4> QED
        BY <3>1, <3>2, <4>3
    <3>4. CASE i < k
      <4>1. /\ k - 1 \in DOMAIN Wire' /\ (k - 1) + 1 = k /\ i <= k - 1
            /\ Wire'[k - 1] \in {Message("end", s), Message("refused", s)}
        <5>1. k - 1 \in 1 .. n /\ (k - 1) + 1 = k /\ i <= k - 1
          BY <1>1, <3>4
        <5> QED
          BY <1>1, <2>1, <5>1
      <4>2. ASSUME NEW j \in DOMAIN Wire' \ {k - 1}, Wire'[j] \in Events
            PROVE  j < k - 1 /\ Wire'[j] = Message("token", s)
        <5>1. CASE j \in DOMAIN Wire /\ j < i /\ Wire[j] = Wire'[j]
          BY <1>1, <2>1, <3>4, <4>2, <5>1
        <5>2. CASE j + 1 \in DOMAIN Wire /\ i <= j /\ Wire[j + 1] = Wire'[j]
          <6>1. j + 1 # k /\ j \in Nat /\ k \in Nat
            BY <1>1, <4>2
          <6> QED
            BY <2>1, <4>2, <5>2, <6>1
        <5> QED
          BY <1>2, <5>1, <5>2
      <4>3. EndedLast(s)'
        BY <4>1, <4>2, Named DEF EndedLast
      <4> QED
        BY <3>1, <3>2, <4>3
    <3> QED
      BY <1>1, <2>3, <3>3, <3>4
  <2> QED
    BY <2>2, <2>3
<1> QED
  BY <1>3, <1>4, <1>5

(* The steps of others leave the generation, and its events, where it is.  *)
AsksStay(q, r) ==
  /\ Without(q, Asks) => Without(r, Asks)
  /\ \A s \in Streams : Only(q, Asks, Of(s)) => Only(r, Asks, Of(s))

EventsStay ==
  /\ Without(Wire, Events) => Without(Wire', Events)
  /\ \A s \in Streams : (TokensOnly(s) => TokensOnly(s)') /\ (EndedLast(s) => EndedLast(s)')

Besides ==
  /\ AsksStay(toNative, toNative') /\ AsksStay(jobs, jobs') /\ EventsStay
  /\ (Generating' <=> Generating) /\ (Generating => worker'.job = worker.job)

LEMMA AsksAppend ==
  ASSUME NEW T, NEW q \in Seq(T), NEW e \in T, e \notin Asks
  PROVE  AsksStay(q, Append(q, e))
BY WithoutAppend DEF AsksStay

LEMMA AsksTail ==
  ASSUME NEW T, NEW q \in Seq(T), q # <<>>, Head(q) \notin Asks
  PROVE  AsksStay(q, Tail(q))
<1>1. \A s \in Streams : Of(s) \subseteq Asks
  BY DEF Of
<1>2. Without(q, Asks) => Without(Tail(q), Asks)
  BY WithoutTail
<1>3. \A s \in Streams : Only(q, Asks, Of(s)) => Only(Tail(q), Asks, Of(s))
  BY <1>1, WithoutTail
<1> QED
  BY <1>2, <1>3 DEF AsksStay

LEMMA AsksSame == ASSUME NEW q, NEW r, r = q PROVE AsksStay(q, r)
BY DEF AsksStay

LEMMA EventsSame == ASSUME Wire' = Wire PROVE EventsStay
BY DEF EventsStay, TokensOnly, EndedLast, Message

LEMMA AnswersStay ==
  ASSUME NEW m \in Told, m.op \in Answers, Tells(m) \/ Hears(m)
  PROVE  EventsStay
<1>1. m \notin Events /\ m.op \notin {"end", "refused"}
  BY DEF Events, Answers
<1>2. ASSUME NEW n, NEW i, Inserted(Wire, Wire', n, i, m) PROVE EventsStay
  BY <1>1, <1>2, EventsTold, InsertedKeeps DEF EventsStay
<1>3. ASSUME NEW n, NEW i, Inserted(Wire', Wire, n, i, m) PROVE EventsStay
  <2>1. Without(Wire, Events) => Without(Wire', Events)
    BY <1>3, InsertedLeaves
  <2> QED
    BY <1>1, <1>3, <2>1, EventsHeard DEF EventsStay
<1> QED
  BY <1>2, <1>3 DEF Tells, Hears

LEMMA BesidesStays ==
  ASSUME OwnOK, Besides, UNCHANGED <<kept, stream>>
  PROVE  OwnOK'
<1>1. SUFFICES ASSUME Uncancelled'
      PROVE  /\ kept' = Nothing'
             /\ \A s \in Streams : /\ stream'[s].tokens \subseteq {s} /\ stream'[s].state # "ended"
                                   /\ stream'[s].state = "open" => OwnGeneration(s)'
             /\ (\A s \in Streams : stream'[s].state # "open") =>
                  Asked(FALSE, FALSE, FALSE, FALSE)'
  BY DEF OwnOK
<1>2. /\ kept = Nothing
      /\ \A s \in Streams : /\ stream[s].tokens \subseteq {s} /\ stream[s].state # "ended"
                            /\ stream[s].state = "open" => OwnGeneration(s)
      /\ (\A s \in Streams : stream[s].state # "open") => Asked(FALSE, FALSE, FALSE, FALSE)
  BY <1>1 DEF OwnOK, Uncancelled
<1>3. \A call, job, run, event \in BOOLEAN :
        Asked(call, job, run, event) => Asked(call, job, run, event)'
  BY DEF Asked, Besides, AsksStay, EventsStay
<1>4. ASSUME NEW s \in Streams, OwnGeneration(s) PROVE OwnGeneration(s)'
  <2>1. /\ Only(toNative, Asks, Of(s)) => Only(toNative', Asks, Of(s))
        /\ Only(jobs, Asks, Of(s)) => Only(jobs', Asks, Of(s))
        /\ Generating /\ worker.job.who = s => Generating' /\ worker'.job.who = s
        /\ TokensOnly(s) => TokensOnly(s)'
        /\ EndedLast(s) => EndedLast(s)'
    BY DEF Besides, AsksStay, EventsStay
  <2> QED
    BY <1>3, <1>4, <2>1 DEF OwnGeneration
<1> QED
  BY <1>2, <1>3, <1>4 DEF Nothing, Message

LEMMA SessionBesides ==
  ASSUME TypesOK, NEW a \in Selects, Session(a)
  PROVE  Besides
<1>1. WiresOK /\ UNCHANGED nativeVars
  BY SessionWires DEF TypesOK
<1>2. AsksStay(toNative, toNative')
  <2>1. ASSUME NEW c \in Sent, c.op \in Commands, Sends(c) PROVE AsksStay(toNative, toNative')
    <3>1. c \notin Asks
      BY <2>1 DEF Asks, Commands
    <3> QED
      BY <1>1, <2>1, <3>1, AsksAppend DEF WiresOK, Sends
  <2> QED
    BY <2>1, SessionWires, AsksSame
<1>3. EventsStay
  <2>1. posted' = posted /\ toDart \in Seq(Told)
    BY <1>1 DEF nativeVars, WiresOK
  <2>2. CASE toDart' = toDart
    BY <2>1, <2>2, WireSame, EventsSame
  <2>3. CASE toDart # <<>> /\ toDart' = Tail(toDart) /\ Head(toDart).op \in Answers
    <3>1. Head(toDart) \in Told
      BY <2>1, <2>3, Taking
    <3> QED
      BY <2>1, <2>3, <3>1, Hearing, AnswersStay
  <2> QED
    BY <2>2, <2>3, SessionWires
<1>4. AsksStay(jobs, jobs') /\ (Generating' <=> Generating) /\ worker' = worker
  BY <1>1, AsksSame DEF nativeVars, Generating
<1> QED
  BY <1>2, <1>3, <1>4 DEF Besides

LEMMA MainBesides ==
  ASSUME TypesOK, MainThread, ~GenerateStream, ~RunPosted
  PROVE  Besides
<1>1. WiresOK /\ WorkerOK /\ NativeOK
  BY DEF TypesOK
<1>2. worker' = worker /\ posted' = posted
  BY DEF MainThread, OnListen, OnCancel, Generate, LoadModel, UnloadModel, Unloaded
<1>3. CASE Unloaded
  <2>1. plugin.unloading \in Selects /\ Replies(Message("unloaded", plugin.unloading))
        /\ UNCHANGED <<toNative, jobs>>
    BY <1>1, <1>3 DEF Unloaded, NativeOK, Plugins, MainIsFree
  <2>2. Message("unloaded", plugin.unloading) \in Told
        /\ Message("unloaded", plugin.unloading).op \in Answers
    BY <2>1, MessageTyped DEF Answers
  <2>3. EventsStay
    BY <1>2, <2>1, <2>2, Telling, AnswersStay
  <2> QED
    BY <1>2, <2>1, <2>3, AsksSame DEF Besides, Generating
<1>4. CASE OnListen \/ OnCancel \/ Generate \/ LoadModel \/ UnloadModel
  <2> DEFINE call == Head(toNative)
  <2>1. PICK op \in {"listen", "cancel", "generate", "load", "unload"} : Takes(op)
    BY <1>4 DEF OnListen, OnCancel, Generate, LoadModel, UnloadModel
  <2>2. /\ toNative # <<>> /\ toNative' = Tail(toNative) /\ call \in Sent /\ call.op = op
    BY <1>1, <2>1, TakesTyped
  <2>3. call \notin Asks
    BY <2>1, <2>2 DEF Asks
  <2>4. AsksStay(toNative, toNative')
    BY <1>1, <2>2, <2>3, AsksTail DEF WiresOK
  <2>5. jobs' = jobs \/ (jobs' = Append(jobs, call) /\ call \in Jobs)
    BY <1>4, <2>2 DEF OnListen, OnCancel, Generate, LoadModel, UnloadModel, Jobs, Takes
  <2>6. \/ toDart' = toDart
        \/ /\ call.op \in Commands
           /\ Replies(Message("notWarm", call.who)) \/ Replies(Message("unloaded", call.who))
    BY <1>4 DEF OnListen, OnCancel, Generate, LoadModel, UnloadModel, Commands, Takes
  <2> HIDE DEF call
  <2>7. AsksStay(jobs, jobs')
    BY <1>1, <2>3, <2>5, AsksAppend, AsksSame DEF WorkerOK
  <2>8. EventsStay
    <3>1. call.op \in Commands =>
            /\ Message("notWarm", call.who) \in Told /\ Message("unloaded", call.who) \in Told
            /\ Message("notWarm", call.who).op \in Answers
            /\ Message("unloaded", call.who).op \in Answers
      BY <2>2, MessageTyped DEF Answers, Sent
    <3> QED
      BY <1>2, <2>6, <3>1, Telling, AnswersStay, WireSame, EventsSame
  <2> QED
    BY <1>2, <2>4, <2>7, <2>8 DEF Besides, Generating
<1> QED
  BY <1>3, <1>4 DEF MainThread

LEMMA WorkerBesides ==
  ASSUME TypesOK,
         \/ InitModel \/ InitReturned \/ StreamInit
         \/ StreamNext /\ posted' = posted
         \/ StartJob /\ Head(jobs).op # "generateStream"
  PROVE  Besides
<1>1. WiresOK /\ WorkerOK /\ worker \in Workers
  BY DEF TypesOK, WorkerOK
<1>2. UNCHANGED <<toNative, toDart>>
  BY DEF InitModel, InitReturned, StreamInit, StreamNext, StartJob
<1>3. CASE InitModel \/ InitReturned
  <2>1. jobs' = jobs /\ ~Generating /\ worker.job.who \in Selects
    BY <1>1, <1>3 DEF InitModel, InitReturned, WorkerAt, Generating, WorkerOK, Loading
  <2>2. ~Generating'
    BY <1>1, <1>3 DEF InitModel, InitReturned, WorkerGoes, Generating, Workers
  <2>3. EventsStay
    <3>1. ASSUME NEW op \in {"loaded", "notLoaded"}
          PROVE  Message(op, worker.job.who) \in Told /\ Message(op, worker.job.who).op \in Answers
      BY <2>1, MessageTyped DEF Answers
    <3>2. \/ posted' = posted
          \/ \E op \in {"loaded", "notLoaded"} : Posts(Message(op, worker.job.who), None)
      BY <1>3 DEF InitModel, InitReturned
    <3> QED
      BY <1>2, <3>1, <3>2, Telling, AnswersStay, WireSame, EventsSame
  <2> QED
    BY <1>2, <2>1, <2>2, <2>3, AsksSame DEF Besides
<1>4. CASE StreamInit \/ (StreamNext /\ posted' = posted)
  <2>1. jobs' = jobs /\ Generating /\ posted' = posted
    BY <1>4 DEF StreamInit, StreamNext, WorkerAt, Generating
  <2>2. Generating' /\ worker'.job = worker.job
    BY <1>1, <1>4 DEF StreamInit, StreamNext, WorkerAt, WorkerGoes, Generating, Workers
  <2> QED
    BY <1>2, <2>1, <2>2, AsksSame, WireSame, EventsSame DEF Besides
<1>5. CASE StartJob /\ Head(jobs).op # "generateStream"
  <2> DEFINE job == Head(jobs)
  <2>1. /\ jobs # <<>> /\ jobs' = Tail(jobs) /\ job \in Jobs
    BY <1>1, <1>5, Taking DEF StartJob, WorkerOK
  <2>2. job.op \in {"load", "generate"} /\ job.who \in Selects /\ job \notin Asks
    BY <1>5, <2>1 DEF Jobs, Sent, Commands, Asks
  <2>3. AsksStay(jobs, jobs')
    BY <1>1, <2>1, <2>2, AsksTail DEF WorkerOK
  <2> HIDE DEF job
  <2>4. /\ worker.pc = "idle"
        /\ worker' = worker \/ worker' = [pc |-> "load", job |-> job]
        /\ \/ posted' = posted
           \/ \E op \in {"warm", "notWarm"} : Posts(Message(op, job.who), None)
    BY <1>5, <2>2 DEF StartJob, WorkerAt, job
  <2>5. EventsStay
    <3>1. ASSUME NEW op \in {"warm", "notWarm"}
          PROVE  Message(op, job.who) \in Told /\ Message(op, job.who).op \in Answers
      BY <2>2, MessageTyped DEF Answers
    <3> QED
      BY <1>2, <2>4, <3>1, Telling, AnswersStay, WireSame, EventsSame
  <2>6. ~Generating /\ ~Generating'
    BY <2>4 DEF Generating
  <2> QED
    BY <1>2, <2>3, <2>5, <2>6, AsksSame DEF Besides
<1> QED
  BY <1>3, <1>4, <1>5

LEMMA OwnMoves ==
  ASSUME StreamsOK, OwnOK, UNCHANGED <<kept, stream>>,
         Uncancelled => \E s \in Streams : stream[s].state = "open" /\ OwnGeneration(s)'
  PROVE  OwnOK'
<1>1. SUFFICES ASSUME Uncancelled'
      PROVE  /\ kept' = Nothing'
             /\ \A s \in Streams : /\ stream'[s].tokens \subseteq {s} /\ stream'[s].state # "ended"
                                   /\ stream'[s].state = "open" => OwnGeneration(s)'
             /\ (\A s \in Streams : stream'[s].state # "open") =>
                  Asked(FALSE, FALSE, FALSE, FALSE)'
  BY DEF OwnOK
<1>2. Uncancelled
  BY <1>1 DEF Uncancelled
<1>3. PICK s \in Streams : stream[s].state = "open" /\ OwnGeneration(s)'
  BY <1>2
<1>4. \A t \in Streams : stream[t].state = "open" => t = s
  BY <1>3 DEF StreamsOK, Active
<1> QED
  BY <1>2, <1>3, <1>4 DEF OwnOK, Nothing, Message

LEMMA Whose ==
  ASSUME OwnOK, Uncancelled,
         ~Without(toNative, Asks) \/ ~Without(jobs, Asks) \/ Generating \/ ~Without(Wire, Events)
  PROVE  \E s \in Streams : stream[s].state = "open" /\ OwnGeneration(s)
<1>1. ~Asked(FALSE, FALSE, FALSE, FALSE)
  BY DEF Asked
<1>2. PICK s \in Streams : stream[s].state = "open"
  BY <1>1 DEF OwnOK
<1>3. OwnGeneration(s)
  <2>1. \A t \in Streams : stream[t].state = "open" => OwnGeneration(t)
    BY DEF OwnOK
  <2> QED
    BY <1>2, <2>1
<1> QED
  BY <1>2, <1>3

LEMMA MainOwn ==
  ASSUME TypesOK, StreamsOK, OwnOK, GenerateStream, UNCHANGED dartVars
  PROVE  OwnOK'
<1> DEFINE call == Head(toNative)
<1>1. WiresOK /\ WorkerOK /\ plugin \in Plugins
  BY DEF TypesOK, NativeOK
<1>2. /\ toNative # <<>> /\ toNative' = Tail(toNative) /\ call.op = "generateStream"
      /\ call \in Sent /\ call.who \in Streams /\ call \in Asks
  BY <1>1, TakesTyped DEF GenerateStream, Sent, Asks
<1>3. ~Without(toNative, Asks)
  BY <1>1, <1>2, Taking DEF WiresOK, Without
<1>4. ASSUME NEW s \in Streams, OwnGeneration(s) PROVE OwnGeneration(s)'
  <2>1. Asked(TRUE, FALSE, FALSE, FALSE) /\ Only(toNative, Asks, Of(s))
    BY <1>3, <1>4 DEF OwnGeneration, Asked
  <2>2. call \in Of(s) /\ Without(toNative', Asks)
    <3>1. Of(s) \subseteq Asks
      BY DEF Of
    <3> QED
      BY <1>1, <1>2, <2>1, <3>1, WithoutTail DEF WiresOK
  <2>3. call.who = s
    BY <2>2 DEF Of
  <2>4. Without(jobs, Asks) /\ ~Generating /\ Without(Wire, Events)
    BY <2>1 DEF Asked
  <2>5. worker' = worker /\ ~Generating' /\ posted' = posted
    BY <2>4 DEF GenerateStream, Generating
  <2>6. CASE jobs' = Append(jobs, [call EXCEPT !.sink = plugin.sink]) /\ toDart' = toDart
    <3>1. [call EXCEPT !.sink = plugin.sink] \in Jobs /\ [call EXCEPT !.sink = plugin.sink] \in Of(s)
      BY <1>1, <1>2, <2>3 DEF Jobs, Sent, Calls, Plugins, Of, Asks
    <3>2. Only(jobs', Asks, Of(s))
      BY <1>1, <2>4, <2>6, <3>1, WithoutAppend DEF WorkerOK
    <3> QED
      BY <2>2, <2>4, <2>5, <2>6, <3>2, WireSame DEF OwnGeneration, Asked
  <2>7. CASE jobs' = jobs /\ Replies(Message("refused", call.who))
    <3>1. Message("refused", s) \in Told
      BY MessageTyped
    <3>2. TokensOnly(s)
      BY <2>4 DEF TokensOnly, Without
    <3>3. EndedLast(s)'
      BY <2>3, <2>4, <2>5, <2>7, <3>1, <3>2, RepliesTold, EventsTold
    <3> QED
      BY <2>2, <2>4, <2>5, <2>7, <3>3 DEF OwnGeneration, Asked
  <2> QED
    BY <2>6, <2>7 DEF GenerateStream
<1> QED
  BY <1>3, <1>4, Whose, OwnMoves DEF dartVars

LEMMA WorkerOwn ==
  ASSUME TypesOK, StreamsOK, OwnOK,
         \/ StreamNext /\ posted' # posted
         \/ StreamEnd
         \/ StartJob /\ Head(jobs).op = "generateStream",
         UNCHANGED dartVars
  PROVE  OwnOK'
<1>1. WiresOK /\ WorkerOK /\ worker \in Workers /\ plugin \in Plugins
  BY DEF TypesOK, WorkerOK, NativeOK
<1>2. UNCHANGED <<toNative, toDart>>
  BY DEF StreamNext, StreamEnd, StartJob
(* What the worker posts is behind all that is on its way.                 *)
<1> DEFINE Last(m) == Inserted(Wire, Wire', Length, Length + 1, m)
<1>6. ASSUME NEW op \in {"token", "end"}, Emits(op), Generating
      PROVE  Last(Message(op, worker.job.who))
  <2>1. Message(op, worker.job.who) \in Told
    BY <1>1, <1>6, MessageTyped DEF WorkerOK
  <2>2. worker.job.sink \in Streams \cup {None}
    BY <1>1 DEF Workers, Calls
  <2>3. \E sink \in Streams \cup {None} : Posts(Message(op, worker.job.who), sink)
    BY <1>6, <2>2 DEF Emits
  <2> QED
    BY <1>2, <2>1, <2>3, PostsTold
<1>3. CASE StreamNext /\ posted' # posted
  <2>1. /\ worker' = worker /\ jobs' = jobs /\ Generating /\ toNative' = toNative
        /\ Emits("token")
    BY <1>3 DEF StreamNext, WorkerAt, Generating
  <2>2. ASSUME NEW s \in Streams, OwnGeneration(s) PROVE OwnGeneration(s)'
    <3>1. Asked(FALSE, FALSE, TRUE, TRUE) /\ worker.job.who = s /\ TokensOnly(s)
      BY <2>1, <2>2 DEF OwnGeneration, Asked
    <3>2. Message("token", s) \in Told
      BY MessageTyped
    <3>3. TokensOnly(s)'
      BY <1>6, <2>1, <3>1, <3>2, EventsTold
    <3> QED
      BY <2>1, <3>1, <3>3 DEF OwnGeneration, Asked, Generating
  <2> QED
    BY <2>1, <2>2, Whose, OwnMoves DEF dartVars
<1>4. CASE StreamEnd
  <2>1. /\ jobs' = jobs /\ Generating /\ ~Generating' /\ toNative' = toNative /\ Emits("end")
        /\ plugin' = plugin
    BY <1>4 DEF StreamEnd, WorkerAt, Generating
  <2>2. ASSUME NEW s \in Streams, stream[s].state = "open", OwnGeneration(s) PROVE OwnGeneration(s)'
    <3>1. Asked(FALSE, FALSE, TRUE, TRUE) /\ worker.job.who = s /\ TokensOnly(s)
      BY <2>1, <2>2 DEF OwnGeneration, Asked
    <3>7. Message("end", s) \in Told
      BY MessageTyped
    <3>8. EndedLast(s)'
      BY <1>6, <2>1, <3>1, <3>7, EventsTold
    <3> QED
      BY <2>1, <3>1, <3>8 DEF OwnGeneration, Asked
  <2> QED
    BY <2>1, <2>2, Whose, OwnMoves DEF dartVars
<1>5. CASE StartJob /\ Head(jobs).op = "generateStream"
  <2> DEFINE job == Head(jobs)
  <2>1. /\ jobs # <<>> /\ jobs' = Tail(jobs) /\ job \in Jobs /\ jobs[1] = job /\ 1 \in DOMAIN jobs
    BY <1>1, <1>5, Taking DEF StartJob, WorkerOK
  <2>2. job \in Asks
    BY <1>5, <2>1 DEF Jobs, Sent, Asks
  <2>3. ~Without(jobs, Asks)
    BY <2>1, <2>2 DEF Without
  <2> HIDE DEF job
  <2>4. worker' = [pc |-> "init", job |-> job] /\ Wire' = Wire
    BY <1>2, <1>5, WireSame DEF StartJob, job
  <2>5. ASSUME NEW s \in Streams, OwnGeneration(s) PROVE OwnGeneration(s)'
    <3>1. Asked(FALSE, TRUE, FALSE, FALSE) /\ Only(jobs, Asks, Of(s))
      BY <2>3, <2>5 DEF OwnGeneration, Asked
    <3>2. job \in Of(s) /\ Without(jobs', Asks)
      <4>1. Of(s) \subseteq Asks
        BY DEF Of
      <4> QED
        BY <1>1, <2>1, <2>2, <3>1, <4>1, WithoutTail DEF WorkerOK, job
    <3>3. worker'.job.who = s /\ Generating'
      BY <2>4, <3>2 DEF Of, Generating
    <3>4. TokensOnly(s)'
      BY <2>4, <3>1 DEF TokensOnly, Asked, Without
    <3> QED
      BY <1>2, <2>4, <3>1, <3>2, <3>3, <3>4 DEF OwnGeneration, Asked
  <2> QED
    BY <2>3, <2>5, Whose, OwnMoves DEF dartVars
<1> QED
  BY <1>3, <1>4, <1>5

(* Only the events of a sink no longer in place are dropped, and the end   *)
(* of the generation that is open is not one of them.                      *)
LEMMA RunOwn ==
  ASSUME TypesOK, StreamsOK, OwnOK, RunPosted, UNCHANGED dartVars
  PROVE  OwnOK'
<1> DEFINE h == Head(posted).message
<1>1. UNCHANGED <<toNative, jobs, worker, kept, stream>>
  BY DEF RunPosted, dartVars
<1>2. CASE Wire' = Wire
  <2>1. Besides
    BY <1>1, <1>2, AsksSame, EventsSame DEF Besides, Generating
  <2> QED
    BY <1>1, <2>1, BesidesStays
<1>3. CASE /\ Inserted(Wire', Wire, Length - 1, Len(toDart) + 1, h)
           /\ Head(posted).sink \notin {None, plugin.sink}
  <2>1. posted # <<>> /\ posted \in Seq(Posted) /\ Head(posted) = posted[1] /\ 1 \in DOMAIN posted
        /\ Head(posted) \in Posted
    BY Taking DEF RunPosted, TypesOK, NativeOK
  <2>2. h \in Told /\ h.op \in {"token", "end"} /\ h \in Events
    BY <1>3, <2>1 DEF Posted, Told, Events, Answers
  <2>3. Len(toDart) + 1 \in DOMAIN Wire /\ Wire[Len(toDart) + 1] = h
    BY <1>3 DEF Inserted
  <2>4. ~Without(Wire, Events)
    BY <2>2, <2>3 DEF Without
  <2> HIDE DEF h
  <2>5. ASSUME NEW s \in Streams, stream[s].state = "open", OwnGeneration(s) PROVE OwnGeneration(s)'
    <3>1. \/ Asked(FALSE, FALSE, TRUE, TRUE) /\ Generating /\ worker.job.who = s /\ TokensOnly(s)
          \/ Asked(FALSE, FALSE, FALSE, TRUE) /\ EndedLast(s)
      BY <2>4, <2>5 DEF OwnGeneration, Asked
    <3>2. CASE Asked(FALSE, FALSE, TRUE, TRUE) /\ Generating /\ worker.job.who = s /\ TokensOnly(s)
      <4>1. TokensOnly(s)'
        BY <1>3, <2>2, <3>2, EventsHeard DEF h
      <4> QED
        BY <1>1, <3>2, <4>1 DEF OwnGeneration, Asked, Generating
    <3>3. CASE Asked(FALSE, FALSE, FALSE, TRUE) /\ EndedLast(s) /\ h.op = "token"
      <4>1. EndedLast(s)'
        BY <1>3, <2>2, <3>3, EventsHeard DEF h
      <4> QED
        BY <1>1, <3>3, <4>1 DEF OwnGeneration, Asked, Generating
    <3>4. CASE Asked(FALSE, FALSE, FALSE, TRUE) /\ EndedLast(s) /\ h.op = "end"
      <4>1. \A j \in DOMAIN Wire \ {Len(toDart) + 1} :
              Wire[j] \in Events => Wire[j] = Message("token", s)
        BY <1>3, <2>2, <3>4, EventsHeard DEF h
      <4>2. ASSUME NEW j \in DOMAIN Wire, j # Len(toDart) + 1,
                   Wire[j] = Message("refused", s) \/ Wire[j].op = "end"
            PROVE  FALSE
        <5>1. Wire[j] \in Told /\ Wire[j].op \in {"refused", "end"}
          BY <4>2, WireTyped DEF Message
        <5>2. Wire[j] \in Events
          BY <5>1 DEF Told, Events, Answers
        <5>3. Wire[j] = Message("token", s)
          BY <4>1, <4>2, <5>2
        <5> QED
          BY <5>1, <5>3, Named
      <4>3. toDart \in Seq(Told)
        BY DEF TypesOK, WiresOK
      <4>4. ~EndTold(s)
        <5>1. ASSUME NEW k \in DOMAIN toDart,
                     toDart[k] = Message("refused", s) \/ toDart[k].op = "end"
              PROVE  FALSE
          <6>1. k \in DOMAIN Wire /\ k # Len(toDart) + 1 /\ Wire[k] = toDart[k]
            BY <2>1, <4>3 DEF Wire, Length
          <6> QED
            BY <4>2, <5>1, <6>1
        <5> QED
          BY <5>1 DEF EndTold
      <4>5. ~EndPosted(s)
        <5>1. ASSUME NEW k \in DOMAIN posted, Reaches(posted[k], s), posted[k].message.op = "end"
              PROVE  FALSE
          <6>1. k # 1
            BY <1>3, <2>1, <5>1 DEF Reaches
          <6>2. k \in 1 .. Len(posted) /\ Len(posted) \in Nat /\ Len(toDart) \in Nat
            BY <2>1, <4>3
          <6>3. /\ Len(toDart) + k \in 1 .. Length /\ ~(Len(toDart) + k <= Len(toDart))
                /\ (Len(toDart) + k) - Len(toDart) = k /\ Len(toDart) + k # Len(toDart) + 1
            BY <6>1, <6>2 DEF Length
          <6>4. Len(toDart) + k \in DOMAIN Wire /\ Wire[Len(toDart) + k] = posted[k].message
            BY <6>3 DEF Wire
          <6> QED
            BY <4>2, <5>1, <6>3, <6>4
        <5> QED
          BY <5>1 DEF EndPosted
      <4>6. ~CallComing(s)
        <5>1. Asking(s) \in Asks
          BY CallTyped DEF Asking, Asks, Commands
        <5> QED
          BY <3>4, <5>1 DEF Asked, Without, CallComing
      <4>7. ~JobComing(s)
        <5>1. ASSUME NEW k \in DOMAIN jobs, jobs[k] = Job(s) PROVE FALSE
          <6>1. jobs[k] \in Calls /\ Job(s).op = "generateStream"
            BY DEF TypesOK, WorkerOK, Jobs, Sent, Job, Asking, Call
          <6>2. jobs[k] \in Asks
            BY <5>1, <6>1 DEF Asks
          <6> QED
            BY <3>4, <6>2 DEF Asked, Without
        <5> QED
          BY <3>4, <5>1 DEF JobComing, Asked
      <4>8. Coming(s)
        BY <2>5 DEF StreamsOK
      <4> QED
        BY <4>4, <4>5, <4>6, <4>7, <4>8, WaysToCome DEF EndComing
    <3> QED
      BY <2>2, <3>1, <3>2, <3>3, <3>4
  <2> QED
    BY <1>1, <2>4, <2>5, Whose, OwnMoves
<1> QED
  BY <1>2, <1>3, RunsPosted

(* What is cancelled stays so.                                             *)
LEMMA StaysCancelled ==
  ASSUME TypesOK, StreamsOK, Generation, Uncancelled'
  PROVE  Uncancelled
<1>1. DartOK /\ stream \in [Streams -> Generations]
  BY DEF TypesOK, DartOK
<1> DEFINE Gone(r) == r.state \in {"leaving", "left", "cancelled"}
<1> SUFFICES ASSUME NEW t \in Streams, Gone(stream[t]) PROVE Gone(stream'[t])
  BY DEF Uncancelled
<1>2. ASSUME NEW s \in Streams,
             NEW state \in {"ended", "left", "leaving", "open", "done", "failed", "cancelled"},
             Becomes(s, state), s = t => state \in {"left", "cancelled"}
      PROVE  Gone(stream'[t])
  BY <1>1, <1>2, NowWaits
<1>3. ASSUME NEW s \in Streams, NEW screen \in Screens, Start(s, screen) PROVE Gone(stream'[t])
  <2>1. s # t
    BY <1>3 DEF Start
  <2>2. \E r : stream' = [stream EXCEPT ![s] = r]
    BY <1>3 DEF Start, Begins
  <2> QED
    BY <1>1, <2>1, <2>2
<1>4. ASSUME NEW s \in Streams, CancelStream(s) PROVE Gone(stream'[t])
  <2>1. s = t => FALSE
    BY <1>4 DEF CancelStream, Waiting, Open
  <2> QED
    BY <1>2, <1>4, <2>1 DEF CancelStream, Unsubscribes
<1>5. ASSUME NEW s \in Streams, Request(s) PROVE Gone(stream'[t])
  BY <1>2, <1>5 DEF Request
<1>6. CASE Token
  BY <1>1, <1>6 DEF Token, Generations
<1>7. CASE End
  <2>1. CASE handler # None
    <3>1. handler \in Streams /\ stream[handler].state \in {"delay", "leaving", "open"}
      BY <1>1, <2>1 DEF StreamsOK, DartOK
    <3>2. \E state \in {"ended", "left", "done"} :
            /\ Becomes(handler, state)
            /\ stream[handler].state = "leaving" => state = "left"
      BY <1>7, <2>1 DEF End, Unsubscribes
    <3> QED
      BY <1>2, <3>1, <3>2
  <2>2. CASE handler = None
    BY <1>7, <2>2 DEF End
  <2> QED
    BY <2>1, <2>2
<1>8. CASE Refused
  <2> DEFINE s == Head(toDart).who
  <2>1. s \in Streams
    <3>1. Head(toDart) \in Told /\ Head(toDart).op = "refused"
      BY <1>8, ReceivesTyped DEF Refused, TypesOK
    <3> QED
      BY <3>1 DEF Told, Answers
  <2>2. CASE stream[s].state = "open" /\ Becomes(s, "failed")
    BY <1>2, <2>1, <2>2
  <2>3. CASE stream' = stream
    BY <2>3
  <2> QED
    BY <1>8, <2>2, <2>3 DEF Refused, Unsubscribes
<1> QED
  BY <1>3, <1>4, <1>5, <1>6, <1>7, <1>8 DEF Generation

LEMMA OwnStarts ==
  ASSUME ~OverlapStreams, TypesOK, StreamsOK, OwnOK, Uncancelled,
         NEW s \in Streams, NEW screen \in Screens, Start(s, screen)
  PROVE  OwnOK'
<1>1. WiresOK /\ DartOK /\ kept = Nothing /\ \A t \in Streams : stream[t].state # "open"
  <2>1. WiresOK /\ DartOK /\ kept = Nothing
    BY DEF TypesOK, OwnOK
  <2>2. ASSUME NEW t \in Streams, stream[t].state = "open" PROVE FALSE
    BY <2>2 DEF Start, Waiting, Open
  <2> QED
    BY <2>1, <2>2
<1>2. Asked(FALSE, FALSE, FALSE, FALSE)
  BY <1>1 DEF OwnOK
<1>3. kept' = Nothing /\ UNCHANGED <<toDart, posted, jobs, worker>>
  BY <1>1 DEF Start, Listens, nativeVars
<1>4. Without(toNative', Asks)
  <2>1. Listen(s) \in Sent /\ Listen(s).op = "listen"
    BY CallTyped DEF Listen, Commands
  <2>2. Listen(s) \notin Asks
    BY <2>1 DEF Asks
  <2>3. Sends(Listen(s)) \/ toNative' = toNative
    BY DEF Start, Listens, Listen
  <2>4. Without(toNative, Asks)
    BY <1>2 DEF Asked
  <2>5. CASE Sends(Listen(s))
    BY <1>1, <2>1, <2>2, <2>4, <2>5, WithoutAppend DEF WiresOK, Sends
  <2> QED
    BY <2>3, <2>4, <2>5
<1>5. /\ stream'[s].state \in {"delay", "failed"} /\ stream'[s].tokens = {}
      /\ \A t \in Streams \ {s} : stream'[t] = stream[t]
  BY <1>1 DEF Start, Begins, DartOK
<1>6. \A t \in Streams : /\ stream'[t].tokens \subseteq {t} /\ stream'[t].state # "ended"
                         /\ stream'[t].state # "open"
  <2>1. \A t \in Streams : stream[t].tokens \subseteq {t} /\ stream[t].state # "ended"
    BY DEF OwnOK
  <2> QED
    BY <1>1, <1>5, <2>1
<1>7. Asked(FALSE, FALSE, FALSE, FALSE)'
  BY <1>2, <1>3, <1>4, WireSame DEF Asked, Generating
<1> QED
  BY <1>3, <1>6, <1>7 DEF OwnOK, Nothing, Message

LEMMA OwnAsks ==
  ASSUME TypesOK, StreamsOK, OwnOK, Uncancelled, NEW s \in Streams, Request(s)
  PROVE  OwnOK'
<1>1. WiresOK /\ DartOK /\ kept = Nothing
  BY DEF TypesOK, OwnOK
<1>2. stream[s].state = "delay"
  BY DEF Request, Uncancelled, OwnOK
<1>3. \A t \in Streams : stream[t].state # "open"
  BY <1>2 DEF StreamsOK, Active
<1>4. Asked(FALSE, FALSE, FALSE, FALSE)
  BY <1>3 DEF OwnOK
<1>5. /\ Becomes(s, "open") /\ Sends(Asking(s))
      /\ UNCHANGED <<kept, toDart, posted, jobs, worker>>
  BY <1>2 DEF Request, Asking, nativeVars
<1>6. stream'[s].state = "open" /\ \A t \in Streams \ {s} : stream'[t] = stream[t]
  BY <1>1, <1>5, NowWaits
<1>7. stream'[s].tokens = stream[s].tokens
  BY <1>1, <1>5 DEF Becomes, DartOK, Generations
<1>8. Only(toNative', Asks, Of(s))
  <2>1. Asking(s) \in Sent /\ Asking(s) \in Of(s)
    BY CallTyped DEF Asking, Commands, Asks, Of
  <2> QED
    BY <1>1, <1>4, <1>5, <2>1, WithoutAppend DEF WiresOK, Sends, Asked
<1>9. OwnGeneration(s)'
  BY <1>4, <1>5, <1>8, WireSame DEF OwnGeneration, Asked, Generating
<1>10. \A t \in Streams : /\ stream'[t].tokens \subseteq {t} /\ stream'[t].state # "ended"
                          /\ stream'[t].state = "open" => OwnGeneration(t)'
  <2>1. \A t \in Streams : stream[t].tokens \subseteq {t} /\ stream[t].state # "ended"
    BY DEF OwnOK
  <2>2. \A t \in Streams : stream'[t].state = "open" => t = s
    BY <1>3, <1>6
  <2> QED
    BY <1>6, <1>7, <1>9, <2>1, <2>2
<1> QED
  BY <1>1, <1>5, <1>6, <1>10 DEF OwnOK, Nothing, Message

(* A token goes to the one that is open, and is its own.                   *)
LEMMA OwnToken ==
  ASSUME TypesOK, StreamsOK, OwnOK, Uncancelled, Token
  PROVE  OwnOK'
<1>1. WiresOK /\ DartOK /\ kept = Nothing
  BY DEF TypesOK, OwnOK
<1>2. /\ toDart # <<>> /\ toDart' = Tail(toDart) /\ Head(toDart) \in Told
      /\ Head(toDart).op = "token" /\ posted' = posted
  BY <1>1, ReceivesTyped DEF Token, nativeVars
<1>3. Head(toDart) \in Events /\ ~Without(Wire, Events)
  <2>1. Head(toDart) \in Events
    BY <1>2 DEF Told, Events, Answers
  <2> QED
    BY <1>2, <2>1, ReceivesHeard, InsertedThere
<1>4. PICK s \in Streams : stream[s].state = "open" /\ OwnGeneration(s)
  BY <1>3, Whose
<1>5. handler = s
  BY <1>4 DEF StreamsOK
<1>6. /\ stream' = [stream EXCEPT ![s].tokens = @ \cup {Head(toDart).who}]
      /\ kept' = kept /\ UNCHANGED <<toNative, jobs, worker>>
  <2>1. s # None
    BY PluginAssumption
  <2> QED
    BY <1>5, <2>1 DEF Token, nativeVars
<1>7. Head(toDart) = Message("token", s) /\ OwnGeneration(s)'
  <2>1. \/ Asked(FALSE, FALSE, TRUE, TRUE) /\ Generating /\ worker.job.who = s /\ TokensOnly(s)
        \/ Asked(FALSE, FALSE, FALSE, TRUE) /\ EndedLast(s)
    BY <1>3, <1>4 DEF OwnGeneration, Asked
  <2>2. CASE Asked(FALSE, FALSE, TRUE, TRUE) /\ Generating /\ worker.job.who = s /\ TokensOnly(s)
    <3>1. TokensOnly(s)' /\ Head(toDart) = Message("token", s)
      BY <1>2, <1>3, <2>2, ReceivesHeard, EventsHeard
    <3> QED
      BY <1>6, <2>2, <3>1 DEF OwnGeneration, Asked, Generating
  <2>3. CASE Asked(FALSE, FALSE, FALSE, TRUE) /\ EndedLast(s)
    <3>1. EndedLast(s)' /\ Head(toDart) = Message("token", s)
      BY <1>2, <1>3, <2>3, ReceivesHeard, EventsHeard
    <3> QED
      BY <1>6, <2>3, <3>1 DEF OwnGeneration, Asked, Generating
  <2> QED
    BY <2>1, <2>2, <2>3
<1>8. /\ stream'[s].tokens = stream[s].tokens \cup {s} /\ stream'[s].state = stream[s].state
      /\ \A t \in Streams \ {s} : stream'[t] = stream[t]
  BY <1>1, <1>6, <1>7 DEF DartOK, Generations, Message
<1>9. \A t \in Streams : /\ stream'[t].tokens \subseteq {t} /\ stream'[t].state # "ended"
                         /\ stream'[t].state = "open" => OwnGeneration(t)'
  <2>1. \A t \in Streams : stream[t].tokens \subseteq {t} /\ stream[t].state # "ended"
    BY DEF OwnOK
  <2>2. \A t \in Streams : stream[t].state = "open" => t = s
    BY <1>4 DEF StreamsOK, Active
  <2> QED
    BY <1>7, <1>8, <2>1, <2>2
<1> QED
  BY <1>1, <1>4, <1>6, <1>8, <1>9 DEF OwnOK, Nothing, Message

(* The end of the one that is open is the last of its events.              *)
LEMMA OwnEnd ==
  ASSUME TypesOK, StreamsOK, OwnOK, Uncancelled, End \/ Refused
  PROVE  OwnOK'
<1>1. WiresOK /\ DartOK /\ kept = Nothing
  BY DEF TypesOK, OwnOK
<1>2. PICK op \in {"end", "refused"} : Receives(op)
  BY DEF End, Refused
<1>3. /\ toDart # <<>> /\ toDart' = Tail(toDart) /\ Head(toDart) \in Told
      /\ Head(toDart).op \in {"end", "refused"} /\ posted' = posted
  BY <1>1, <1>2, ReceivesTyped DEF End, Refused, nativeVars
<1>4. Head(toDart) \in Events /\ ~Without(Wire, Events)
  <2>1. Head(toDart) \in Events
    BY <1>3 DEF Told, Events, Answers
  <2> QED
    BY <1>3, <2>1, ReceivesHeard, InsertedThere
<1>5. PICK s \in Streams : stream[s].state = "open" /\ OwnGeneration(s)
  BY <1>4, Whose
<1>6. Asked(FALSE, FALSE, FALSE, TRUE) /\ EndedLast(s)
  <2>1. ASSUME TokensOnly(s) PROVE FALSE
    <3>1. Head(toDart) = Message("token", s)
      BY <1>3, <1>4, <2>1, ReceivesHeard, EventsHeard
    <3> QED
      BY <1>3, <3>1 DEF Message
  <2> QED
    BY <1>4, <1>5, <2>1 DEF OwnGeneration, Asked
<1>7. Head(toDart).who = s /\ Without(Wire', Events)
  BY <1>3, <1>6, ReceivesHeard, EventsHeard
<1>8. handler = s /\ s # None
  BY <1>5, PluginAssumption DEF StreamsOK
<1>9. kept' = kept /\ jobs' = jobs /\ worker' = worker
  BY <1>8 DEF End, Refused, nativeVars
<1>10. \E state \in {"done", "failed"} : Unsubscribes(s, state)
  <2>1. CASE End
    BY <1>5, <1>8, <2>1 DEF End
  <2>2. CASE Refused
    BY <1>5, <1>7, <2>2 DEF Refused
  <2> QED
    BY <2>1, <2>2
<1>11. PICK state \in {"done", "failed"} : Unsubscribes(s, state)
  BY <1>10
<1>12. Without(toNative', Asks)
  <2>1. Call("cancel", None, None) \in Sent /\ Call("cancel", None, None) \notin Asks
    BY CallTyped DEF Asks, Commands
  <2> QED
    BY <1>1, <1>6, <1>11, <2>1, WithoutAppend DEF WiresOK, Unsubscribes, Sends, Asked
<1>13. Asked(FALSE, FALSE, FALSE, FALSE)'
  BY <1>6, <1>7, <1>9, <1>12 DEF Asked, Generating
<1>14. stream'[s].state = state /\ \A t \in Streams \ {s} : stream'[t] = stream[t]
  BY <1>1, <1>11, NowWaits DEF Unsubscribes
<1>15. stream'[s].tokens = stream[s].tokens
  BY <1>1, <1>11 DEF Unsubscribes, Becomes, DartOK, Generations
<1>16. \A t \in Streams : /\ stream'[t].tokens \subseteq {t} /\ stream'[t].state # "ended"
                          /\ stream'[t].state # "open"
  <2>1. \A t \in Streams : stream[t].tokens \subseteq {t} /\ stream[t].state # "ended"
    BY DEF OwnOK
  <2>2. \A t \in Streams : stream[t].state = "open" => t = s
    BY <1>5 DEF StreamsOK, Active
  <2> QED
    BY <1>14, <1>15, <2>1, <2>2
<1> QED
  BY <1>1, <1>9, <1>13, <1>16 DEF OwnOK, Nothing, Message

LEMMA OwnStep ==
  ASSUME ~OverlapStreams, TypesOK, StreamsOK, OwnOK, [Next]_vars
  PROVE  OwnOK'
<1>1. CASE Generation
  <2>1. CASE ~Uncancelled'
    BY <2>1 DEF OwnOK
  <2>2. CASE Uncancelled'
    <3>1. Uncancelled
      BY <1>1, <2>2, StaysCancelled
    <3>2. ASSUME NEW s \in Streams, CancelStream(s) PROVE FALSE
      <4>1. \E state \in {"leaving", "cancelled"} : Becomes(s, state)
        BY <3>2 DEF CancelStream, Unsubscribes
      <4> QED
        BY <2>2, <4>1, NowWaits DEF TypesOK, Uncancelled
    <3> QED
      BY <1>1, <3>1, <3>2, OwnStarts, OwnAsks, OwnToken, OwnEnd DEF Generation
  <2> QED
    BY <2>1, <2>2
<1>2. ASSUME NEW a \in Selects, Session(a) PROVE OwnOK'
  BY <1>2, SessionWires, SessionBesides, BesidesStays
<1>3. CASE MainThread /\ UNCHANGED dartVars
  <2>1. CASE GenerateStream
    BY <1>3, <2>1, MainOwn
  <2>2. CASE RunPosted
    BY <1>3, <2>2, RunOwn
  <2>3. CASE ~GenerateStream /\ ~RunPosted
    BY <1>3, <2>3, MainBesides, BesidesStays DEF dartVars
  <2> QED
    BY <2>1, <2>2, <2>3
<1>4. CASE Worker /\ UNCHANGED dartVars
  <2> DEFINE Aimed == \/ StreamNext /\ posted' # posted
                      \/ StreamEnd
                      \/ StartJob /\ Head(jobs).op = "generateStream"
  <2>1. CASE Aimed
    BY <1>4, <2>1, WorkerOwn
  <2>2. CASE ~Aimed
    BY <1>4, <2>2, WorkerBesides, BesidesStays DEF Worker, dartVars
  <2> QED
    BY <2>1, <2>2
<1>5. CASE UNCHANGED vars
  <2>1. UNCHANGED <<toNative, toDart, posted, plugin, jobs, worker, kept, stream>>
    BY <1>5 DEF vars, pluginVars, nativeVars, dartVars
  <2>2. Besides
    BY <2>1, AsksSame, WireSame, EventsSame DEF Besides, Generating
  <2> QED
    BY <2>1, <2>2, BesidesStays
<1> QED
  BY <1>1, <1>2, <1>3, <1>4, <1>5, Steps

(* While nothing has been cancelled, one generation at a time, a screen is *)
(* given tokens of its own generation only, whatever is selected or        *)
(* deleted while it generates, although events carry no address.           *)
THEOREM OwnTokensOnly ==
  ASSUME ~OverlapStreams
  PROVE  Spec => []OwnTokensUncancelled
<1>1. Init => OwnOK
  <2> SUFFICES ASSUME Init PROVE OwnOK
    OBVIOUS
  <2>1. Without(Wire, Events)
    BY EmptyWire DEF Init, PluginInit
  <2> QED
    BY <2>1 DEF Init, PluginInit, OwnOK, Asked, Without, Generating
<1>2. TypesOK /\ StreamsOK /\ OwnOK /\ [Next]_vars => OwnOK'
  BY OwnStep
<1>3. OwnOK => OwnTokensUncancelled
  BY DEF OwnOK, Uncancelled, OwnTokensUncancelled
<1> QED
  BY <1>1, <1>2, <1>3, SessionTypesKept, StreamsStay, PTL DEF Spec
-----------------------------------------------------------------------------
(* One selection at a time has one command on its way, or none.            *)
Orders   == {c \in Calls : c.op \in Commands}
Replying == {m \in Messages : m.op \in Answers}

Dispatched(call, job, load, unload, reply) ==
  /\ ~call => Without(toNative, Orders)
  /\ ~job => Without(jobs, Orders)
  /\ ~load => ~Loading
  /\ ~unload => plugin.unloading = None
  /\ ~reply => Without(Wire, Replying)

Nowhere   == Dispatched(FALSE, FALSE, FALSE, FALSE, FALSE)
IsCall(c) == Dispatched(TRUE, FALSE, FALSE, FALSE, FALSE) /\ Only(toNative, Orders, {c})
IsJob(c)  == Dispatched(FALSE, TRUE, FALSE, FALSE, FALSE) /\ Only(jobs, Orders, {c})
IsLoading(c) == Dispatched(FALSE, FALSE, TRUE, FALSE, FALSE) /\ Loading /\ worker.job = c
IsUnloading(a) == Dispatched(FALSE, FALSE, FALSE, TRUE, FALSE) /\ plugin.unloading = a
IsReply(op, a) ==
  Dispatched(FALSE, FALSE, FALSE, FALSE, TRUE) /\ Only(Wire, Replying, {Message(op, a)})

Holds(path) == bridge.model = path /\ plugin.modelLoaded
Empty       == bridge.model = None /\ ~plugin.modelLoaded
LoadedIs(llama, engine) == loaded.llama = llama /\ loaded.engine = engine

Agrees ==
  /\ LoadedIs(loaded.engine, loaded.engine)
  /\ IF loaded.engine THEN Holds(session.path) ELSE Empty

Unloads(a) ==
  \/ IsCall(Call("unload", a, None)) /\ (plugin.modelLoaded \/ Empty)
  \/ IsUnloading(a) /\ bridge.model = None
  \/ IsReply("unloaded", a) /\ Empty

Loads(a, path) ==
  \/ (IsCall(Call("load", a, path)) \/ IsJob(Call("load", a, path))) /\ Empty
  \/ /\ IsLoading(Call("load", a, path)) /\ ~plugin.modelLoaded
     /\ bridge.model = IF worker.pc = "loaded" THEN path ELSE None
  \/ IsReply("loaded", a) /\ Holds(path)
  \/ IsReply("notLoaded", a) /\ Empty

Warms(a, path) ==
  /\ Holds(path)
  /\ \/ IsCall(Call("generate", a, None)) \/ IsJob(Call("generate", a, None))
     \/ IsReply("warm", a) \/ IsReply("notWarm", a)

(* Where a selection or deletion is tells what it has done.                *)
Stands(a, pc, path) ==
  /\ pc \in {"disposing", "loading", "warming", "dropping", "saving"} =>
       select[a].path = path
  /\ pc \in {"reading", "forgetting", "forgotten"} => Nowhere /\ Agrees /\ ~loaded.engine
  /\ pc \in {"disposing", "clearing"} => Unloads(a)
  /\ pc = "loading" => Loads(a, path) /\ LoadedIs(FALSE, FALSE)
  /\ pc = "warming" => Warms(a, path) /\ LoadedIs(TRUE, FALSE)
  /\ pc = "dropping" => Unloads(a) /\ ~loaded.engine
  /\ pc = "saving" => Nowhere /\ Agrees /\ loaded.engine
  /\ pc = "reading" => ~session.loading

Selecting(a) ==
  \E path \in Paths \cup {None} : path = session.path /\ Stands(a, select[a].pc, path)

SelectsOK ==
  /\ \A a, b \in Selects : select[a].pc # "idle" /\ select[b].pc # "idle" => a = b
  /\ \A a \in Selects : Selecting(a)
  /\ (\A a \in Selects : select[a].pc = "idle") =>
       /\ Nowhere /\ Agrees /\ ~session.loading
       /\ loaded.engine /\ ~session.failed => saved = session.path
  /\ selects = 0 => ~loaded.engine /\ \A a \in Selects : select[a].pc = "idle"

-----------------------------------------------------------------------------
(* One selection at a time: the steps of others leave its command, or its  *)
(* reply, where it is.                                                     *)

Keeps(q, r, S) ==
  /\ Without(q, S) => Without(r, S)
  /\ \A x \in S : Only(q, S, {x}) => Only(r, S, {x})

SameModels == bridge'.model = bridge.model /\ plugin'.modelLoaded = plugin.modelLoaded

Aside ==
  /\ SameModels /\ plugin'.unloading = plugin.unloading
  /\ (Loading' <=> Loading) /\ (Loading => worker' = worker)
  /\ Keeps(toNative, toNative', Orders) /\ Keeps(jobs, jobs', Orders)
  /\ Keeps(Wire, Wire', Replying)

LEMMA KeepsSame == ASSUME NEW q, NEW r, r = q, NEW S PROVE Keeps(q, r, S)
BY DEF Keeps

LEMMA KeepsAppend ==
  ASSUME NEW T, NEW q \in Seq(T), NEW e \in T, NEW S, e \notin S
  PROVE  Keeps(q, Append(q, e), S)
BY WithoutAppend DEF Keeps

LEMMA KeepsTail ==
  ASSUME NEW T, NEW q \in Seq(T), q # <<>>, NEW S, Head(q) \notin S
  PROVE  Keeps(q, Tail(q), S)
<1>1. \A x \in S : {x} \subseteq S
  OBVIOUS
<1>2. Without(q, S) => Without(Tail(q), S)
  BY WithoutTail
<1>3. \A x \in S : Only(q, S, {x}) => Only(Tail(q), S, {x})
  BY <1>1, WithoutTail
<1> QED
  BY <1>2, <1>3 DEF Keeps

LEMMA KeepsWire ==
  ASSUME NEW m, m \notin Replying, Tells(m) \/ Hears(m)
  PROVE  Keeps(Wire, Wire', Replying)
<1>1. ASSUME NEW n, NEW i, Inserted(Wire, Wire', n, i, m) PROVE Keeps(Wire, Wire', Replying)
  BY <1>1, InsertedKeeps DEF Keeps
<1>2. ASSUME NEW n, NEW i, Inserted(Wire', Wire, n, i, m) PROVE Keeps(Wire, Wire', Replying)
  <2>1. Without(Wire, Replying) => Without(Wire', Replying)
    BY <1>2, InsertedLeaves
  <2>2. ASSUME NEW x \in Replying, Only(Wire, Replying, {x}) PROVE Only(Wire', Replying, {x})
    <3>1. {x} \subseteq Replying
      OBVIOUS
    <3> QED
      BY <1>2, <2>2, <3>1, InsertedLeaves
  <2> QED
    BY <2>1, <2>2 DEF Keeps
<1> QED
  BY <1>1, <1>2 DEF Tells, Hears

LEMMA AsideStays ==
  ASSUME Aside
  PROVE  /\ Nowhere => Nowhere'
         /\ \A c : /\ c \in Orders /\ IsCall(c) => IsCall(c)'
                   /\ c \in Orders /\ IsJob(c) => IsJob(c)'
         /\ \A c : IsLoading(c) => IsLoading(c)' /\ worker' = worker
         /\ \A a : IsUnloading(a) => IsUnloading(a)'
         /\ \A op, a : Message(op, a) \in Replying /\ IsReply(op, a) => IsReply(op, a)'
<1>1. \A call, job, load, unload, reply \in BOOLEAN :
        Dispatched(call, job, load, unload, reply) => Dispatched(call, job, load, unload, reply)'
  BY DEF Aside, Keeps, Dispatched
<1>2. Nowhere => Nowhere'
  BY <1>1 DEF Nowhere
<1>3. ASSUME NEW c \in Orders PROVE (IsCall(c) => IsCall(c)') /\ (IsJob(c) => IsJob(c)')
  BY <1>1 DEF Aside, Keeps, IsCall, IsJob
<1>4. ASSUME NEW c, IsLoading(c) PROVE IsLoading(c)' /\ worker' = worker
  BY <1>1, <1>4 DEF Aside, IsLoading
<1>5. ASSUME NEW a, IsUnloading(a) PROVE IsUnloading(a)'
  BY <1>1, <1>5 DEF Aside, IsUnloading
<1>6. ASSUME NEW op, NEW a, Message(op, a) \in Replying, IsReply(op, a) PROVE IsReply(op, a)'
  BY <1>1, <1>6 DEF Aside, Keeps, IsReply, Message
<1> QED
  BY <1>2, <1>3, <1>4, <1>5, <1>6

(* Commands and replies, and what is neither.                              *)
LEMMA EventTold ==
  ASSUME NEW op, NEW who \in Streams, op \in {"token", "end", "refused"}
  PROVE  Message(op, who) \in Told /\ Message(op, who) \notin Replying
BY MessageTyped DEF Answers, Replying

LEMMA MainAside ==
  ASSUME TypesOK, OnListen \/ OnCancel \/ GenerateStream
  PROVE  Aside
<1>1. WiresOK /\ WorkerOK /\ plugin \in Plugins /\ bridge \in Bridges
  BY DEF TypesOK, NativeOK
<1>2. PICK op \in {"listen", "cancel", "generateStream"} : Takes(op)
  BY DEF OnListen, OnCancel, GenerateStream
<1>3. /\ toNative # <<>> /\ toNative' = Tail(toNative) /\ Head(toNative) \in Sent
      /\ Head(toNative).op = op
  BY <1>1, <1>2, TakesTyped
<1>4. Head(toNative) \notin Orders
  BY <1>2, <1>3 DEF Orders, Commands
<1>5. Keeps(toNative, toNative', Orders)
  BY <1>1, <1>3, <1>4, KeepsTail DEF WiresOK
<1>6. /\ SameModels /\ plugin'.unloading = plugin.unloading
      /\ worker' = worker /\ posted' = posted
  BY <1>1 DEF OnListen, OnCancel, Stopping, GenerateStream, SameModels, Plugins, Bridges
<1>7. Loading' <=> Loading
  BY <1>6 DEF Loading
<1>8. CASE UNCHANGED <<jobs, toDart>>
  BY <1>5, <1>6, <1>7, <1>8, WireSame, KeepsSame DEF Aside
<1>9. CASE GenerateStream
  <2> DEFINE call == Head(toNative)
             job  == [call EXCEPT !.sink = plugin.sink]
  <2>1. call \in Sent /\ call.op = "generateStream"
    BY <1>1, <1>9, TakesTyped DEF GenerateStream
  <2>2. call.who \in Streams /\ job \in Jobs /\ job \notin Orders
    BY <1>1, <2>1 DEF Sent, Jobs, Calls, Plugins, Orders, Commands
  <2>3. \/ jobs' = Append(jobs, job) /\ toDart' = toDart
        \/ jobs' = jobs /\ Replies(Message("refused", call.who))
    BY <1>9 DEF GenerateStream
  <2> HIDE DEF call, job
  <2>4. Keeps(jobs, jobs', Orders)
    BY <1>1, <2>2, <2>3, KeepsAppend, KeepsSame DEF WorkerOK
  <2>5. Keeps(Wire, Wire', Replying)
    BY <1>6, <2>2, <2>3, EventTold, Telling, KeepsWire, WireSame, KeepsSame
  <2> QED
    BY <1>5, <1>6, <1>7, <2>4, <2>5 DEF Aside
<1> QED
  BY <1>8, <1>9 DEF OnListen, OnCancel

LEMMA PostAside ==
  ASSUME TypesOK, RunPosted
  PROVE  Aside
<1>1. UNCHANGED <<toNative, plugin, jobs, worker, bridge>>
  BY DEF RunPosted
<1>2. Keeps(Wire, Wire', Replying)
  <2> DEFINE p == Head(posted)
  <2>1. p \in Posted
    BY Taking DEF RunPosted, TypesOK, NativeOK
  <2>2. p.sink # None => p.message \notin Replying
    BY <2>1 DEF Posted, Replying, Answers
  <2> HIDE DEF p
  <2>3. Wire' = Wire \/ (Hears(p.message) /\ p.sink # None)
    BY RunsPosted DEF Hears, p
  <2> QED
    BY <2>2, <2>3, KeepsSame, KeepsWire
<1> QED
  BY <1>1, <1>2, KeepsSame DEF Aside, SameModels, Loading

LEMMA WorkerAside ==
  ASSUME TypesOK,
         \/ StreamInit \/ StreamNext \/ StreamEnd
         \/ StartJob /\ Head(jobs) \notin Orders
  PROVE  Aside
<1>1. WiresOK /\ WorkerOK /\ plugin \in Plugins /\ bridge \in Bridges /\ worker \in Workers
  BY DEF TypesOK, NativeOK, WorkerOK
<1>2. CASE StreamInit \/ StreamNext \/ StreamEnd
  <2>1. /\ plugin' = plugin /\ bridge'.model = bridge.model /\ UNCHANGED <<jobs, toNative, toDart>>
    BY <1>1, <1>2 DEF StreamInit, StreamNext, StreamEnd, Bridges
  <2>2. ~Loading /\ ~Loading'
    <3>1. worker.pc \in {"init", "next", "end"}
      BY <1>2 DEF StreamInit, StreamNext, StreamEnd, WorkerAt
    <3>2. worker'.pc \in {"next", "end", "idle"}
      <4>1. CASE StreamInit
        BY <1>1, <4>1 DEF StreamInit, WorkerGoes, Workers
      <4>2. CASE StreamNext
        <5>1. worker.pc = "next" /\ (worker' = worker \/ WorkerGoes("end"))
          BY <4>2 DEF StreamNext, WorkerAt
        <5> QED
          BY <1>1, <5>1 DEF WorkerGoes, Workers
      <4>3. CASE StreamEnd
        BY <4>3 DEF StreamEnd
      <4> QED
        BY <1>2, <4>1, <4>2, <4>3
    <3> QED
      BY <3>1, <3>2 DEF Loading
  <2>3. worker.job.who \in Streams /\ worker.job.sink \in Streams \cup {None}
    BY <1>1, <1>2 DEF Workers, Calls, StreamInit, StreamNext, StreamEnd, WorkerAt, WorkerOK, Generating
  <2>4. posted' = posted \/ Emits("token") \/ Emits("end")
    BY <1>2 DEF StreamInit, StreamNext, StreamEnd
  <2>5. Keeps(Wire, Wire', Replying)
    <3>1. ASSUME NEW op \in {"token", "end"}, Emits(op) PROVE Keeps(Wire, Wire', Replying)
      <4>1. \E sink \in Streams \cup {None} : Posts(Message(op, worker.job.who), sink)
        BY <2>3, <3>1 DEF Emits
      <4>2. Message(op, worker.job.who) \in Told /\ Message(op, worker.job.who) \notin Replying
        BY <2>3, EventTold
      <4> QED
        BY <2>1, <4>1, <4>2, Telling, KeepsWire
    <3>2. CASE posted' = posted
      BY <2>1, <3>2, WireSame, KeepsSame
    <3> QED
      BY <2>4, <3>1, <3>2
  <2> QED
    BY <2>1, <2>2, <2>5, KeepsSame, Zenon DEF Aside, SameModels
<1>3. CASE StartJob /\ Head(jobs) \notin Orders
  <2>1. jobs # <<>> /\ jobs' = Tail(jobs) /\ Head(jobs) \in Jobs /\ worker.pc = "idle"
    BY <1>1, <1>3, Taking DEF StartJob, WorkerAt, WorkerOK
  <2>2. Head(jobs).op = "generateStream"
    BY <1>3, <2>1 DEF Jobs, Sent, Orders, Commands
  <2>3. /\ plugin' = [plugin EXCEPT !.shouldStop = FALSE]
        /\ worker' = [pc |-> "init", job |-> Head(jobs)]
        /\ UNCHANGED <<bridge, toDart, posted, toNative>>
    BY <1>3, <2>2 DEF StartJob
  <2>4. ~Loading /\ ~Loading'
    BY <2>1, <2>3 DEF Loading
  <2>5. Keeps(jobs, jobs', Orders)
    BY <1>1, <1>3, <2>1, KeepsTail DEF WorkerOK
  <2>6. plugin'.modelLoaded = plugin.modelLoaded /\ plugin'.unloading = plugin.unloading
    BY <1>1, <2>3 DEF Plugins
  <2> QED
    BY <2>3, <2>4, <2>5, <2>6, WireSame, KeepsSame, Zenon DEF Aside, SameModels
<1> QED
  BY <1>2, <1>3

LEMMA GenerationAside ==
  ASSUME TypesOK, Generation
  PROVE  Aside /\ UNCHANGED <<loaded, session, select, saved, selects>>
<1> USE PluginAssumption
<1>1. WiresOK /\ DartOK
  BY DEF TypesOK
<1>2. UNCHANGED <<loaded, session, select, saved, selects, nativeVars>>
  BY DEF Generation, Start, CancelStream, Request, Token, End, Refused
<1>3. /\ SameModels /\ plugin'.unloading = plugin.unloading /\ (Loading' <=> Loading)
      /\ worker' = worker /\ posted' = posted /\ Keeps(jobs, jobs', Orders)
  BY <1>2, KeepsSame DEF nativeVars, SameModels, Loading
<1> SUFFICES Keeps(toNative, toNative', Orders) /\ Keeps(Wire, Wire', Replying)
  BY <1>2, <1>3 DEF Aside
<1>4. ASSUME NEW c \in Sent, c \notin Orders
      PROVE  /\ Sends(c) => Keeps(toNative, toNative', Orders)
             /\ \A d \in Sent \ Orders :
                  toNative' = toNative \o <<c, d>> => Keeps(toNative, toNative', Orders)
  <2>1. Keeps(toNative, Append(toNative, c), Orders) /\ Append(toNative, c) \in Seq(Sent)
    BY <1>1, <1>4, KeepsAppend DEF WiresOK
  <2>2. ASSUME NEW d \in Sent \ Orders
        PROVE  Keeps(toNative, Append(Append(toNative, c), d), Orders)
    <3>1. Keeps(Append(toNative, c), Append(Append(toNative, c), d), Orders)
      BY <2>1, KeepsAppend
    <3> QED
      BY ONLY <2>1, <3>1 DEF Keeps
  <2>3. \A d \in Sent : toNative \o <<c, d>> = Append(Append(toNative, c), d)
    BY <1>1 DEF WiresOK
  <2> QED
    BY <2>1, <2>2, <2>3 DEF Sends
<1>5. ASSUME NEW s \in Streams
      PROVE  /\ Listen(s) \in Sent \ Orders /\ Asking(s) \in Sent \ Orders
  BY CallTyped DEF Listen, Asking, Commands, Orders
<1>6. Call("cancel", None, None) \in Sent \ Orders
  BY CallTyped DEF Commands, Orders
<1>7. ASSUME NEW op \in {"token", "end", "refused"}, Receives(op)
      PROVE  Keeps(Wire, Wire', Replying)
  <2>1. toDart # <<>> /\ toDart' = Tail(toDart) /\ Head(toDart).op = op
    BY <1>1, <1>7, ReceivesTyped
  <2>2. Head(toDart) \notin Replying
    BY <2>1 DEF Replying, Answers
  <2> QED
    BY <1>3, <2>1, <2>2, Hearing, KeepsWire
<1>8. ASSUME NEW s \in Streams, NEW screen \in Screens, Start(s, screen)
      PROVE  Keeps(toNative, toNative', Orders) /\ Keeps(Wire, Wire', Replying)
  <2>1. CASE Listens(s)
    <3>1. Keeps(toNative, toNative', Orders)
      BY <1>4, <1>5, <2>1 DEF Listens, Listen
    <3>2. toDart = <<>>
      BY <1>8 DEF Start, Settled
    <3>3. Keeps(Wire, Wire', Replying)
      <4>1. CASE kept = Nothing
        BY <1>3, <2>1, <4>1, WireSame, KeepsSame DEF Listens
      <4>2. CASE kept # Nothing
        <5>1. kept \in Told /\ kept \notin Replying
          BY <1>1, <4>2 DEF WiresOK, Replying, Answers
        <5>2. Replies(kept)
          BY <2>1, <3>2, <4>2 DEF Listens, Replies
        <5> QED
          BY <1>3, <5>1, <5>2, Telling, KeepsWire
      <4> QED
        BY <4>1, <4>2
    <3> QED
      BY <3>1, <3>3
  <2>2. CASE UNCHANGED <<toNative, toDart>>
    BY <1>3, <2>2, WireSame, KeepsSame
  <2> QED
    BY <1>8, <2>1, <2>2 DEF Start
<1>9. ASSUME NEW s \in Streams, CancelStream(s) \/ Request(s)
      PROVE  Keeps(toNative, toNative', Orders) /\ Keeps(Wire, Wire', Replying)
  <2>1. \/ toNative' = toNative
        \/ Sends(Call("cancel", None, None)) \/ Sends(Asking(s))
        \/ toNative' = toNative \o <<Asking(s), Call("cancel", None, None)>>
    BY <1>9 DEF CancelStream, Request, Unsubscribes, Asking
  <2>2. toDart' = toDart
    BY <1>9 DEF CancelStream, Request
  <2> QED
    BY <1>3, <1>4, <1>5, <1>6, <2>1, <2>2, WireSame, KeepsSame
<1>10. CASE Token \/ End \/ Refused
  <2>1. \E op \in {"token", "end", "refused"} : Receives(op)
    BY <1>10 DEF Token, End, Refused
  <2>2. toNative' = toNative \/ Sends(Call("cancel", None, None))
    BY <1>10 DEF Token, End, Refused, Unsubscribes
  <2> QED
    BY <1>4, <1>6, <1>7, <2>1, <2>2, KeepsSame
<1> QED
  BY <1>8, <1>9, <1>10 DEF Generation

-----------------------------------------------------------------------------
(* How a command moves through the plugin.                                 *)

TakesOrder == Generate \/ LoadModel \/ UnloadModel
StartsOrder == StartJob /\ Head(jobs) \in Orders
Runs == MainThread \/ Worker \/ Aside

LEMMA OrderTaken ==
  ASSUME TypesOK, TakesOrder
  PROVE  /\ toNative # <<>> /\ toNative' = Tail(toNative) /\ toNative[1] = Head(toNative)
         /\ Head(toNative) \in Orders /\ Head(toNative) \in Sent /\ Head(toNative).who \in Selects
         /\ 1 \in DOMAIN toNative
<1>1. PICK op \in Commands : Takes(op)
  BY DEF TakesOrder, Generate, LoadModel, UnloadModel, Commands
<1>2. /\ toNative # <<>> /\ toNative' = Tail(toNative) /\ Head(toNative) \in Sent
      /\ Head(toNative).op = op
  BY <1>1, TakesTyped DEF TypesOK
<1>3. Head(toNative) \in Orders /\ Head(toNative).who \in Selects
  BY <1>1, <1>2 DEF Sent, Orders
<1> QED
  BY <1>2, <1>3, Taking DEF TypesOK, WiresOK

LEMMA JobTaken ==
  ASSUME TypesOK, StartsOrder
  PROVE  /\ jobs # <<>> /\ jobs' = Tail(jobs) /\ jobs[1] = Head(jobs) /\ 1 \in DOMAIN jobs
         /\ Head(jobs) \in Sent /\ Head(jobs).op \in {"load", "generate"}
         /\ Head(jobs).who \in Selects
<1>1. /\ jobs # <<>> /\ jobs' = Tail(jobs) /\ jobs[1] = Head(jobs) /\ 1 \in DOMAIN jobs
      /\ Head(jobs) \in Jobs
  BY Taking DEF StartsOrder, StartJob, TypesOK, WorkerOK
<1>2. Head(jobs) \in Orders
  BY DEF StartsOrder
<1> QED
  BY <1>1, <1>2 DEF Jobs, Sent, Orders, Commands

LEMMA Moving ==
  ASSUME TypesOK, Runs,
         NEW call \in BOOLEAN, NEW job \in BOOLEAN, NEW load \in BOOLEAN,
         NEW unload \in BOOLEAN, NEW reply \in BOOLEAN,
         Dispatched(call, job, load, unload, reply)
  PROVE  \/ Aside
         \/ call /\ TakesOrder
         \/ job /\ StartsOrder
         \/ load /\ (InitModel \/ InitReturned)
         \/ unload /\ Unloaded
<1>1. TakesOrder => call
  BY OrderTaken DEF Dispatched, Without
<1>2. StartsOrder => job
  BY JobTaken DEF Dispatched, Without, StartsOrder
<1>3. InitModel \/ InitReturned => load
  BY DEF InitModel, InitReturned, WorkerAt, Dispatched, Loading
<1>4. Unloaded => unload
  BY DEF Unloaded, MainIsFree, Dispatched
<1>5. \/ RunPosted \/ OnListen \/ OnCancel \/ GenerateStream \/ TakesOrder \/ Unloaded
      \/ StartsOrder \/ (StartJob /\ Head(jobs) \notin Orders)
      \/ InitModel \/ InitReturned \/ StreamInit \/ StreamNext \/ StreamEnd
      \/ Aside
  BY DEF Runs, MainThread, Worker, TakesOrder, StartsOrder
<1> QED
  BY <1>1, <1>2, <1>3, <1>4, <1>5, PostAside, MainAside, WorkerAside

LEMMA NowhereMoves ==
  ASSUME TypesOK, Runs, Nowhere
  PROVE  Nowhere' /\ SameModels
<1>1. Aside
  BY Moving DEF Nowhere
<1> QED
  BY <1>1, AsideStays DEF Aside

LEMMA ReplyMoves ==
  ASSUME TypesOK, Runs, NEW op, NEW a, Message(op, a) \in Replying, IsReply(op, a)
  PROVE  IsReply(op, a)' /\ SameModels
<1>1. Aside
  BY Moving DEF IsReply
<1> QED
  BY <1>1, AsideStays DEF Aside

LEMMA Answering ==
  ASSUME TypesOK, NEW op \in Answers, NEW a \in Selects, Without(Wire, Replying),
         \/ Replies(Message(op, a)) /\ posted' = posted
         \/ toDart' = toDart /\ Posts(Message(op, a), None)
  PROVE  Only(Wire', Replying, {Message(op, a)}') /\ Message(op, a) \in Replying
<1>1. Message(op, a) \in Replying /\ Message(op, a) \in Told /\ Message(op, a)' = Message(op, a)
  BY MessageTyped DEF Replying, Answers, Message
<1>2. Tells(Message(op, a))
  BY <1>1, Telling
<1>3. ASSUME NEW n, NEW i, Inserted(Wire, Wire', n, i, Message(op, a))
      PROVE  Only(Wire', Replying, {Message(op, a)})
  BY <1>3, InsertedKeeps
<1> QED
  BY <1>1, <1>2, <1>3 DEF Tells

LEMMA CallMoves ==
  ASSUME TypesOK, Runs, NEW c, c \in Orders, IsCall(c)
  PROVE  \/ SameModels /\ IsCall(c)'
         \/ SameModels /\ c.op # "unload" /\ IsJob(c)'
         \/ SameModels /\ c.op = "generate" /\ ~plugin.modelLoaded /\ IsReply("notWarm", c.who)'
         \/ SameModels /\ c.op = "unload" /\ ~plugin.modelLoaded /\ IsReply("unloaded", c.who)'
         \/ c.op = "unload" /\ bridge'.model = None /\ IsUnloading(c.who)'
<1>1. Dispatched(TRUE, FALSE, FALSE, FALSE, FALSE) /\ Only(toNative, Orders, {c})
  BY DEF IsCall
<1>2. Aside \/ TakesOrder
  BY <1>1, Moving
<1>3. CASE Aside
  <2>1. IsCall(c)'
    BY <1>3, AsideStays
  <2>2. SameModels
    BY <1>3 DEF Aside
  <2> QED
    BY <2>1, <2>2
<1>4. CASE TakesOrder
  <2>1. /\ toNative # <<>> /\ toNative' = Tail(toNative)
        /\ Head(toNative) \in Orders /\ Head(toNative) \in Sent /\ Head(toNative).who \in Selects
    BY <1>4, OrderTaken
  <2>2. Head(toNative) = c /\ Without(toNative', Orders)
    <3>1. {c} \subseteq Orders
      OBVIOUS
    <3> QED
      BY <1>1, <2>1, <3>1, WithoutTail DEF TypesOK, WiresOK
  <2>3. /\ Without(jobs, Orders) /\ ~Loading /\ plugin.unloading = None
        /\ Without(Wire, Replying)
    BY <1>1 DEF Dispatched
  <2>4. worker' = worker /\ posted' = posted /\ ~Loading' /\ c \in Sent /\ c.who \in Selects
    BY <1>4, <2>1, <2>2, <2>3 DEF TakesOrder, Generate, LoadModel, UnloadModel, Loading
  <2>5. plugin \in Plugins /\ bridge \in Bridges
    BY DEF TypesOK, NativeOK
  <2>6. ASSUME SameModels, plugin'.unloading = None, jobs' = Append(jobs, c), toDart' = toDart,
               c.op \in {"load", "generate"}
        PROVE  IsJob(c)'
    <3>1. Only(jobs', Orders, {c})
      BY <2>3, <2>4, <2>6, WithoutAppend DEF Jobs, TypesOK, WorkerOK
    <3> QED
      BY <2>2, <2>3, <2>4, <2>6, <3>1, WireSame DEF IsJob, Dispatched
  <2>7. ASSUME NEW op \in Answers, Replies(Message(op, c.who)), jobs' = jobs,
               plugin'.unloading = None
        PROVE  IsReply(op, c.who)'
    <3>1. Only(Wire', Replying, {Message(op, c.who)}')
      BY <2>3, <2>4, <2>7, Answering
    <3> QED
      BY <2>2, <2>3, <2>4, <2>7, <3>1 DEF IsReply, Dispatched
  <2>8. CASE Generate
    <3>1. SameModels /\ plugin'.unloading = None /\ c.op = "generate"
      BY <2>2, <2>3, <2>8 DEF Generate, Takes, SameModels
    <3>2. \/ jobs' = Append(jobs, c) /\ toDart' = toDart
          \/ ~plugin.modelLoaded /\ jobs' = jobs /\ Replies(Message("notWarm", c.who))
      BY <2>2, <2>8 DEF Generate
    <3>3. "notWarm" \in Answers
      BY DEF Answers
    <3> QED
      BY <2>6, <2>7, <3>1, <3>2, <3>3
  <2>9. CASE LoadModel
    <3>1. SameModels /\ plugin'.unloading = None /\ c.op = "load" /\ jobs' = Append(jobs, c)
          /\ toDart' = toDart
      BY <2>2, <2>3, <2>9 DEF LoadModel, Takes, SameModels
    <3> QED
      BY <2>6, <3>1
  <2>10. CASE UnloadModel
    <3>1. c.op = "unload" /\ jobs' = jobs
      BY <2>2, <2>10 DEF UnloadModel, Takes
    <3>2. CASE /\ bridge' = [bridge EXCEPT !.model = None]
               /\ plugin' = [plugin EXCEPT !.unloading = c.who] /\ toDart' = toDart
      <4>1. bridge'.model = None /\ plugin'.unloading = c.who
        BY <2>5, <3>2 DEF Plugins, Bridges
      <4> QED
        BY <2>2, <2>3, <2>4, <3>1, <3>2, <4>1, WireSame DEF IsUnloading, Dispatched
    <3>3. CASE /\ ~plugin.modelLoaded /\ Replies(Message("unloaded", c.who))
               /\ UNCHANGED <<bridge, plugin>>
      <4>1. "unloaded" \in Answers /\ SameModels /\ plugin'.unloading = None
        BY <2>3, <3>3 DEF Answers, SameModels
      <4> QED
        BY <2>7, <3>1, <3>3, <4>1
    <3> QED
      BY <2>2, <2>10, <3>2, <3>3 DEF UnloadModel
  <2> QED
    BY <1>4, <2>8, <2>9, <2>10 DEF TakesOrder
<1> QED
  BY <1>2, <1>3, <1>4

LEMMA UnloadingMoves ==
  ASSUME TypesOK, Runs, NEW a \in Selects, IsUnloading(a)
  PROVE  \/ SameModels /\ IsUnloading(a)'
         \/ /\ bridge'.model = bridge.model /\ ~plugin'.modelLoaded
            /\ IsReply("unloaded", a)'
<1>1. Aside \/ Unloaded
  BY Moving DEF IsUnloading
<1>2. CASE Aside
  BY <1>2, AsideStays DEF Aside
<1>3. CASE Unloaded
  <2>1. /\ plugin'.unloading = None /\ ~plugin'.modelLoaded /\ Replies(Message("unloaded", a))
        /\ UNCHANGED <<toNative, posted, jobs, worker, bridge>>
    BY <1>3 DEF Unloaded, IsUnloading, TypesOK, NativeOK, Plugins
  <2>2. /\ Without(toNative, Orders) /\ Without(jobs, Orders) /\ ~Loading
        /\ Without(Wire, Replying)
    BY DEF IsUnloading, Dispatched
  <2>3. Only(Wire', Replying, {Message("unloaded", a)}')
    BY <2>1, <2>2, Answering DEF Answers
  <2> QED
    BY <2>1, <2>2, <2>3 DEF IsReply, Dispatched, Loading
<1> QED
  BY <1>1, <1>2, <1>3

LEMMA JobMoves ==
  ASSUME TypesOK, Runs, NEW c, c \in Orders, IsJob(c)
  PROVE  /\ SameModels
         /\ \/ IsJob(c)'
            \/ c.op = "load" /\ IsLoading(c)' /\ worker'.pc = "load"
            \/ c.op = "generate" /\ (IsReply("warm", c.who)' \/ IsReply("notWarm", c.who)')
<1>1. Dispatched(FALSE, TRUE, FALSE, FALSE, FALSE) /\ Only(jobs, Orders, {c})
  BY DEF IsJob
<1>2. Aside \/ StartsOrder
  BY <1>1, Moving
<1>3. CASE Aside
  <2>1. IsJob(c)'
    BY <1>3, AsideStays
  <2>2. SameModels
    BY <1>3 DEF Aside
  <2> QED
    BY <2>1, <2>2
<1>4. CASE StartsOrder
  <2>1. /\ jobs # <<>> /\ jobs' = Tail(jobs) /\ Head(jobs) \in Sent
        /\ Head(jobs).op \in {"load", "generate"} /\ Head(jobs).who \in Selects
        /\ Head(jobs) \in Orders
    BY <1>4, JobTaken DEF StartsOrder
  <2>2. Head(jobs) = c /\ Without(jobs', Orders)
    <3>1. {c} \subseteq Orders
      OBVIOUS
    <3> QED
      BY <1>1, <2>1, <3>1, WithoutTail DEF TypesOK, WorkerOK
  <2>3. /\ Without(toNative, Orders) /\ ~Loading /\ plugin.unloading = None
        /\ Without(Wire, Replying)
    BY <1>1 DEF Dispatched
  <2>4. plugin \in Plugins /\ bridge \in Bridges
    BY DEF TypesOK, NativeOK
  <2>5. CASE c.op = "load"
    <3>1. worker' = [pc |-> "load", job |-> c] /\ UNCHANGED <<plugin, bridge, toDart, posted, toNative>>
      BY <1>4, <2>2, <2>5 DEF StartsOrder, StartJob
    <3> QED
      BY <2>2, <2>3, <2>5, <3>1, WireSame DEF IsLoading, Dispatched, Loading, SameModels
  <2>6. CASE c.op = "generate"
    <3>1. /\ plugin' = [plugin EXCEPT !.shouldStop = FALSE] /\ UNCHANGED <<worker, toNative, toDart>>
          /\ bridge' = [bridge EXCEPT !.stop = FALSE] \/ bridge' = bridge
          /\ \E op \in {"warm", "notWarm"} : Posts(Message(op, c.who), None)
      BY <1>4, <2>2, <2>6 DEF StartsOrder, StartJob
    <3>2. SameModels /\ plugin'.unloading = None /\ ~Loading'
      BY <2>3, <2>4, <3>1 DEF SameModels, Plugins, Bridges, Loading
    <3>3. PICK op \in {"warm", "notWarm"} : Posts(Message(op, c.who), None)
      BY <3>1
    <3>4. Only(Wire', Replying, {Message(op, c.who)}')
      BY <2>1, <2>2, <2>3, <3>1, <3>3, Answering DEF Answers
    <3>5. IsReply(op, c.who)'
      BY <2>2, <2>3, <3>1, <3>2, <3>4 DEF IsReply, Dispatched
    <3> QED
      BY <2>6, <3>2, <3>5
  <2> QED
    BY <2>1, <2>2, <2>5, <2>6
<1> QED
  BY <1>2, <1>3, <1>4

LEMMA LoadingMoves ==
  ASSUME TypesOK, Runs, NEW c, IsLoading(c)
  PROVE  \/ SameModels /\ IsLoading(c)' /\ worker' = worker
         \/ /\ worker.pc = "load" /\ plugin' = plugin /\ IsLoading(c)'
            /\ \/ worker'.pc = "loaded" /\ bridge'.model = c.path
               \/ worker'.pc = "notLoaded" /\ bridge'.model = None
         \/ worker.pc = "load" /\ SameModels /\ IsReply("notLoaded", c.who)'
         \/ /\ worker.pc = "loaded" /\ bridge' = bridge /\ plugin'.modelLoaded
            /\ IsReply("loaded", c.who)'
         \/ /\ worker.pc = "notLoaded" /\ bridge' = bridge /\ ~plugin'.modelLoaded
            /\ IsReply("notLoaded", c.who)'
<1>1. /\ Without(toNative, Orders) /\ Without(jobs, Orders) /\ Without(Wire, Replying)
      /\ plugin.unloading = None /\ Loading /\ worker.job = c
  BY DEF IsLoading, Dispatched
<1>2. Aside \/ InitModel \/ InitReturned
  BY Moving DEF IsLoading
<1>3. plugin \in Plugins /\ bridge \in Bridges /\ worker \in Workers /\ c.who \in Selects
  BY <1>1 DEF TypesOK, NativeOK, WorkerOK
<1>4. CASE Aside
  BY <1>4, AsideStays DEF Aside
<1>5. ASSUME NEW op \in Answers, Posts(Message(op, c.who), None), WorkerGoes("idle"),
             UNCHANGED <<toNative, toDart, jobs>>, plugin'.unloading = None
      PROVE  IsReply(op, c.who)'
  <2>1. Only(Wire', Replying, {Message(op, c.who)}')
    BY <1>1, <1>3, <1>5, Answering
  <2>2. ~Loading'
    BY <1>3, <1>5 DEF WorkerGoes, Workers, Loading
  <2> QED
    BY <1>1, <1>5, <2>1, <2>2 DEF IsReply, Dispatched
<1>6. CASE InitModel
  <2>1. worker.pc = "load" /\ UNCHANGED <<toNative, toDart, plugin, jobs>>
    BY <1>6 DEF InitModel, WorkerAt
  <2>2. ASSUME NEW pc \in {"loaded", "notLoaded"}, WorkerGoes(pc), posted' = posted
        PROVE  IsLoading(c)' /\ worker'.pc = pc
    BY <1>1, <1>3, <2>1, <2>2, WireSame DEF IsLoading, Dispatched, Loading, WorkerGoes, Workers
  <2>3. CASE /\ bridge' = [bridge EXCEPT !.model = worker.job.path]
             /\ WorkerGoes("loaded") /\ UNCHANGED posted
    BY <1>1, <1>3, <2>1, <2>2, <2>3 DEF Bridges
  <2>4. CASE /\ bridge' = [bridge EXCEPT !.model = None]
             /\ WorkerGoes("notLoaded") /\ UNCHANGED posted
    BY <1>1, <1>3, <2>1, <2>2, <2>4 DEF Bridges
  <2>5. CASE /\ Posts(Message("notLoaded", worker.job.who), None)
             /\ WorkerGoes("idle") /\ UNCHANGED bridge
    BY <1>1, <1>5, <2>1, <2>5 DEF Answers, SameModels
  <2> QED
    BY <1>6, <2>3, <2>4, <2>5 DEF InitModel
<1>7. CASE InitReturned
  <2>1. /\ worker.pc \in {"loaded", "notLoaded"} /\ UNCHANGED <<toNative, toDart, jobs, bridge>>
        /\ Posts(Message(worker.pc, c.who), None) /\ WorkerGoes("idle")
    BY <1>1, <1>7 DEF InitReturned
  <2>2. plugin'.unloading = None /\ (plugin'.modelLoaded <=> worker.pc = "loaded")
    BY <1>1, <1>3, <1>7 DEF InitReturned, Plugins
  <2>3. "loaded" \in Answers /\ "notLoaded" \in Answers
    BY DEF Answers
  <2>4. CASE worker.pc = "loaded"
    <3>1. Posts(Message("loaded", c.who), None)
      BY <2>1, <2>4
    <3>2. IsReply("loaded", c.who)'
      BY <1>5, <2>1, <2>2, <2>3, <3>1
    <3> QED
      BY <2>1, <2>2, <2>4, <3>2
  <2>5. CASE worker.pc = "notLoaded"
    <3>1. Posts(Message("notLoaded", c.who), None)
      BY <2>1, <2>5
    <3>2. IsReply("notLoaded", c.who)'
      BY <1>5, <2>1, <2>2, <2>3, <3>1
    <3> QED
      BY <2>1, <2>2, <2>5, <3>2
  <2> QED
    BY <2>1, <2>4, <2>5
<1> QED
  BY <1>2, <1>4, <1>6, <1>7

LEMMA UnloadsMoves ==
  ASSUME TypesOK, Runs, NEW a \in Selects, Unloads(a)
  PROVE  Unloads(a)'
<1> DEFINE c == Call("unload", a, None)
<1>1. c \in Orders /\ c.op = "unload" /\ c.who = a /\ Message("unloaded", a) \in Replying
  <2>1. c \in Calls /\ c.op = "unload" /\ c.who = a
    BY CallTyped DEF Commands
  <2>2. Message("unloaded", a) \in Messages /\ Message("unloaded", a).op = "unloaded"
    BY MessageTyped DEF Answers
  <2> QED
    BY <2>1, <2>2 DEF Orders, Commands, Replying, Answers
<1>2. c' = c
  BY DEF Call
<1> HIDE DEF c
<1>3. Unloads(a)' <=>
        \/ IsCall(c)' /\ (plugin'.modelLoaded \/ (bridge'.model = None /\ ~plugin'.modelLoaded))
        \/ IsUnloading(a)' /\ bridge'.model = None
        \/ IsReply("unloaded", a)' /\ bridge'.model = None /\ ~plugin'.modelLoaded
  BY DEF Unloads, Empty, c
<1>4. \/ IsCall(c) /\ (plugin.modelLoaded \/ (bridge.model = None /\ ~plugin.modelLoaded))
      \/ IsUnloading(a) /\ bridge.model = None
      \/ IsReply("unloaded", a) /\ bridge.model = None /\ ~plugin.modelLoaded
  BY DEF Unloads, Empty, c
<1>5. CASE IsCall(c) /\ (plugin.modelLoaded \/ (bridge.model = None /\ ~plugin.modelLoaded))
  <2>1. \/ SameModels /\ IsCall(c)'
        \/ SameModels /\ ~plugin.modelLoaded /\ IsReply("unloaded", c.who)'
        \/ bridge'.model = None /\ IsUnloading(c.who)'
    BY <1>1, <1>5, CallMoves
  <2> QED
    BY <1>1, <1>2, <1>3, <1>5, <2>1 DEF SameModels
<1>6. CASE IsUnloading(a) /\ bridge.model = None
  BY <1>3, <1>6, UnloadingMoves DEF SameModels
<1>7. CASE IsReply("unloaded", a) /\ bridge.model = None /\ ~plugin.modelLoaded
  BY <1>1, <1>3, <1>7, ReplyMoves DEF SameModels
<1> QED
  BY <1>4, <1>5, <1>6, <1>7

LEMMA LoadsMoves ==
  ASSUME TypesOK, Runs, NEW a \in Selects, NEW path \in Paths \cup {None},
         Loads(a, path)
  PROVE  Loads(a, path)'
<1> DEFINE c == Call("load", a, path)
<1>1. /\ c \in Orders /\ c.op = "load" /\ c.who = a /\ c.path = path
      /\ Message("loaded", a) \in Replying /\ Message("notLoaded", a) \in Replying
  <2>1. c \in Calls /\ c.op = "load" /\ c.who = a /\ c.path = path
    BY CallTyped DEF Commands
  <2>2. /\ Message("loaded", a) \in Messages /\ Message("loaded", a).op = "loaded"
        /\ Message("notLoaded", a) \in Messages /\ Message("notLoaded", a).op = "notLoaded"
    BY MessageTyped DEF Answers
  <2> QED
    BY <2>1, <2>2 DEF Orders, Commands, Replying, Answers
<1>2. c' = c
  BY DEF Call
<1> HIDE DEF c
<1>3. Loads(a, path)' <=>
        \/ (IsCall(c)' \/ IsJob(c)') /\ Empty'
        \/ /\ IsLoading(c)' /\ ~plugin'.modelLoaded
           /\ bridge'.model = IF worker'.pc = "loaded" THEN path ELSE None
        \/ IsReply("loaded", a)' /\ Holds(path)'
        \/ IsReply("notLoaded", a)' /\ Empty'
  BY DEF Loads, c
<1>4. \/ (IsCall(c) \/ IsJob(c)) /\ Empty
      \/ /\ IsLoading(c) /\ ~plugin.modelLoaded
         /\ bridge.model = IF worker.pc = "loaded" THEN path ELSE None
      \/ IsReply("loaded", a) /\ Holds(path)
      \/ IsReply("notLoaded", a) /\ Empty
  BY DEF Loads, c
<1>5. SameModels => (Empty => Empty') /\ (Holds(path) => Holds(path)')
  BY DEF SameModels, Empty, Holds
<1>6. CASE IsCall(c) /\ Empty
  <2>1. SameModels /\ (IsCall(c)' \/ IsJob(c)')
    BY <1>1, <1>6, CallMoves
  <2> QED
    BY <1>3, <1>5, <1>6, <2>1
<1>7. CASE IsJob(c) /\ Empty
  <2>1. SameModels /\ (IsJob(c)' \/ (IsLoading(c)' /\ worker'.pc = "load"))
    BY <1>1, <1>7, JobMoves
  <2> QED
    BY <1>3, <1>5, <1>7, <2>1 DEF Empty
<1>8. CASE /\ IsLoading(c) /\ ~plugin.modelLoaded
           /\ bridge.model = IF worker.pc = "loaded" THEN path ELSE None
  <2>1. \/ SameModels /\ IsLoading(c)' /\ worker' = worker
        \/ /\ worker.pc = "load" /\ plugin' = plugin /\ IsLoading(c)'
           /\ \/ worker'.pc = "loaded" /\ bridge'.model = path
              \/ worker'.pc = "notLoaded" /\ bridge'.model = None
        \/ worker.pc = "load" /\ SameModels /\ IsReply("notLoaded", a)'
        \/ /\ worker.pc = "loaded" /\ bridge' = bridge /\ plugin'.modelLoaded
           /\ IsReply("loaded", a)'
        \/ /\ worker.pc = "notLoaded" /\ bridge' = bridge /\ ~plugin'.modelLoaded
           /\ IsReply("notLoaded", a)'
    BY <1>1, <1>8, LoadingMoves
  <2> QED
    BY <1>3, <1>8, <2>1 DEF SameModels, Empty, Holds
<1>9. CASE IsReply("loaded", a) /\ Holds(path)
  BY <1>1, <1>3, <1>5, <1>9, ReplyMoves
<1>10. CASE IsReply("notLoaded", a) /\ Empty
  BY <1>1, <1>3, <1>5, <1>10, ReplyMoves
<1> QED
  BY <1>4, <1>6, <1>7, <1>8, <1>9, <1>10

LEMMA WarmsMoves ==
  ASSUME TypesOK, Runs, NEW a \in Selects, NEW path \in Paths \cup {None},
         Warms(a, path)
  PROVE  Warms(a, path)'
<1> DEFINE c == Call("generate", a, None)
<1>1. /\ c \in Orders /\ c.op = "generate" /\ c.who = a
      /\ Message("warm", a) \in Replying /\ Message("notWarm", a) \in Replying
  <2>1. c \in Calls /\ c.op = "generate" /\ c.who = a
    BY CallTyped DEF Commands
  <2>2. /\ Message("warm", a) \in Messages /\ Message("warm", a).op = "warm"
        /\ Message("notWarm", a) \in Messages /\ Message("notWarm", a).op = "notWarm"
    BY MessageTyped DEF Answers
  <2> QED
    BY <2>1, <2>2 DEF Orders, Commands, Replying, Answers
<1>2. c' = c
  BY DEF Call
<1> HIDE DEF c
<1>3. Warms(a, path)' <=>
        /\ Holds(path)'
        /\ IsCall(c)' \/ IsJob(c)' \/ IsReply("warm", a)' \/ IsReply("notWarm", a)'
  BY DEF Warms, c
<1>4. Holds(path) /\ (IsCall(c) \/ IsJob(c) \/ IsReply("warm", a) \/ IsReply("notWarm", a))
  BY DEF Warms, c
<1>5. SameModels => Holds(path)'
  BY <1>4 DEF SameModels, Holds
<1>6. CASE IsCall(c)
  <2>1. SameModels /\ (IsCall(c)' \/ IsJob(c)' \/ IsReply("notWarm", a)')
    BY <1>1, <1>6, CallMoves
  <2> QED
    BY <1>3, <1>5, <2>1
<1>7. CASE IsJob(c)
  <2>1. SameModels /\ (IsJob(c)' \/ IsReply("warm", a)' \/ IsReply("notWarm", a)')
    BY <1>1, <1>7, JobMoves
  <2> QED
    BY <1>3, <1>5, <2>1
<1>8. CASE IsReply("warm", a) \/ IsReply("notWarm", a)
  BY <1>1, <1>3, <1>5, <1>8, ReplyMoves
<1> QED
  BY <1>4, <1>6, <1>7, <1>8

LEMMA AgreesMoves ==
  ASSUME SameModels, UNCHANGED <<loaded, session>>, Agrees
  PROVE  Agrees'
BY DEF SameModels, Agrees, LoadedIs, Holds, Empty

(* What the plugin and the screens do leaves every selection where it is.  *)
LEMMA QuietSelects ==
  ASSUME TypesOK, SelectsOK, Runs, UNCHANGED <<loaded, session, select, saved, selects>>
  PROVE  SelectsOK'
<1>1. UNCHANGED <<loaded, session, select, saved, selects>>
  OBVIOUS
<1>2. session.path \in Paths \cup {None}
  BY DEF TypesOK, DartOK, Sessions
<1>3. Nowhere /\ Agrees => Nowhere' /\ Agrees'
  BY <1>1, NowhereMoves, AgreesMoves
<1>4. ASSUME NEW a \in Selects, Selecting(a) PROVE Selecting(a)'
  <2>1. PICK path \in Paths \cup {None} : path = session.path /\ Stands(a, select[a].pc, path)
    BY <1>4 DEF Selecting
  <2>2. /\ Unloads(a) => Unloads(a)'
        /\ Loads(a, path) => Loads(a, path)'
        /\ Warms(a, path) => Warms(a, path)'
    BY UnloadsMoves, LoadsMoves, WarmsMoves
  <2>3. Stands(a, select[a].pc, path)'
    BY <1>1, <1>3, <2>1, <2>2 DEF Stands, LoadedIs
  <2> QED
    BY <1>1, <2>1, <2>3 DEF Selecting
<1> QED
  BY <1>1, <1>3, <1>4 DEF SelectsOK

-----------------------------------------------------------------------------
(* What a selection sends, and the answer it takes.                        *)

Clear ==
  /\ Without(toNative, Orders) /\ Without(jobs, Orders) /\ ~Loading
  /\ plugin.unloading = None /\ Without(Wire', Replying)

LEMMA Resting ==
  ASSUME Clear, UNCHANGED <<toNative, nativeVars>>
  PROVE  Nowhere'
BY DEF Clear, Nowhere, Dispatched, nativeVars, Loading

LEMMA Sending ==
  ASSUME TypesOK, Clear, UNCHANGED nativeVars, NEW c, c \in Orders, c \in Sent, Sends(c)
  PROVE  IsCall(c)'
<1>1. Only(toNative', Orders, {c})
  BY WithoutAppend DEF Clear, Sends, TypesOK, WiresOK
<1> QED
  BY <1>1 DEF Clear, IsCall, Dispatched, nativeVars, Loading

LEMMA ModelsStay ==
  ASSUME UNCHANGED nativeVars
  PROVE  /\ Empty => Empty' /\ bridge'.model = None /\ ~plugin'.modelLoaded
         /\ \A path : Holds(path) => Holds(path)' /\ bridge'.model = path /\ plugin'.modelLoaded
         /\ plugin' = plugin
BY DEF nativeVars, Empty, Holds

LEMMA UnloadsSent ==
  ASSUME TypesOK, Clear, UNCHANGED nativeVars, NEW a \in Selects,
         Sends(Call("unload", a, None)), plugin.modelLoaded \/ Empty
  PROVE  Unloads(a)'
<1> DEFINE c == Call("unload", a, None)
<1>1. c \in Orders /\ c \in Sent
  BY CallTyped DEF Commands, Orders
<1> HIDE DEF c
<1>2. IsCall(c)'
  BY <1>1, Sending DEF c
<1>3. plugin'.modelLoaded \/ Empty'
  BY ModelsStay
<1> QED
  BY <1>2, <1>3 DEF Unloads, c

LEMMA LoadsSent ==
  ASSUME TypesOK, Clear, UNCHANGED nativeVars, NEW a \in Selects, NEW path \in Paths \cup {None},
         Sends(Call("load", a, path)), Empty
  PROVE  Loads(a, path)'
<1> DEFINE c == Call("load", a, path)
<1>1. c \in Orders /\ c \in Sent
  BY CallTyped DEF Commands, Orders
<1> HIDE DEF c
<1>2. IsCall(c)'
  BY <1>1, Sending DEF c
<1>3. Empty'
  BY ModelsStay
<1> QED
  BY <1>2, <1>3 DEF Loads, c

LEMMA WarmsSent ==
  ASSUME TypesOK, Clear, UNCHANGED nativeVars, NEW a \in Selects, NEW path \in Paths \cup {None},
         Sends(Call("generate", a, None)), Holds(path)
  PROVE  Warms(a, path)'
<1> DEFINE c == Call("generate", a, None)
<1>1. c \in Orders /\ c \in Sent
  BY CallTyped DEF Commands, Orders
<1> HIDE DEF c
<1>2. IsCall(c)'
  BY <1>1, Sending DEF c
<1>3. Holds(path)'
  BY ModelsStay
<1> QED
  BY <1>2, <1>3 DEF Warms, c

LEMMA NoAnswer ==
  ASSUME Nowhere, toDart' = toDart, UNCHANGED nativeVars
  PROVE  Clear
<1>1. Wire' = Wire
  BY WireSame DEF nativeVars
<1> QED
  BY <1>1 DEF Nowhere, Dispatched, Clear

LEMMA Received ==
  ASSUME TypesOK, NEW op \in Answers, Receives(op), UNCHANGED nativeVars
  PROVE  /\ ~Nowhere
         /\ \A c : ~IsCall(c) /\ ~IsJob(c) /\ ~IsLoading(c)
         /\ \A b : ~IsUnloading(b)
         /\ \A o, b : Message(o, b) \in Replying /\ IsReply(o, b) => o = op /\ Clear
<1>1. /\ toDart # <<>> /\ toDart' = Tail(toDart) /\ Head(toDart).op = op
      /\ Head(toDart) \in Replying /\ posted' = posted
  BY ReceivesTyped DEF TypesOK, Told, Replying, nativeVars
<1>4. Inserted(Wire', Wire, Length - 1, 1, Head(toDart))
  BY <1>1, ReceivesHeard
<1>2. ~Without(Wire, Replying)
  BY <1>1, <1>4, InsertedThere
<1>3. ASSUME NEW o, NEW b, Message(o, b) \in Replying, IsReply(o, b)
      PROVE  o = op /\ Clear
  <2>1. Only(Wire, Replying, {Message(o, b)}) /\ {Message(o, b)} \subseteq Replying
    BY <1>3 DEF IsReply
  <2>2. Head(toDart) \in {Message(o, b)} /\ Without(Wire', Replying)
    BY <1>1, <1>4, <2>1, InsertedLeaves
  <2> QED
    BY <1>1, <1>3, <2>2 DEF IsReply, Dispatched, Clear, Message
<1> QED
  BY <1>2, <1>3 DEF Nowhere, IsCall, IsJob, IsLoading, IsUnloading, Dispatched

LEMMA Replied ==
  ASSUME NEW op \in Answers, NEW a \in Selects
  PROVE  Message(op, a) \in Replying
BY MessageTyped DEF Replying, Answers

LEMMA UnloadsAnswered ==
  ASSUME TypesOK, NEW op \in Answers, Receives(op), UNCHANGED nativeVars,
         NEW a \in Selects, Unloads(a)
  PROVE  Clear /\ Empty
BY Received, Replied DEF Unloads, Answers

LEMMA LoadsAnswered ==
  ASSUME TypesOK, NEW op \in Answers, Receives(op), UNCHANGED nativeVars,
         NEW a \in Selects, NEW path, Loads(a, path)
  PROVE  Clear /\ (op = "loaded" => Holds(path)) /\ (op = "notLoaded" => Empty)
BY Received, Replied DEF Loads, Answers

LEMMA WarmsAnswered ==
  ASSUME TypesOK, NEW op \in Answers, Receives(op), UNCHANGED nativeVars,
         NEW a \in Selects, NEW path, Warms(a, path)
  PROVE  Clear /\ Holds(path)
BY Received, Replied DEF Warms, Answers

(* The one selection there is, or that there was.                          *)
Alone(a) == \A b \in Selects \ {a} : select[b].pc = "idle" /\ select'[b] = select[b]
Settles ==
  /\ Nowhere /\ Agrees /\ ~session.loading
  /\ loaded.engine /\ ~session.failed => saved = session.path

LEMMA OneSelects ==
  ASSUME NEW a \in Selects, Alone(a), selects' # 0,
         NEW path \in Paths \cup {None}, path = session'.path,
         \/ select'[a].pc # "idle" /\ Stands(a, select[a].pc, path)'
         \/ select'[a].pc = "idle" /\ Settles'
  PROVE  SelectsOK'
<1>1. \A b \in Selects \ {a} : select'[b].pc = "idle"
  BY DEF Alone
<1>2. ASSUME NEW b \in Selects PROVE Selecting(b)'
  <2>1. CASE select'[b].pc = "idle"
    <3>1. Stands(b, select[b].pc, path)'
      BY <2>1 DEF Stands
    <3> QED
      BY <3>1 DEF Selecting
  <2>2. CASE select'[b].pc # "idle"
    BY <1>1, <2>2 DEF Selecting
  <2> QED
    BY <2>1, <2>2
<1> QED
  BY <1>1, <1>2 DEF SelectsOK, Settles

LEMMA SelectNow ==
  ASSUME DartOK, NEW a \in Selects, \A b \in Selects \ {a} : select[b].pc = "idle"
  PROVE  /\ \A pc : SelectGoes(a, pc) =>
              Alone(a) /\ select'[a].pc = pc /\ select'[a].path = select[a].path
         /\ \A pc, path : select' = [select EXCEPT ![a].pc = pc, ![a].path = path] =>
              Alone(a) /\ select'[a].pc = pc /\ select'[a].path = path
         /\ \A pc, path, attempt :
              select' = [select EXCEPT ![a] = [pc |-> pc, path |-> path, attempt |-> attempt]] =>
                Alone(a) /\ select'[a].pc = pc /\ select'[a].path = path
         /\ SelectEnds(a) => Alone(a) /\ select'[a].pc = "idle"
<1>1. select \in [Selects -> Selections] /\ select[a] \in Selections
  BY DEF DartOK
<1>2. ASSUME NEW pc, SelectGoes(a, pc)
      PROVE  Alone(a) /\ select'[a].pc = pc /\ select'[a].path = select[a].path
  BY <1>1, <1>2 DEF SelectGoes, Alone, Selections
<1>3. ASSUME NEW pc, NEW path, select' = [select EXCEPT ![a].pc = pc, ![a].path = path]
      PROVE  Alone(a) /\ select'[a].pc = pc /\ select'[a].path = path
  BY <1>1, <1>3 DEF Alone, Selections
<1>4. ASSUME NEW pc, NEW path, NEW attempt,
             select' = [select EXCEPT ![a] = [pc |-> pc, path |-> path, attempt |-> attempt]]
      PROVE  Alone(a) /\ select'[a].pc = pc /\ select'[a].path = path
  BY <1>1, <1>4 DEF Alone
<1>5. ASSUME SelectEnds(a) PROVE Alone(a) /\ select'[a].pc = "idle"
  BY <1>1, <1>5 DEF SelectEnds, Idle, Alone
<1> QED
  BY <1>2, <1>3, <1>4, <1>5

LEMMA Attempted ==
  ASSUME TypesOK, NEW a \in Selects, \A b \in Selects \ {a} : select[b].pc = "idle",
         NEW path \in Paths \cup {None}, NEW attempt, Attempts(a, path, attempt),
         path = session'.path, Clear, UNCHANGED nativeVars, Empty,
         ~loaded'.llama, ~loaded'.engine, loaded' \in [llama: BOOLEAN, engine: BOOLEAN],
         selects' # 0
  PROVE  SelectsOK'
<1>1. Alone(a) /\ select'[a].pc = "loading" /\ select'[a].path = path
  <2>1. select' = [select EXCEPT ![a] = [pc |-> "loading", path |-> path, attempt |-> attempt]]
    BY DEF Attempts
  <2>2. select \in [Selects -> Selections]
    BY DEF TypesOK, DartOK
  <2> QED
    BY <2>1, <2>2 DEF Alone
<1>2. Loads(a, path)'
  BY LoadsSent DEF Attempts
<1>3. LoadedIs(FALSE, FALSE)'
  BY DEF LoadedIs
<1>4. Stands(a, select[a].pc, path)'
  BY <1>1, <1>2, <1>3 DEF Stands
<1> QED
  BY <1>1, <1>4, OneSelects

LEMMA Begun ==
  ASSUME TypesOK, NEW a \in Selects, \A b \in Selects \ {a} : select[b].pc = "idle",
         NEW path \in Paths \cup {None}, BeginSelect(a, path), Nowhere, Agrees,
         UNCHANGED <<toDart, nativeVars>>, selects' # 0
  PROVE  SelectsOK'
<1>1. Clear /\ session'.path = path /\ loaded' = loaded
  BY NoAnswer DEF BeginSelect
<1>2. loaded \in [llama: BOOLEAN, engine: BOOLEAN] /\ loaded.llama = loaded.engine
  BY DEF TypesOK, DartOK, Agrees, LoadedIs
<1>3. CASE ~loaded.engine /\ Attempts(a, path, 1)
  BY <1>1, <1>2, <1>3, Attempted DEF Agrees
<1>4. CASE /\ loaded.engine
           /\ select' = [select EXCEPT ![a] = [pc |-> "disposing", path |-> path, attempt |-> 0]]
           /\ Sends(Call("unload", a, None))
  <2>1. Alone(a) /\ select'[a].pc = "disposing" /\ select'[a].path = path
    BY <1>4, SelectNow DEF TypesOK
  <2>2. Unloads(a)'
    BY <1>1, <1>4, UnloadsSent DEF Agrees, Holds
  <2>3. Stands(a, select[a].pc, path)'
    BY <2>1, <2>2 DEF Stands
  <2> QED
    BY <1>1, <2>1, <2>3, OneSelects
<1> QED
  BY <1>3, <1>4 DEF BeginSelect

LEMMA AgreesNow ==
  ASSUME TypesOK, UNCHANGED nativeVars
  PROVE  /\ Agrees /\ UNCHANGED loaded /\ (session'.path = session.path \/ ~loaded.engine) => Agrees'
         /\ Empty /\ ~loaded'.llama /\ ~loaded'.engine
              /\ loaded' \in [llama: BOOLEAN, engine: BOOLEAN] => Agrees'
         /\ Holds(session.path) /\ loaded'.llama = TRUE /\ loaded'.engine = TRUE
              /\ session'.path = session.path => Agrees'
BY DEF Agrees, LoadedIs, Holds, Empty, nativeVars

LEMMA SessionSelects ==
  ASSUME ~OverlapSelects, TypesOK, SelectsOK, NEW a \in Selects, Session(a)
  PROVE  SelectsOK'
<1> USE PluginAssumption
<1>1. /\ UNCHANGED nativeVars
      /\ loaded \in [llama: BOOLEAN, engine: BOOLEAN] /\ session.path \in Paths \cup {None}
      /\ session \in Sessions
      /\ select \in [Selects -> Selections] /\ selects \in Nat /\ saved \in Paths \cup {None}
      /\ DartOK
  BY SessionWires DEF TypesOK, DartOK, Sessions
<1>2. TypesOK' /\ session'.path \in Paths \cup {None}
  BY SessionTypes DEF TypesOK, DartOK, Sessions
<1>3. CASE SessionCall(a)
  <2>1. \A b \in Selects : select[b].pc = "idle"
    BY <1>3 DEF SessionCall
  <2>2. Nowhere /\ Agrees /\ ~session.loading
    BY <2>1 DEF SelectsOK
  <2>3. selects' # 0 /\ \A b \in Selects \ {a} : select[b].pc = "idle"
    BY <1>1, <1>3, <2>1 DEF SessionCall
  <2>4. CASE Initialize(a)
    <3>1. ~loaded.engine
      BY <2>4 DEF Initialize, SelectsOK
    <3>2. /\ Alone(a) /\ select'[a].pc = "reading" /\ UNCHANGED <<session, loaded>>
      BY <1>1, <2>3, <2>4, SelectNow DEF Initialize
    <3>3. Nowhere' /\ Agrees'
      <4>1. UNCHANGED <<toNative, toDart>>
        BY <2>4 DEF Initialize
      <4> QED
        BY <1>1, <2>2, <3>2, <4>1, NoAnswer, Resting, AgreesNow
    <3>4. Stands(a, select[a].pc, session.path)'
      BY <2>2, <3>1, <3>2, <3>3 DEF Stands
    <3>5. PICK path \in Paths \cup {None} : path = session.path
      BY <1>1
    <3>6. path = session'.path
      BY <3>2, <3>5
    <3>7. Stands(a, select[a].pc, path)'
      BY <2>2, <3>1, <3>2, <3>3 DEF Stands
    <3> QED
      BY <2>3, <3>2, <3>6, <3>7, OneSelects
  <2>5. CASE ClearModel(a)
    <3>1. UNCHANGED <<session, loaded, toDart>>
      BY <2>5 DEF ClearModel
    <3>2. PICK path \in Paths \cup {None} : path = session'.path
      BY <1>2
    <3>3. CASE loaded.engine /\ SelectGoes(a, "clearing") /\ Sends(Call("unload", a, None))
      <4>1. Alone(a) /\ select'[a].pc = "clearing"
        BY <1>1, <2>3, <3>3, SelectNow
      <4>2. Unloads(a)'
        BY <1>1, <2>2, <3>1, <3>3, NoAnswer, UnloadsSent DEF Agrees, Holds
      <4>3. Stands(a, select[a].pc, path)'
        BY <4>1, <4>2 DEF Stands
      <4> QED
        BY <2>3, <3>2, <4>1, <4>3, OneSelects
    <3>4. CASE ~loaded.engine /\ SelectGoes(a, "forgetting") /\ UNCHANGED toNative
      <4>1. Alone(a) /\ select'[a].pc = "forgetting"
        BY <1>1, <2>3, <3>4, SelectNow
      <4>2. Nowhere' /\ Agrees' /\ ~loaded'.engine
        BY <1>1, <2>2, <3>1, <3>4, NoAnswer, Resting, AgreesNow
      <4>3. Stands(a, select[a].pc, path)'
        BY <4>1, <4>2 DEF Stands
      <4> QED
        BY <2>3, <3>2, <4>1, <4>3, OneSelects
    <3> QED
      BY <2>5, <3>3, <3>4 DEF ClearModel
  <2>6. ASSUME NEW path \in Paths, SelectModelPath(a, path) PROVE SelectsOK'
    BY <1>1, <2>2, <2>3, <2>6, Begun DEF SelectModelPath
  <2>7. select[a].pc = "idle"
    BY <2>1
  <2> QED
    BY <2>4, <2>5, <2>6, <2>7 DEF Session, ActiveRead, Disposed, LoadSucceeded, WarmedUp,
      AttemptFailed, Dropped, Saved, Cleared, Forgets, Forgotten, Answered
<1>4. CASE select[a].pc # "idle" /\ UNCHANGED selects
  <2>1. /\ \A b \in Selects \ {a} : select[b].pc = "idle"
        /\ selects' # 0
    BY <1>4 DEF SelectsOK
  <2>2. PICK path \in Paths \cup {None} : path = session.path /\ Stands(a, select[a].pc, path)
    BY DEF SelectsOK, Selecting
  <2>3. PICK now \in Paths \cup {None} : now = session'.path
    BY <1>2
  <2>4. ASSUME Alone(a), select'[a].pc # "idle", Stands(a, select[a].pc, now)' PROVE SelectsOK'
    BY <2>1, <2>3, <2>4, OneSelects
  <2>5. ASSUME SelectEnds(a), Settles' PROVE SelectsOK'
    <3>1. Alone(a) /\ select'[a].pc = "idle"
      BY <1>1, <2>1, <2>5, SelectNow
    <3> QED
      BY <2>1, <2>3, <2>5, <3>1, OneSelects
  <2>6. ASSUME NEW op, NEW pc, Answered(a, op, pc)
        PROVE  Receives(op) /\ Stands(a, pc, path) /\ select[a].pc = pc
    BY <2>2, <2>6 DEF Answered
  <2>7. ASSUME SelectGoes(a, "forgetting") \/ SelectGoes(a, "forgotten"),
               Clear, toNative' = toNative, Agrees', ~loaded'.engine
        PROVE  SelectsOK'
    <3>1. Alone(a) /\ select'[a].pc \in {"forgetting", "forgotten"}
      BY <1>1, <2>1, <2>7, SelectNow
    <3>2. Nowhere'
      BY <1>1, <2>7, Resting
    <3>3. Stands(a, select[a].pc, now)'
      BY <2>7, <3>1, <3>2 DEF Stands
    <3> QED
      BY <2>4, <3>1, <3>3
  <2>8. CASE ActiveRead(a)
    <3>1. Nowhere /\ Agrees /\ ~loaded.engine /\ ~session.loading /\ UNCHANGED <<toDart, nativeVars>>
      BY <2>2, <2>8 DEF ActiveRead, Stands
    <3>2. ASSUME NEW file \in Paths \cup {None}, BeginSelect(a, file) PROVE SelectsOK'
      BY <2>1, <3>1, <3>2, Begun
    <3>3. CASE /\ session' = [session EXCEPT !.path = None, !.failed = FALSE] /\ SelectEnds(a)
               /\ UNCHANGED <<toNative, loaded>>
      <4>1. Nowhere' /\ Agrees'
        BY <1>1, <3>1, <3>3, NoAnswer, Resting, AgreesNow
      <4>2. ~session'.loading
        BY <1>1, <3>1, <3>3 DEF Sessions
      <4> QED
        BY <2>5, <3>1, <3>3, <4>1, <4>2 DEF Settles
    <3> QED
      BY <1>1, <2>8, <3>2, <3>3 DEF ActiveRead
  <2>9. CASE Disposed(a)
    <3>1. Clear /\ Empty /\ select[a].path = path
      BY <1>1, <2>6, <2>9, UnloadsAnswered DEF Disposed, Stands, Answers
    <3>2. session' = session /\ loaded' = [llama |-> FALSE, engine |-> FALSE]
          /\ Attempts(a, select[a].path, 1)
      BY <2>9 DEF Disposed
    <3> QED
      BY <1>1, <2>1, <2>2, <3>1, <3>2, Attempted
  <2>10. CASE LoadSucceeded(a)
    <3>1. Clear /\ Holds(path) /\ select[a].path = path /\ LoadedIs(FALSE, FALSE)
      BY <1>1, <2>6, <2>10, LoadsAnswered DEF LoadSucceeded, Stands, Answers
    <3>5. session'.path = session.path
      BY <1>1, <2>10 DEF LoadSucceeded, Ready, Sessions
    <3>2. now = path
      BY <2>2, <2>3, <3>5
    <3>3. CASE /\ loaded' = [loaded EXCEPT !.llama = TRUE] /\ SelectGoes(a, "warming")
               /\ Sends(Call("generate", a, None))
      <4>1. Alone(a) /\ select'[a].pc = "warming" /\ select'[a].path = now
        BY <1>1, <2>1, <3>1, <3>2, <3>3, SelectNow
      <4>2. Warms(a, now)'
        BY <1>1, <3>1, <3>2, <3>3, WarmsSent
      <4>3. LoadedIs(TRUE, FALSE)'
        BY <1>1, <3>1, <3>3 DEF LoadedIs
      <4>4. Stands(a, select[a].pc, now)'
        BY <4>1, <4>2, <4>3 DEF Stands
      <4> QED
        BY <2>4, <4>1, <4>4
    <3>4. CASE Ready(a) /\ UNCHANGED toNative
      <4>1. /\ Alone(a) /\ select'[a].pc = "saving" /\ select'[a].path = now
            /\ loaded' = [llama |-> TRUE, engine |-> TRUE]
        <5>1. select' = [select EXCEPT ![a].pc = "saving", ![a].path = now]
          BY <2>2, <3>2, <3>4 DEF Ready
        <5>2. Alone(a) /\ select'[a].pc = "saving" /\ select'[a].path = now
          BY <1>1, <2>1, <5>1, SelectNow
        <5> QED
          BY <3>4, <5>2 DEF Ready
      <4>2. Nowhere' /\ Agrees' /\ loaded'.engine
        BY <1>1, <2>2, <3>1, <3>4, <3>5, <4>1, Resting, AgreesNow
      <4>3. Stands(a, select[a].pc, now)'
        BY <4>1, <4>2 DEF Stands
      <4> QED
        BY <2>4, <4>1, <4>3
    <3> QED
      BY <2>10, <3>3, <3>4 DEF LoadSucceeded
  <2>11. CASE WarmedUp(a)
    <3>1. Clear /\ Holds(path) /\ LoadedIs(TRUE, FALSE) /\ toNative' = toNative
      BY <1>1, <2>6, <2>11, WarmsAnswered DEF WarmedUp, Stands, Answers
    <3>7. session'.path = session.path
      BY <1>1, <2>11 DEF WarmedUp, Sessions
    <3>2. now = path
      BY <2>2, <2>3, <3>7
    <3>3. Alone(a) /\ select'[a].pc = "saving" /\ select'[a].path = now
      <4>1. select' = [select EXCEPT ![a].pc = "saving", ![a].path = now]
        BY <2>2, <2>11, <3>2 DEF WarmedUp
      <4> QED
        BY <1>1, <2>1, <4>1, SelectNow
    <3>4. loaded'.llama = TRUE /\ loaded'.engine = TRUE
      BY <1>1, <2>11, <3>1 DEF WarmedUp, LoadedIs
    <3>5. Nowhere' /\ Agrees' /\ loaded'.engine
      BY <1>1, <2>2, <3>1, <3>4, <3>7, Resting, AgreesNow
    <3>6. Stands(a, select[a].pc, now)'
      BY <3>3, <3>5 DEF Stands
    <3> QED
      BY <2>4, <3>3, <3>6
  <2>12. CASE AttemptFailed(a)
    <3>1. /\ Clear /\ (plugin.modelLoaded \/ Empty)
          /\ select[a].path = path /\ ~loaded'.engine /\ session' = session
      <4>1. CASE Answered(a, "notLoaded", "loading") /\ loaded' = [loaded EXCEPT !.llama = FALSE]
        <5>1. Clear /\ Empty /\ select[a].path = path /\ LoadedIs(FALSE, FALSE)
          BY <1>1, <2>6, <4>1, LoadsAnswered DEF Stands, Answers
        <5> QED
          BY <1>1, <2>12, <4>1, <5>1 DEF LoadedIs, AttemptFailed
      <4>2. CASE Answered(a, "notWarm", "warming") /\ UNCHANGED loaded
        <5>1. Clear /\ Holds(path) /\ select[a].path = path /\ LoadedIs(TRUE, FALSE)
          BY <1>1, <2>6, <4>2, WarmsAnswered DEF Stands, Answers
        <5> QED
          BY <1>1, <2>12, <4>2, <5>1 DEF LoadedIs, AttemptFailed, Holds
      <4> QED
        BY <2>12, <4>1, <4>2 DEF AttemptFailed
    <3>2. now = path
      BY <2>2, <2>3, <3>1
    <3>3. Alone(a) /\ select'[a].pc = "dropping" /\ select'[a].path = now
      BY <1>1, <2>1, <2>12, <3>1, <3>2, SelectNow DEF AttemptFailed
    <3>4. Unloads(a)'
      <4>1. Sends(Call("unload", a, None))
        BY <2>12 DEF AttemptFailed
      <4> QED
        BY <1>1, <3>1, <4>1, UnloadsSent
    <3>5. Stands(a, select[a].pc, now)'
      BY <3>1, <3>3, <3>4 DEF Stands
    <3> QED
      BY <2>4, <3>3, <3>5
  <2>13. CASE Dropped(a)
    <3>1. Clear /\ Empty /\ select[a].path = path /\ ~loaded.engine
      BY <1>1, <2>6, <2>13, UnloadsAnswered DEF Dropped, Stands, Answers
    <3>2. /\ loaded' \in [llama: BOOLEAN, engine: BOOLEAN] /\ ~loaded'.llama /\ ~loaded'.engine
      BY <1>1, <2>13, <3>1 DEF Dropped
    <3>3. CASE Attempts(a, select[a].path, select[a].attempt + 1) /\ UNCHANGED session
      BY <1>1, <2>1, <2>2, <3>1, <3>2, <3>3, Attempted
    <3>4. CASE /\ session' = [session EXCEPT !.loading = FALSE, !.failed = TRUE] /\ SelectEnds(a)
               /\ UNCHANGED toNative
      <4>1. Nowhere' /\ Agrees'
        BY <1>1, <3>1, <3>2, <3>4, Resting, AgreesNow
      <4>2. ~session'.loading
        BY <1>1, <3>4 DEF Sessions
      <4> QED
        BY <2>5, <3>2, <3>4, <4>1, <4>2 DEF Settles
    <3> QED
      BY <2>13, <3>3, <3>4 DEF Dropped
  <2>14. CASE Saved(a)
    <3>1. Nowhere /\ Agrees /\ loaded.engine /\ select[a].path = path
      BY <2>2, <2>14 DEF Saved, Stands
    <3>2. SelectEnds(a) /\ UNCHANGED <<toNative, toDart, loaded>>
      BY <2>14 DEF Saved
    <3>3. session'.path = session.path /\ ~session'.loading
      BY <1>1, <2>14 DEF Saved, Sessions
    <3>5. saved' = path \/ session'.failed
      BY <1>1, <2>14, <3>1 DEF Saved, Sessions
    <3>4. Nowhere' /\ Agrees'
      BY <1>1, <3>1, <3>2, <3>3, NoAnswer, Resting, AgreesNow
    <3> QED
      BY <2>2, <2>5, <3>2, <3>3, <3>4, <3>5 DEF Settles
  <2>15. CASE Cleared(a)
    <3>1. Clear /\ Empty
      BY <1>1, <2>6, <2>15, UnloadsAnswered DEF Cleared, Stands, Answers
    <3>2. /\ loaded' = [llama |-> FALSE, engine |-> FALSE] /\ SelectGoes(a, "forgetting")
          /\ toNative' = toNative
      BY <2>15 DEF Cleared
    <3>3. Agrees'
      BY <1>1, <3>1, <3>2, AgreesNow
    <3> QED
      BY <2>7, <3>1, <3>2, <3>3
  <2>16. CASE Forgets(a)
    <3>1. Nowhere /\ Agrees /\ ~loaded.engine
      BY <2>2, <2>16 DEF Forgets, Stands
    <3>2. SelectGoes(a, "forgotten") /\ UNCHANGED <<toNative, toDart, loaded, session>>
      BY <2>16 DEF Forgets
    <3> QED
      BY <1>1, <2>7, <3>1, <3>2, NoAnswer, AgreesNow
  <2>17. CASE Forgotten(a)
    <3>1. Nowhere /\ Agrees /\ ~loaded.engine
      BY <2>2, <2>17 DEF Forgotten, Stands
    <3>2. /\ session' = [path |-> None, loading |-> FALSE, failed |-> FALSE] /\ SelectEnds(a)
          /\ UNCHANGED <<toNative, toDart, loaded>>
      BY <2>17 DEF Forgotten
    <3>3. Nowhere' /\ Agrees' /\ ~session'.loading /\ ~loaded'.engine
      BY <1>1, <3>1, <3>2, NoAnswer, Resting, AgreesNow
    <3> QED
      BY <2>5, <3>2, <3>3 DEF Settles
  <2>18. ~SessionCall(a)
    BY <1>4 DEF SessionCall
  <2> QED
    BY <2>8, <2>9, <2>10, <2>11, <2>12, <2>13, <2>14, <2>15, <2>16, <2>17, <2>18
       DEF Session, Initialize, ClearModel, SelectModelPath
<1>5. SessionCall(a) \/ (select[a].pc # "idle" /\ UNCHANGED selects)
  BY DEF Session, Initialize, ClearModel, SelectModelPath, ActiveRead, Disposed, LoadSucceeded,
    WarmedUp, AttemptFailed, Dropped, Saved, Cleared, Forgets, Forgotten, Answered
<1> QED
  BY <1>3, <1>4, <1>5

LEMMA SelectsStep ==
  ASSUME ~OverlapSelects, TypesOK, SelectsOK, [Next]_vars
  PROVE  SelectsOK'
<1>1. CASE Generation
  BY <1>1, GenerationAside, QuietSelects DEF Runs
<1>2. ASSUME NEW a \in Selects, Session(a) PROVE SelectsOK'
  BY <1>2, SessionSelects
<1>3. CASE (MainThread \/ Worker) /\ UNCHANGED dartVars
  BY <1>3, QuietSelects DEF Runs, dartVars
<1>4. CASE UNCHANGED vars
  <2>1. Aside /\ UNCHANGED <<loaded, session, select, saved, selects>>
    BY <1>4, WireSame, KeepsSame DEF vars, pluginVars, nativeVars, dartVars, Aside, SameModels, Loading
  <2> QED
    BY <2>1, QuietSelects DEF Runs
<1> QED
  BY <1>1, <1>2, <1>3, <1>4, Steps

LEMMA SelectsStay ==
  ASSUME ~OverlapSelects
  PROVE  Spec => []SelectsOK
<1>1. ASSUME Init PROVE SelectsOK
  <2>1. Nowhere
    <3>1. Without(Wire, Replying)
      BY <1>1, EmptyWire DEF Init, PluginInit
    <3> QED
      BY <1>1, <3>1 DEF Init, PluginInit, Nowhere, Dispatched, Without, Loading
  <2>2. Agrees
    BY <1>1 DEF Init, PluginInit, Agrees, LoadedIs, Empty
  <2>3. ASSUME NEW a \in Selects PROVE select[a].pc = "idle" /\ Selecting(a)
    <3>1. select[a].pc = "idle" /\ session.path = None
      BY <1>1 DEF Init, Idle
    <3>2. Stands(a, select[a].pc, None)
      BY <3>1 DEF Stands
    <3> QED
      BY <3>1, <3>2 DEF Selecting
  <2> QED
    BY <1>1, <2>1, <2>2, <2>3 DEF Init, SelectsOK
<1>2. TypesOK /\ SelectsOK /\ [Next]_vars => SelectsOK'
  BY SelectsStep
<1> QED
  BY <1>1, <1>2, SessionTypesKept, PTL DEF Spec

(* Once a selection or deletion has settled, after any number of failed    *)
(* attempts, the session is ready exactly when the bridge holds the model  *)
(* the user selected, whatever was generating meanwhile.                   *)
THEOREM ReadyMeansLoaded ==
  ASSUME ~OverlapSelects
  PROVE  Spec => []ReadyIsLoaded
<1>1. SelectsOK => ReadyIsLoaded
  BY DEF SelectsOK, ReadyIsLoaded, AllIdle, Agrees, LoadedIs, Holds, Empty
<1> QED
  BY <1>1, SelectsStay, PTL

(* The model loaded at the next start is the one in use now, unless the    *)
(* user was told that the load failed.                                     *)
THEOREM ActiveModelSaved ==
  ASSUME ~OverlapSelects
  PROVE  Spec => []ActiveIsSaved
<1>1. SelectsOK => ActiveIsSaved
  BY DEF SelectsOK, ActiveIsSaved, AllIdle
<1> QED
  BY <1>1, SelectsStay, PTL
=============================================================================
