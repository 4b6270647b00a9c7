------------------------ MODULE FirestoreWritesProofs ------------------------
(***************************************************************************)
(* Proofs about FirestoreWrites.                                           *)
(***************************************************************************)
EXTENDS FirestoreWrites, WellFoundedInduction, SequenceTheorems, TLAPS

\* v is the user of the queues once the tasks before the i-th have run.
SignedInAt(i, v) ==
  \/ v = user /\ \A j \in 1..(i - 1) : work[j].do # "credential"
  \/ \E j \in 1..(i - 1) :
       /\ work[j].do = "credential" /\ work[j].of = v
       /\ \A k \in (j + 1)..(i - 1) : work[k].do # "credential"

\* A write runs as the user it was made by, and writes run in order.
WorkInv ==
  /\ \A i \in DOMAIN work : work[i].do = "write" =>
       work[i].of <= written /\ SignedInAt(i, by[work[i].of])
  /\ SignedInAt(Len(work) + 1, authUser)
  /\ \A i, j \in DOMAIN work :
       i < j /\ work[i].do = "write" /\ work[j].do = "write" => work[i].of < work[j].of

\* w was made, and is no longer in the worker queue.
Past(w) ==
  /\ w <= written
  /\ \A i \in DOMAIN work : work[i].do = "write" => w < work[i].of

\* Queues hold their user's writes in order, under ids that were given in
\* order; every callback is of one of them that nobody was told of yet.
Ordered(q) == \A i, j \in DOMAIN q : i < j => q[i].id < q[j].id /\ q[i].write < q[j].write

QueueInv ==
  /\ \A u \in Users : Ordered(queue[u])
  /\ \A u \in Users : \A i \in DOMAIN queue[u] :
       /\ queue[u][i].id < nextId
       /\ by[queue[u][i].write] = u
       /\ Past(queue[u][i].write)
  /\ \A c \in callbacks :
       /\ \E i \in DOMAIN queue[c.user] :
            queue[c.user][i].id = c.id /\ queue[c.user][i].write = c.write
       /\ reported[c.write] = "none"
  /\ \A w \in committed : Past(w)
  /\ \A w \in Writes : reported[w] # "none" => Past(w)

\* The pipeline is the front of the user's queue.
FrontOf(p, q) == Len(p) <= Len(q) /\ \A i \in 1..Len(p) : p[i] = q[i]

PipelineInv ==
  /\ FrontOf(pipeline, queue[user])
  /\ ~enabled => pipeline = <<>>

\* What was sent and not answered to the client is the pipeline.
StreamInv ==
  /\ IsStarted => enabled
  /\ state \in {"Starting", "Backoff"} \/ (IsOpen /\ ~handshake) => pipeline # <<>>
  /\ idle => IsOpen /\ handshake /\ pipeline = <<>>
  /\ handshake => IsOpen /\ greeted
  /\ IsOpen /\ ~handshake => Len(replies) = (IF greeted THEN 1 ELSE 0)
  /\ ~IsOpen => replies = <<>> /\ ~greeted
  /\ ~handshake => wire = <<>> /\ ~ended
  /\ handshake => 
       /\ Len(replies) + Len(wire) = Len(pipeline)
       /\ \A i \in 1..Len(replies) : replies[i] = pipeline[i].write
       /\ \A i \in 1..Len(wire) : wire[i] = pipeline[Len(replies) + i].write

\* Only a stream that starts waits for a token, for one, of its user.
Awaited(t) == t.do \in {"token", "noToken"} /\ t.closes = closes

TokenInv ==
  /\ \A f \in fetching : f.closes <= closes
  /\ \A i \in DOMAIN work : work[i].do \in {"token", "noToken"} => work[i].closes <= closes
  /\ \A f \in fetching : f.closes = closes =>
       /\ state = "Starting"
       /\ \A g \in fetching : g.closes = closes => g = f
       /\ \A i \in DOMAIN work : ~Awaited(work[i])
       /\ (f.got # Nobody /\ \A i \in DOMAIN work : work[i].do # "credential") => f.got = user
  /\ \A i \in DOMAIN work : Awaited(work[i]) =>
       /\ state = "Starting"
       /\ \A j \in DOMAIN work : Awaited(work[j]) => j = i
       /\ (work[i].do = "token" /\ \A j \in 1..(i - 1) : work[j].do # "credential")
            => work[i].of = user
  /\ IsOpen => credential = user

\* Of a user's writes, one after the last committed, or after one still in
\* the queue, can only have been committed if it is in the queue itself.
LastStands ==
  \A u \in Users : \A w \in committed :
    (by[w] = u /\ (w > last[u] \/ \E i \in DOMAIN queue[u] : w > queue[u][i].write)) =>
      w \in refused \/ \E i \in DOMAIN queue[u] : queue[u][i].write = w

\* Replies are to writes that were committed, and a call ends with a refusal.
ServerInv ==
  /\ handshake => \A i \in 1..Len(replies) : replies[i] \in committed /\ replies[i] <= last[user]
  /\ ended => wire # <<>> /\ wire[1] \in refused
  /\ LastStands
-----------------------------------------------------------------------------
USE WriteUsersAssumption, PendingAssumption, WriteBoundsAssumption

\* A set of numbers with a bound has a greatest one.
LEMMA Greatest ==
  ASSUME NEW ids \in SUBSET Nat, ids # {}, NEW n \in Nat, \A id \in ids : id < n
  PROVE  \E id \in ids : \A other \in ids : other <= id
<1>. DEFINE Bounds == {m \in Nat : \A id \in ids : id <= m}
<1>1. n \in Bounds
  OBVIOUS
<1>2. \E m \in Bounds : \A k \in Bounds : m <= k
  <2>. DEFINE Less == OpToRel(<, Nat)
  <2>1. IsWellFoundedOn(Less, Nat)
    BY NatLessThanWellFounded
  <2>2. \A k, m \in Nat : k < m => <<k, m>> \in Less
    BY DEF OpToRel
  <2>3. Bounds \subseteq Nat /\ Bounds # {}
    BY <1>1
  <2>. HIDE DEF Bounds, Less
  <2>4. \E m \in Bounds : \A k \in Bounds : ~(<<k, m>> \in Less)
    BY <2>1, <2>3, WFMin
  <2>5. \A k, m \in Nat : ~(k < m) => m <= k
    OBVIOUS
  <2> QED
    BY <2>2, <2>3, <2>4, <2>5, Zenon
<1>3. PICK m \in Bounds : \A k \in Bounds : m <= k
  BY <1>2
<1>4. m \in ids
  <2>1. SUFFICES ASSUME m \notin ids PROVE FALSE
    OBVIOUS
  <2>2. \A id \in ids : id <= m - 1 /\ m - 1 \in Nat
    BY <2>1
  <2>3. m - 1 \in Bounds
    BY <2>2
  <2> QED
    BY <2>3, <1>3
<1> QED
  BY <1>3, <1>4

\* The tail of a sequence.
LEMMA TailFacts ==
  ASSUME NEW S, NEW s \in Seq(S), s # <<>>
  PROVE  /\ Tail(s) \in Seq(S) /\ Len(Tail(s)) = Len(s) - 1
         /\ Len(s) \in Nat \ {0} /\ 1 \in DOMAIN s /\ Head(s) = s[1] /\ Head(s) \in S
         /\ \A i \in 1..(Len(s) - 1) : Tail(s)[i] = s[i + 1]
OBVIOUS

\* A sequence with an element more.
LEMMA AppendFacts ==
  ASSUME NEW S, NEW s \in Seq(S), NEW e \in S
  PROVE  /\ Append(s, e) \in Seq(S)
         /\ Len(Append(s, e)) = Len(s) + 1
         /\ \A i \in 1..Len(s) : Append(s, e)[i] = s[i]
         /\ Append(s, e)[Len(s) + 1] = e
OBVIOUS

\* Two sequences, one after the other.
LEMMA ConcatFacts ==
  ASSUME NEW S, NEW s \in Seq(S), NEW t \in Seq(S)
  PROVE  /\ s \o t \in Seq(S)
         /\ Len(s \o t) = Len(s) + Len(t)
         /\ \A i \in 1..Len(s) : (s \o t)[i] = s[i]
         /\ \A i \in 1..Len(t) : (s \o t)[Len(s) + i] = t[i]
OBVIOUS

\* A part of a sequence.
LEMMA SubSeqFacts ==
  ASSUME NEW S, NEW s \in Seq(S), NEW m \in 1..(Len(s) + 1), NEW n \in 0..Len(s)
  PROVE  /\ SubSeq(s, m, n) \in Seq(S)
         /\ Len(SubSeq(s, m, n)) = IF m <= n THEN n - m + 1 ELSE 0
         /\ \A i \in 1..(n - m + 1) : SubSeq(s, m, n)[i] = s[m + i - 1]
<1>1. \A i \in m..n : s[i] \in S
  OBVIOUS
<1> QED
  BY <1>1, SubSeqProperties
\* The fields of a batch.
LEMMA BatchFacts ==
  \A b \in Batch : b.id \in Nat /\ b.id > 0 /\ b.write \in Writes
BY DEF Batch

\* The elements of a sequence.
LEMMA ElementFacts ==
  ASSUME NEW S, NEW s \in Seq(S)
  PROVE  Len(s) \in Nat /\ DOMAIN s = 1..Len(s) /\ \A i \in 1..Len(s) : s[i] \in S
OBVIOUS

\* The writes of batches, in their order.
LEMMA WritesOfFacts ==
  ASSUME NEW s \in Seq(Batch)
  PROVE  /\ WritesOf(s) \in Seq(Writes)
         /\ Len(WritesOf(s)) = Len(s)
         /\ \A i \in 1..Len(s) : WritesOf(s)[i] = s[i].write
<1>1. \A i \in 1..Len(s) : s[i].write \in Writes
  BY ElementFacts, BatchFacts
<1>2. DOMAIN s = 1..Len(s) /\ Len(s) \in Nat
  OBVIOUS
<1>3. WritesOf(s) = [i \in 1..Len(s) |-> s[i].write]
  BY <1>2 DEF WritesOf
<1> QED
  BY <1>1, <1>2, <1>3

\* The first batch that NextBatches takes is the one behind the pipeline.
LEMMA RetrievedIsFront ==
  ASSUME NEW q \in Seq(Batch), NEW p \in Seq(Batch), Ordered(q), FrontOf(p, q)
  PROVE  Retrieved(q, p) = Len(p)
<1>. DEFINE R(n) == \A i \in DOMAIN q : i <= n <=> \E j \in DOMAIN p : q[i].id <= p[j].id
<1>1. /\ Len(p) \in 0..Len(q) /\ DOMAIN p = 1..Len(p) /\ DOMAIN q = 1..Len(q)
      /\ Len(q) \in Nat
      /\ \A i \in 1..Len(q) : q[i].id \in Nat
      /\ \A j \in 1..Len(p) : p[j] = q[j]
  BY ElementFacts, BatchFacts DEF FrontOf
<1>2. R(Len(p))
  <2>1. SUFFICES ASSUME NEW i \in 1..Len(q)
                 PROVE  i <= Len(p) <=> \E j \in 1..Len(p) : q[i].id <= p[j].id
    BY <1>1
  <2>2. CASE i <= Len(p)
    BY <2>2, <1>1
  <2>3. CASE ~(i <= Len(p))
    <3>1. \A j \in 1..Len(p) : j \in 1..Len(q) /\ j < i
      BY <2>3, <1>1
    <3>2. \A j \in 1..Len(p) : q[j].id < q[i].id
      BY <3>1, <1>1 DEF Ordered
    <3> QED
      BY <3>1, <3>2, <2>3, <1>1
  <2> QED
    BY <2>2, <2>3
<1>3. ASSUME NEW n \in 0..Len(q), R(n) PROVE n = Len(p)
  <2>1. \A i \in 1..Len(q) : i <= n <=> i <= Len(p)
    BY <1>1, <1>2, <1>3
  <2>2. n \in 1..Len(q) => n <= Len(p)
    BY <2>1, <1>1
  <2>3. Len(p) \in 1..Len(q) => Len(p) <= n
    BY <2>1, <1>1
  <2>4. Len(p) \in 0..Len(q) /\ Len(q) \in Nat
    BY <1>1
  <2> QED
    BY <2>2, <2>3, <2>4
<1>4. Retrieved(q, p) = CHOOSE n \in 0..Len(q) : R(n)
  BY DEF Retrieved
<1>. HIDE DEF R
<1>5. \E n \in 0..Len(q) : R(n)
  BY <1>1, <1>2
<1>6. (CHOOSE n \in 0..Len(q) : R(n)) \in 0..Len(q) /\ R(CHOOSE n \in 0..Len(q) : R(n))
  BY <1>5
<1> QED
  BY <1>3, <1>4, <1>6

\* NextBatches keeps the pipeline the front of the queue, and not too long.
LEMMA Filled ==
  ASSUME NEW q \in Seq(Batch), NEW p \in Seq(Batch), Ordered(q), FrontOf(p, q),
         Len(p) <= MaxPending, NEW new, new = NextBatches(q, p)
  PROVE  /\ new \in Seq(Batch) /\ p \o new \in Seq(Batch)
         /\ Len(p \o new) = Len(p) + Len(new) /\ Len(p \o new) <= MaxPending
         /\ FrontOf(p \o new, q)
         /\ \A i \in 1..Len(p) : (p \o new)[i] = p[i]
         /\ \A i \in 1..Len(new) : (p \o new)[Len(p) + i] = new[i]
<1>. DEFINE most == IF Len(q) < Len(p) + Room(p) THEN Len(q) ELSE Len(p) + Room(p)
<1>1. /\ Len(p) \in Nat /\ Len(q) \in Nat /\ Len(p) <= Len(q)
      /\ most \in Len(p)..Len(q) /\ most <= MaxPending
  BY DEF FrontOf, Room
<1>2. new = SubSeq(q, Len(p) + 1, most)
  BY RetrievedIsFront DEF NextBatches
<1>. HIDE DEF most
<1>3. /\ new \in Seq(Batch) /\ Len(new) = most - Len(p)
      /\ \A i \in 1..Len(new) : new[i] = q[Len(p) + i]
  <2>1. Len(p) + 1 \in 1..(Len(q) + 1) /\ most \in 0..Len(q)
    BY <1>1
  <2> QED
    BY <1>1, <1>2, <2>1, SubSeqFacts
<1>4. /\ p \o new \in Seq(Batch) /\ Len(p \o new) = Len(p) + Len(new)
      /\ \A i \in 1..Len(p) : (p \o new)[i] = p[i]
      /\ \A i \in 1..Len(new) : (p \o new)[Len(p) + i] = new[i]
  BY <1>3, ConcatFacts
<1>5. FrontOf(p \o new, q)
  <2>1. SUFFICES ASSUME NEW i \in 1..Len(p \o new) PROVE (p \o new)[i] = q[i]
    BY <1>1, <1>3, <1>4 DEF FrontOf
  <2>2. CASE i <= Len(p)
    BY <2>2, <1>1, <1>4 DEF FrontOf
  <2>3. CASE i > Len(p)
    <3>1. i - Len(p) \in 1..Len(new) /\ i = Len(p) + (i - Len(p))
      BY <2>3, <1>1, <1>3, <1>4
    <3> QED
      BY <3>1, <1>3, <1>4
  <2> QED
    BY <2>2, <2>3, <1>1, <1>3, <1>4
<1> QED
  BY <1>1, <1>3, <1>4, <1>5

\* What FillWritePipeline sends behind what was sent: the writes it adds to p.
SentOn(p, s, h, sent) ==
  /\ ~Writable(s, h) => wire' = sent
  /\ Writable(s, h) =>
       /\ Len(wire') = Len(sent) + Len(pipeline') - Len(p)
       /\ \A i \in 1..Len(sent) : wire'[i] = sent[i]
       /\ \A i \in 1..(Len(pipeline') - Len(p)) :
            wire'[Len(sent) + i] = pipeline'[Len(p) + i].write

\* What FillWritePipeline does.
LEMMA FillFacts ==
  ASSUME NEW q \in Seq(Batch), NEW p \in Seq(Batch), Ordered(q), FrontOf(p, q),
         Len(p) <= MaxPending, NEW sent \in Seq(Writes),
         NEW s, NEW h, NEW marked, NEW asked,
         FillWritePipeline(q, p, s, h, sent, marked, asked)
  PROVE  /\ pipeline' \in Seq(Batch) /\ Len(pipeline') <= MaxPending
         /\ FrontOf(pipeline', q)
         /\ Len(p) <= Len(pipeline') /\ \A i \in 1..Len(p) : pipeline'[i] = p[i]
         /\ ~enabled' => pipeline' = p
         /\ wire' \in Seq(Writes)
         /\ SentOn(p, s, h, sent)
         /\ idle' <=> \/ s = "Open" /\ enabled' /\ pipeline' = <<>>
                      \/ marked /\ ~(Writable(s, h) /\ pipeline' # p)
         /\ state' = IF enabled' /\ pipeline' # <<>> /\ s = "Error" THEN "Backoff"
                     ELSE IF enabled' /\ pipeline' # <<>> /\ s = "Initial" THEN "Starting"
                     ELSE s
         /\ fetching' = IF enabled' /\ pipeline' # <<>> /\ s = "Initial"
                          THEN asked \cup {Request(closes')} ELSE asked
<1>. DEFINE new == IF enabled' THEN NextBatches(q, p) ELSE <<>>
<1>1. /\ new \in Seq(Batch) /\ p \o new \in Seq(Batch)
      /\ Len(p \o new) = Len(p) + Len(new) /\ Len(p \o new) <= MaxPending
      /\ FrontOf(p \o new, q)
      /\ \A i \in 1..Len(p) : (p \o new)[i] = p[i]
      /\ \A i \in 1..Len(new) : (p \o new)[Len(p) + i] = new[i]
  <2>1. CASE enabled'
    BY <2>1, Filled
  <2>2. CASE ~enabled'
    <3>1. new = <<>> /\ p \o new = p
      BY <2>2
    <3>. HIDE DEF new
    <3> QED
      BY <3>1
  <2> QED
    BY <2>1, <2>2
<1>2. ~enabled' => new = <<>>
  OBVIOUS
<1>3. /\ pipeline' = p \o new
      /\ wire' = IF Writable(s, h) THEN sent \o WritesOf(new) ELSE sent
      /\ idle' = \/ s = "Open" /\ enabled' /\ p \o new = <<>>
                 \/ marked /\ ~(Writable(s, h) /\ new # <<>>)
      /\ state' = CASE enabled' /\ s \in {"Initial", "Error"} /\ p \o new # <<>> /\ s = "Error" -> "Backoff"
                    [] enabled' /\ s \in {"Initial", "Error"} /\ p \o new # <<>> /\ s = "Initial" -> "Starting"
                    [] OTHER -> s
      /\ fetching' = IF enabled' /\ s \in {"Initial", "Error"} /\ p \o new # <<>> /\ s = "Initial"
                       THEN asked \cup {Request(closes')} ELSE asked
  BY DEF FillWritePipeline
<1>. HIDE DEF new
<1>4. pipeline' = p <=> new = <<>>
  BY <1>1, <1>3
<1>5. /\ WritesOf(new) \in Seq(Writes) /\ Len(WritesOf(new)) = Len(new)
      /\ \A i \in 1..Len(new) : WritesOf(new)[i] = new[i].write
  BY <1>1, WritesOfFacts
<1>6. /\ sent \o WritesOf(new) \in Seq(Writes)
      /\ Len(sent \o WritesOf(new)) = Len(sent) + Len(new)
      /\ \A i \in 1..Len(sent) : (sent \o WritesOf(new))[i] = sent[i]
      /\ \A i \in 1..Len(new) : (sent \o WritesOf(new))[Len(sent) + i] = WritesOf(new)[i]
  <2>1. PICK t \in Seq(Writes) : t = WritesOf(new)
    BY <1>5
  <2>2. /\ sent \o t \in Seq(Writes) /\ Len(sent \o t) = Len(sent) + Len(t)
        /\ \A i \in 1..Len(sent) : (sent \o t)[i] = sent[i]
        /\ \A i \in 1..Len(t) : (sent \o t)[Len(sent) + i] = t[i]
    BY ConcatFacts
  <2> QED
    BY <1>5, <2>1, <2>2
<1>7. /\ wire' \in Seq(Writes)
      /\ ~Writable(s, h) => wire' = sent
  BY <1>3, <1>6
<1>8. Writable(s, h) =>
         /\ Len(wire') = Len(sent) + Len(pipeline') - Len(p)
         /\ \A i \in 1..Len(sent) : wire'[i] = sent[i]
         /\ \A i \in 1..(Len(pipeline') - Len(p)) :
              wire'[Len(sent) + i] = pipeline'[Len(p) + i].write
  <2>1. Len(pipeline') - Len(p) = Len(new)
    BY <1>1, <1>3
  <2> QED
    <3>. SUFFICES ASSUME Writable(s, h)
                  PROVE  /\ Len(wire') = Len(sent) + Len(new)
                         /\ \A i \in 1..Len(sent) : wire'[i] = sent[i]
                         /\ \A i \in 1..Len(new) :
                              wire'[Len(sent) + i] = pipeline'[Len(p) + i].write
      BY <2>1
    <3>1. wire' = sent \o WritesOf(new)
      BY <1>3
    <3>2. \A i \in 1..Len(new) : pipeline'[Len(p) + i] = new[i]
      BY <1>1, <1>3
    <3>3. \A i \in 1..Len(new) : wire'[Len(sent) + i] = WritesOf(new)[i]
      BY <3>1, <1>6
    <3>4. \A i \in 1..Len(new) : WritesOf(new)[i] = new[i].write
      BY <1>5
    <3>5. \A i \in 1..Len(new) : wire'[Len(sent) + i] = pipeline'[Len(p) + i].write
      BY <3>2, <3>3, <3>4
    <3> QED
      BY <3>1, <3>5, <1>6
<1>9. idle' <=> \/ s = "Open" /\ enabled' /\ pipeline' = <<>>
                \/ marked /\ ~(Writable(s, h) /\ pipeline' # p)
  BY <1>3, <1>4
<1>10. /\ state' = IF enabled' /\ pipeline' # <<>> /\ s = "Error" THEN "Backoff"
                   ELSE IF enabled' /\ pipeline' # <<>> /\ s = "Initial" THEN "Starting"
                   ELSE s
       /\ fetching' = IF enabled' /\ pipeline' # <<>> /\ s = "Initial"
                        THEN asked \cup {Request(closes')} ELSE asked
  BY <1>3
<1>11. /\ pipeline' \in Seq(Batch) /\ Len(pipeline') <= MaxPending
       /\ FrontOf(pipeline', q)
       /\ Len(p) <= Len(pipeline') /\ \A i \in 1..Len(p) : pipeline'[i] = p[i]
       /\ ~enabled' => pipeline' = p
  BY <1>1, <1>2, <1>3, <1>4
<1>12. SentOn(p, s, h, sent)
  BY <1>7, <1>8 DEF SentOn
<1> QED
  BY <1>7, <1>9, <1>10, <1>11, <1>12

\* That alone.
LEMMA FillSends ==
  ASSUME NEW q \in Seq(Batch), NEW p \in Seq(Batch), Ordered(q), FrontOf(p, q),
         Len(p) <= MaxPending, NEW sent \in Seq(Writes),
         NEW s, NEW h, NEW marked, NEW asked,
         FillWritePipeline(q, p, s, h, sent, marked, asked)
  PROVE  SentOn(p, s, h, sent)
BY FillFacts
-----------------------------------------------------------------------------
\* A queue without its first batch is its tail.
LEMMA WithoutFirst ==
  ASSUME NEW q \in Seq(Batch), Ordered(q), q # <<>>
  PROVE  Without(q, q[1]) = Tail(q)
<1>1. /\ 1 \in DOMAIN q /\ DOMAIN q = 1..Len(q) /\ Len(q) \in Nat \ {0}
      /\ \A i \in 1..Len(q) : q[i].id \in Nat
  BY ElementFacts, BatchFacts
<1>2. \A i \in DOMAIN q : q[i].id = q[1].id => i = 1
  <2>1. SUFFICES ASSUME NEW i \in DOMAIN q, q[i].id = q[1].id, 1 < i PROVE FALSE
    BY <1>1
  <2>2. q[1].id < q[i].id
    BY <1>1, <2>1 DEF Ordered
  <2> QED
    BY <1>1, <2>1, <2>2
<1>3. (CHOOSE i \in DOMAIN q : q[i].id = q[1].id) = 1
  BY <1>1, <1>2
<1>4. Without(q, q[1]) = SubSeq(q, 1, 0) \o SubSeq(q, 2, Len(q))
  <2>1. Without(q, q[1]) = SubSeq(q, 1, 1 - 1) \o SubSeq(q, 1 + 1, Len(q))
    BY <1>3, Zenon DEF Without
  <2>2. 1 - 1 = 0 /\ 1 + 1 = 2
    OBVIOUS
  <2> QED
    BY <2>1, <2>2, Zenon
<1>5. SubSeq(q, 1, 0) = <<>> /\ SubSeq(q, 2, Len(q)) = Tail(q)
  BY SubSeqEmpty, TailIsSubSeq
<1>6. Tail(q) \in Seq(Batch)
  OBVIOUS
<1> QED
  BY <1>4, <1>5, <1>6, ConcatEmptySeq

\* No batch on disk has an id above HighestId.
LEMMA HighestIdFacts ==
  ASSUME Types, QueueInv
  PROVE  /\ HighestId \in Nat
         /\ \A u \in Users : \A i \in DOMAIN queue[u] : queue[u][i].id <= HighestId
<1>. DEFINE ids == UNION {{queue[u][i].id : i \in DOMAIN queue[u]} : u \in Users}
<1>1. \A u \in Users : \A i \in DOMAIN queue[u] :
        queue[u][i].id \in Nat /\ queue[u][i].id < nextId /\ queue[u][i].id \in ids
  <2>1. SUFFICES ASSUME NEW u \in Users, NEW i \in DOMAIN queue[u]
                 PROVE  queue[u][i].id \in Nat /\ queue[u][i].id < nextId /\ queue[u][i].id \in ids
    OBVIOUS
  <2>2. queue[u] \in Seq(Batch)
    BY DEF Types
  <2>3. queue[u][i] \in Batch
    BY <2>2, ElementFacts
  <2> QED
    BY <2>3, BatchFacts DEF QueueInv
<1>2. ids \in SUBSET Nat /\ nextId \in Nat /\ \A id \in ids : id < nextId
  BY <1>1 DEF Types
<1>3. HighestId = IF ids = {} THEN 0 ELSE CHOOSE id \in ids : \A other \in ids : other <= id
  BY DEF HighestId
<1>. HIDE DEF ids
<1>4. CASE ids = {}
  BY <1>1, <1>3, <1>4
<1>5. CASE ids # {}
  <2>1. \E id \in ids : \A other \in ids : other <= id
    BY <1>2, <1>5, Greatest
  <2>2. HighestId \in ids /\ \A other \in ids : other <= HighestId
    BY <1>3, <1>5, <2>1
  <2> QED
    BY <1>1, <1>2, <2>2
<1> QED
  BY <1>4, <1>5

\* What tasks there are.
LEMMA TaskFacts ==
  /\ \A w \in Writes : [do |-> "write", of |-> w] \in Task
  /\ \A u \in Users : [do |-> "credential", of |-> u] \in Task
  /\ [do |-> "enable"] \in Task /\ [do |-> "disable"] \in Task /\ [do |-> "connected"] \in Task
  /\ \A u \in Users, n \in Nat : [do |-> "token", of |-> u, closes |-> n] \in Task
  /\ \A n \in Nat : [do |-> "noToken", closes |-> n] \in Task
BY DEF Task

\* The fields of a task.
LEMMA TaskFields ==
  ASSUME NEW t \in Task
  PROVE  /\ t.do = "write" => t.of \in Writes
         /\ t.do \in {"credential", "token"} => t.of \in Users
         /\ t.do \in {"token", "noToken"} => t.closes \in Nat
BY DEF Task
-----------------------------------------------------------------------------
IInv ==
  Types /\ WorkInv /\ QueueInv /\ PipelineInv /\ StreamInv /\ TokenInv /\ ServerInv

\* A task is run, as `step` says.
Runs(step) == work # <<>> /\ work' = Tail(work) /\ step /\ UNCHANGED appVars

Skips ==
  /\ ~SameLife(work[1])
  /\ UNCHANGED <<fetching, localVars, remoteVars, callVars, serverVars>>

\* The first task, and the tasks after it.
LEMMA HeadOfWork ==
  ASSUME Types, work # <<>>
  PROVE  /\ Head(work) = work[1] /\ work[1] \in Task /\ Len(work) \in Nat \ {0}
         /\ Tail(work) \in Seq(Task) /\ Len(Tail(work)) = Len(work) - 1
         /\ \A i \in 1..(Len(work) - 1) : Tail(work)[i] = work[i + 1]
<1>1. work \in Seq(Task)
  BY DEF Types
<1> QED
  BY <1>1, TailFacts

\* The tasks, by what they do.
LEMMA TaskCases ==
  ASSUME Types, RunTask
  PROVE  \/ Runs(work[1].do = "write" /\ WriteMutations(work[1].of))
         \/ Runs(work[1].do = "enable" /\ RunEnable)
         \/ Runs(work[1].do = "disable" /\ RunDisable)
         \/ Runs(work[1].do = "connected" /\ Reconnect)
         \/ Runs(work[1].do = "credential" /\ HandleCredentialChange(work[1].of))
         \/ Runs(work[1].do = "token" /\ SameLife(work[1]) /\ ResumeStart(work[1].of))
         \/ Runs(work[1].do = "noToken" /\ SameLife(work[1]) /\ StartFails)
         \/ Runs(work[1].do \in {"token", "noToken"} /\ Skips)
<1>1. Head(work) = work[1]
  BY HeadOfWork DEF RunTask
<1> QED
  BY <1>1, Zenon DEF RunTask, Runs, Skips

\* The batches of a queue.
LEMMA QueueTypes ==
  ASSUME Types, NEW u \in Users
  PROVE  /\ queue[u] \in Seq(Batch) /\ Len(queue[u]) \in Nat /\ DOMAIN queue[u] = 1..Len(queue[u])
         /\ \A i \in 1..Len(queue[u]) :
              /\ queue[u][i] \in Batch /\ queue[u][i].id \in Nat /\ queue[u][i].id > 0
              /\ queue[u][i].write \in Writes
<1>1. queue[u] \in Seq(Batch)
  BY DEF Types
<1> QED
  BY <1>1, ElementFacts, BatchFacts

\* The batches of the pipeline.
LEMMA PipelineTypes ==
  ASSUME Types
  PROVE  /\ pipeline \in Seq(Batch) /\ Len(pipeline) \in Nat /\ Len(pipeline) <= MaxPending
         /\ DOMAIN pipeline = 1..Len(pipeline)
         /\ \A i \in 1..Len(pipeline) :
              /\ pipeline[i] \in Batch /\ pipeline[i].id \in Nat /\ pipeline[i].write \in Writes
<1>1. pipeline \in Seq(Batch) /\ Len(pipeline) <= MaxPending
  BY DEF Types
<1> QED
  BY <1>1, ElementFacts, BatchFacts

\* The pipeline starts where the queue does.
LEMMA FrontFacts ==
  ASSUME IInv, pipeline # <<>>
  PROVE  queue[user] # <<>> /\ Head(pipeline) = queue[user][1] /\ Head(pipeline) = pipeline[1]
<1>1. user \in Users /\ FrontOf(pipeline, queue[user])
  BY DEF IInv, Types, PipelineInv
<1>2. /\ pipeline \in Seq(Batch) /\ Len(pipeline) \in Nat
      /\ queue[user] \in Seq(Batch) /\ Len(queue[user]) \in Nat
  BY <1>1, PipelineTypes, QueueTypes DEF IInv
<1>3. Head(pipeline) = pipeline[1] /\ Len(pipeline) > 0
  BY <1>2, TailFacts
<1>4. Len(queue[user]) > 0 /\ pipeline[1] = queue[user][1]
  BY <1>1, <1>2, <1>3 DEF FrontOf
<1> QED
  BY <1>2, <1>3, <1>4

\* The front of the pipeline is the front of the queue: what is removed from
\* the one is removed from the other.
LEMMA RemoveFacts ==
  ASSUME IInv, pipeline # <<>>, RemoveBatch(Head(pipeline))
  PROVE  /\ queue[user] # <<>> /\ Head(pipeline) = pipeline[1] /\ pipeline[1] = queue[user][1]
         /\ queue' = [queue EXCEPT ![user] = Tail(queue[user])]
         /\ queue'[user] = Tail(queue[user]) /\ queue'[user] \in Seq(Batch)
         /\ Len(queue'[user]) = Len(queue[user]) - 1
         /\ \A i \in 1..(Len(queue[user]) - 1) : queue'[user][i] = queue[user][i + 1]
         /\ \A u \in Users \ {user} : queue'[u] = queue[u]
         /\ queue' \in [Users -> Seq(Batch)]
         /\ Ordered(queue'[user])
         /\ Tail(pipeline) \in Seq(Batch) /\ Len(Tail(pipeline)) = Len(pipeline) - 1
         /\ \A i \in 1..(Len(pipeline) - 1) : Tail(pipeline)[i] = pipeline[i + 1]
         /\ FrontOf(Tail(pipeline), queue'[user])
<1>1. user \in Users /\ queue \in [Users -> Seq(Batch)]
  BY DEF IInv, Types
<1>2. Ordered(queue[user]) /\ FrontOf(pipeline, queue[user])
  BY <1>1 DEF IInv, QueueInv, PipelineInv
<1>3. /\ pipeline \in Seq(Batch) /\ Len(pipeline) \in Nat
      /\ queue[user] \in Seq(Batch) /\ Len(queue[user]) \in Nat
  BY <1>1, PipelineTypes, QueueTypes DEF IInv
<1>4. /\ Head(pipeline) = pipeline[1] /\ Len(pipeline) > 0
      /\ Tail(pipeline) \in Seq(Batch) /\ Len(Tail(pipeline)) = Len(pipeline) - 1
      /\ \A i \in 1..(Len(pipeline) - 1) : Tail(pipeline)[i] = pipeline[i + 1]
  BY <1>3, TailFacts
<1>5. Len(queue[user]) > 0 /\ pipeline[1] = queue[user][1]
  BY <1>2, <1>3, <1>4 DEF FrontOf
<1>6. PICK q \in Seq(Batch) : q = queue[user]
  BY <1>3
<1>7. q # <<>> /\ Ordered(q)
  BY <1>2, <1>5, <1>6
<1>8. Without(q, q[1]) = Tail(q)
  BY <1>7, WithoutFirst
<1>9. /\ Tail(q) \in Seq(Batch) /\ Len(Tail(q)) = Len(q) - 1
      /\ \A i \in 1..(Len(q) - 1) : Tail(q)[i] = q[i + 1]
  BY <1>7, TailFacts
<1>10. queue' = [queue EXCEPT ![user] = Tail(q)]
  BY <1>1, <1>4, <1>5, <1>6, <1>8, Zenon DEF RemoveBatch
<1>11. /\ queue'[user] = Tail(q) /\ \A u \in Users \ {user} : queue'[u] = queue[u]
       /\ queue' \in [Users -> Seq(Batch)]
  BY <1>1, <1>9, <1>10
<1>12. Ordered(Tail(q))
  <2>1. SUFFICES ASSUME NEW i \in 1..(Len(q) - 1), NEW j \in 1..(Len(q) - 1), i < j
                 PROVE  Tail(q)[i].id < Tail(q)[j].id /\ Tail(q)[i].write < Tail(q)[j].write
    BY <1>9 DEF Ordered
  <2>2. i + 1 \in DOMAIN q /\ j + 1 \in DOMAIN q /\ i + 1 < j + 1
    BY <1>3, <1>6, <2>1
  <2>3. q[i + 1].id < q[j + 1].id /\ q[i + 1].write < q[j + 1].write
    BY <1>7, <2>2 DEF Ordered
  <2> QED
    BY <1>9, <2>3
<1>13. FrontOf(Tail(pipeline), Tail(q))
  <2>1. Len(pipeline) <= Len(q) /\ \A i \in 1..Len(pipeline) : pipeline[i] = q[i]
    BY <1>2, <1>6 DEF FrontOf
  <2>2. Len(Tail(pipeline)) <= Len(Tail(q))
    BY <1>3, <1>4, <1>6, <1>9, <2>1
  <2>3. ASSUME NEW i \in 1..Len(Tail(pipeline)) PROVE Tail(pipeline)[i] = Tail(q)[i]
    <3>1. i \in 1..(Len(pipeline) - 1) /\ i + 1 \in 1..Len(pipeline) /\ i \in 1..(Len(q) - 1)
      BY <1>3, <1>4, <1>6, <2>1
    <3> QED
      BY <1>4, <1>9, <2>1, <3>1
  <2> QED
    BY <2>2, <2>3 DEF FrontOf
<1> QED
  BY <1>4, <1>5, <1>6, <1>7, <1>9, <1>10, <1>11, <1>12, <1>13

\* A write joins the end of the queue.
LEMMA PersistFacts ==
  ASSUME IInv, NEW w \in Writes, \A i \in DOMAIN queue[user] : queue[user][i].write < w,
         queue' = [queue EXCEPT ![user] = Append(@, [id |-> nextId, write |-> w])]
  PROVE  /\ [id |-> nextId, write |-> w] \in Batch
         /\ queue'[user] = Append(queue[user], [id |-> nextId, write |-> w])
         /\ queue'[user] \in Seq(Batch)
         /\ Len(queue'[user]) = Len(queue[user]) + 1
         /\ \A i \in 1..Len(queue[user]) : queue'[user][i] = queue[user][i]
         /\ queue'[user][Len(queue[user]) + 1] = [id |-> nextId, write |-> w]
         /\ \A u \in Users \ {user} : queue'[u] = queue[u]
         /\ queue' \in [Users -> Seq(Batch)]
         /\ Ordered(queue'[user])
         /\ FrontOf(pipeline, queue'[user])
<1>. DEFINE b == [id |-> nextId, write |-> w]
<1>1. /\ user \in Users /\ queue \in [Users -> Seq(Batch)] /\ nextId \in Nat \ {0}
      /\ b \in Batch /\ b.id = nextId /\ b.write = w
  BY DEF IInv, Types, Batch
<1>2. /\ Ordered(queue[user]) /\ FrontOf(pipeline, queue[user])
      /\ \A i \in DOMAIN queue[user] : queue[user][i].id < nextId
  BY <1>1 DEF IInv, QueueInv, PipelineInv
<1>. HIDE DEF b
<1>3. PICK q \in Seq(Batch) : q = queue[user]
  BY <1>1
<1>4. Len(q) \in Nat /\ DOMAIN q = 1..Len(q)
  BY ElementFacts
<1>5. /\ Append(q, b) \in Seq(Batch) /\ Len(Append(q, b)) = Len(q) + 1
      /\ \A i \in 1..Len(q) : Append(q, b)[i] = q[i]
      /\ Append(q, b)[Len(q) + 1] = b
  BY <1>1, AppendFacts
<1>6. queue' = [queue EXCEPT ![user] = Append(q, b)]
  BY <1>3 DEF b
<1>7. /\ queue'[user] = Append(q, b) /\ \A u \in Users \ {user} : queue'[u] = queue[u]
      /\ queue' \in [Users -> Seq(Batch)]
  BY <1>1, <1>5, <1>6
<1>8. Ordered(Append(q, b))
  <2>1. SUFFICES ASSUME NEW i \in 1..(Len(q) + 1), NEW j \in 1..(Len(q) + 1), i < j
                 PROVE  /\ Append(q, b)[i].id < Append(q, b)[j].id
                        /\ Append(q, b)[i].write < Append(q, b)[j].write
    BY <1>4, <1>5 DEF Ordered
  <2>2. i \in 1..Len(q) /\ Append(q, b)[i] = q[i]
    BY <1>4, <1>5, <2>1
  <2>3. CASE j = Len(q) + 1
    BY <1>1, <1>2, <1>3, <1>4, <1>5, <2>2, <2>3
  <2>4. CASE j # Len(q) + 1
    <3>1. j \in 1..Len(q) /\ Append(q, b)[j] = q[j]
      BY <1>4, <1>5, <2>4
    <3> QED
      BY <1>2, <1>3, <1>4, <2>1, <2>2, <3>1 DEF Ordered
  <2> QED
    BY <2>3, <2>4
<1>9. FrontOf(pipeline, Append(q, b))
  <2>1. Len(pipeline) \in Nat /\ Len(pipeline) <= Len(q) /\ \A i \in 1..Len(pipeline) : pipeline[i] = q[i]
    BY <1>2, <1>3, PipelineTypes DEF FrontOf, IInv
  <2>2. Len(pipeline) <= Len(Append(q, b))
    BY <1>4, <1>5, <2>1
  <2>3. \A i \in 1..Len(pipeline) : pipeline[i] = Append(q, b)[i]
    BY <1>4, <1>5, <2>1
  <2> QED
    BY <2>2, <2>3 DEF FrontOf
<1> QED
  BY <1>1, <1>3, <1>5, <1>7, <1>8, <1>9 DEF b

\* The empty pipeline is the front of every queue.
LEMMA EmptyFront ==
  ASSUME NEW q \in Seq(Batch)
  PROVE  <<>> \in Seq(Batch) /\ FrontOf(<<>>, q) /\ Len(<<>>) = 0
BY DEF FrontOf
-----------------------------------------------------------------------------
(* Types.                                                                   *)

States == {"Initial", "Starting", "Open", "Error", "Backoff"}
Fetches == [closes : Nat, got : Users \cup {Nobody}]

\* A request for a token.
LEMMA RequestFacts ==
  ASSUME NEW n \in Nat
  PROVE  Request(n) \in Fetches /\ Request(n).closes = n /\ Request(n).got = Nobody
BY DEF Request, Fetches

\* The end of a call keeps the types.
LEMMA CallEndsTypes ==
  ASSUME Types, CallEnds
  PROVE  /\ committed' \subseteq Writes /\ refused' \subseteq Writes
         /\ last' \in [Users -> Writes \cup {Hello}]
         /\ credential' \in Users /\ replies' \in Seq(Writes \cup {Hello})
         /\ greeted' \in BOOLEAN /\ ended' \in BOOLEAN
<1>1. wire \in Seq(Writes) /\ Len(wire) \in Nat /\ \A i \in 1..Len(wire) : wire[i] \in Writes
  BY ElementFacts DEF Types
<1>2. PICK n \in 0..Len(wire) :
        /\ committed' = committed \cup {wire[i] : i \in 1..n}
        /\ last' = IF n = 0 THEN last ELSE [last EXCEPT ![by[wire[n]]] = wire[n]]
  BY <1>1 DEF CallEnds
<1>3. committed' \subseteq Writes
  <2>1. committed \subseteq Writes
    BY DEF Types
  <2>2. \A i \in 1..n : wire[i] \in Writes
    BY <1>1
  <2> QED
    BY <1>2, <2>1, <2>2
<1>4. last' \in [Users -> Writes \cup {Hello}]
  <2>1. last \in [Users -> Writes \cup {Hello}]
    BY DEF Types
  <2>2. CASE n = 0
    BY <1>2, <2>1, <2>2
  <2>3. CASE n # 0
    <3>1. wire[n] \in Writes
      BY <1>1, <2>3
    <3>2. last' = [last EXCEPT ![by[wire[n]]] = wire[n]]
      BY <1>2, <2>3
    <3> QED
      BY <2>1, <3>1, <3>2
  <2> QED
    BY <2>2, <2>3
<1>5. /\ replies' = <<>> /\ greeted' = FALSE /\ ended' = FALSE
      /\ credential' = credential /\ refused' = refused
  BY Zenon DEF CallEnds
<1>6. <<>> \in Seq(Writes \cup {Hello}) /\ credential \in Users /\ refused \subseteq Writes
  BY DEF Types
<1> QED
  BY <1>3, <1>4, <1>5, <1>6

\* So does filling the pipeline.
LEMMA FillTypes ==
  ASSUME Types, NEW q \in Seq(Batch), NEW p \in Seq(Batch), Ordered(q), FrontOf(p, q),
         Len(p) <= MaxPending, NEW sent \in Seq(Writes),
         NEW s \in States, NEW h, NEW marked \in BOOLEAN, NEW asked, asked \subseteq Fetches,
         closes' \in Nat,
         FillWritePipeline(q, p, s, h, sent, marked, asked)
  PROVE  /\ pipeline' \in Seq(Batch) /\ Len(pipeline') <= MaxPending
         /\ wire' \in Seq(Writes) /\ idle' \in BOOLEAN
         /\ state' \in States /\ fetching' \subseteq Fetches
<1>1. /\ pipeline' \in Seq(Batch) /\ Len(pipeline') <= MaxPending
      /\ wire' \in Seq(Writes)
      /\ state' = IF enabled' /\ pipeline' # <<>> /\ s = "Error" THEN "Backoff"
                  ELSE IF enabled' /\ pipeline' # <<>> /\ s = "Initial" THEN "Starting"
                  ELSE s
      /\ fetching' = IF enabled' /\ pipeline' # <<>> /\ s = "Initial"
                       THEN asked \cup {Request(closes')} ELSE asked
  BY FillFacts
<1>2. idle' \in BOOLEAN
  BY DEF FillWritePipeline
<1>3. state' \in States
  BY <1>1 DEF States
<1>4. Request(closes') \in Fetches
  BY RequestFacts
<1> QED
  BY <1>1, <1>2, <1>3, <1>4

\* The same, of the stream as it is.
LEMMA RefillTypes ==
  ASSUME Types, NEW q \in Seq(Batch), NEW p \in Seq(Batch), Ordered(q), FrontOf(p, q),
         Len(p) <= MaxPending, closes' \in Nat,
         FillWritePipeline(q, p, state, handshake, wire, idle, fetching)
  PROVE  /\ pipeline' \in Seq(Batch) /\ Len(pipeline') <= MaxPending
         /\ wire' \in Seq(Writes) /\ idle' \in BOOLEAN
         /\ state' \in States /\ fetching' \subseteq Fetches
<1>1. PICK s \in States, sent \in Seq(Writes), h \in {handshake}, marked \in BOOLEAN,
           asked \in SUBSET Fetches :
        s = state /\ sent = wire /\ h = handshake /\ marked = idle /\ asked = fetching
  <2>1. state \in States /\ wire \in Seq(Writes)
    BY DEF Types, States
  <2>2. idle \in BOOLEAN /\ fetching \in SUBSET Fetches
    BY DEF Types, Fetches
  <2> QED
    BY <2>1, <2>2, Zenon
<1>2. FillWritePipeline(q, p, s, h, sent, marked, asked)
  BY <1>1, Zenon
<1>3. asked \subseteq Fetches
  OBVIOUS
<1> QED
  BY <1>2, <1>3, FillTypes, Z3

\* So does telling the app of a write.
LEMMA NotifyTypes ==
  ASSUME Types, NEW b, NEW result \in {"committed", "rejected"}, NotifyUser(b, result)
  PROVE  /\ callbacks' \subseteq callbacks
         /\ reported' \in [Writes -> {"none", "committed", "rejected"}]
BY DEF Types, NotifyUser, Tell, Waiting, WithoutCallbacks

\* So does stopping the stream.
LEMMA StopTypes ==
  ASSUME Types, StopStream
  PROVE  /\ closes' \in Nat /\ handshake' = FALSE
         /\ committed' \subseteq Writes /\ refused' \subseteq Writes
         /\ last' \in [Users -> Writes \cup {Hello}]
         /\ credential' \in Users /\ replies' \in Seq(Writes \cup {Hello})
         /\ greeted' \in BOOLEAN /\ ended' \in BOOLEAN
<1>1. CallEnds /\ handshake' = FALSE /\ closes' = IF IsStarted THEN closes + 1 ELSE closes
  BY DEF StopStream, Counted
<1>2. closes' \in Nat
  BY <1>1 DEF Types
<1> QED
  BY <1>1, <1>2, CallEndsTypes

\* So does opening the streams anew.
LEMMA RestartTypes ==
  ASSUME Types, QueueInv, NEW u \in Users, RestartNetwork(u), enabled' = enabled
  PROVE  /\ closes' \in Nat /\ handshake' \in BOOLEAN
         /\ committed' \subseteq Writes /\ refused' \subseteq Writes
         /\ last' \in [Users -> Writes \cup {Hello}]
         /\ credential' \in Users /\ replies' \in Seq(Writes \cup {Hello})
         /\ greeted' \in BOOLEAN /\ ended' \in BOOLEAN
         /\ pipeline' \in Seq(Batch) /\ Len(pipeline') <= MaxPending
         /\ wire' \in Seq(Writes) /\ idle' \in BOOLEAN
         /\ state' \in States /\ fetching' \subseteq Fetches
<1>1. CASE enabled
  <2>1. StopStream /\ FillWritePipeline(queue[u], <<>>, "Initial", FALSE, <<>>, FALSE, fetching)
    BY <1>1 DEF RestartNetwork
  <2>2. /\ queue[u] \in Seq(Batch) /\ Ordered(queue[u]) /\ FrontOf(<<>>, queue[u])
        /\ <<>> \in Seq(Batch) /\ Len(<<>>) = 0 /\ <<>> \in Seq(Writes)
        /\ "Initial" \in States /\ fetching \subseteq Fetches /\ 0 <= MaxPending
    BY QueueTypes, EmptyFront DEF QueueInv, States, Types, Fetches
  <2>3. closes' \in Nat
    BY <2>1, StopTypes
  <2>4. /\ pipeline' \in Seq(Batch) /\ Len(pipeline') <= MaxPending
        /\ wire' \in Seq(Writes) /\ idle' \in BOOLEAN
        /\ state' \in States /\ fetching' \subseteq Fetches
    BY <2>1, <2>2, <2>3, FillTypes
  <2> QED
    BY <2>1, <2>4, StopTypes
<1>2. CASE ~enabled
  BY <1>2 DEF RestartNetwork, Types, States, Fetches, callVars, serverVars
<1> QED
  BY <1>1, <1>2 DEF Types

\* So does every step of the app and of the token providers.
LEMMA TypesOfAppStep ==
  ASSUME Types,
         \/ SetData \/ EnableNetwork \/ DisableNetwork \/ ConnectivityChanges
         \/ (\E u \in Users : AuthStateDidChange(u))
         \/ (\E f \in fetching : Fetched(f))
  PROVE  Types'
<1>1. work \in Seq(Task) /\ \A t \in Task : Append(work, t) \in Seq(Task)
  BY DEF Types
<1>2. CASE SetData
  <2>1. written' \in Writes /\ written' \in 0..MaxWrites /\ by' \in [Writes -> Users]
    BY <1>2 DEF SetData, Types, Writes
  <2>2. work' \in Seq(Task)
    BY <1>1, <1>2, <2>1, TaskFacts DEF SetData, Enqueue
  <2> QED
    BY <1>2, <2>1, <2>2 DEF SetData, Types, localVars, remoteVars, callVars, serverVars
<1>3. CASE EnableNetwork \/ DisableNetwork \/ ConnectivityChanges
  <2>1. work' \in Seq(Task)
    BY <1>1, <1>3, TaskFacts DEF EnableNetwork, DisableNetwork, ConnectivityChanges, Enqueue
  <2>2. /\ events' \in 0..MaxEvents
        /\ UNCHANGED <<authUser, by, written, fetching, localVars, remoteVars, callVars, serverVars>>
    BY <1>3 DEF EnableNetwork, DisableNetwork, ConnectivityChanges, Event, Types
  <2> QED
    BY <2>1, <2>2 DEF Types, localVars, remoteVars, callVars, serverVars
<1>4. ASSUME NEW u \in Users, AuthStateDidChange(u) PROVE Types'
  <2>1. work' \in Seq(Task)
    BY <1>1, <1>4, TaskFacts DEF AuthStateDidChange, Enqueue
  <2>2. events' \in 0..MaxEvents
    BY <1>4 DEF AuthStateDidChange, Event, Types
  <2> QED
    BY <1>4, <2>1, <2>2 DEF AuthStateDidChange, Types, localVars, remoteVars, callVars, serverVars
<1>5. ASSUME NEW f \in fetching, Fetched(f) PROVE Types'
  <2>1. f \in Fetches /\ f.closes \in Nat /\ f.got \in Users \cup {Nobody}
    BY DEF Types, Fetches
  <2>2. CASE AuthToken(f)
    <3>1. [f EXCEPT !.got = authUser] \in Fetches
      BY <2>1 DEF Types, Fetches
    <3>2. fetching' \subseteq Fetches
      BY <2>2, <3>1 DEF AuthToken, Types, Fetches
    <3> QED
      BY <2>2, <3>2 DEF AuthToken, Types, Fetches, appVars, localVars, remoteVars, callVars, serverVars
  <2>3. CASE CredentialsReady(f)
    <3>1. work' \in Seq(Task)
      BY <1>1, <2>1, <2>3, TaskFacts DEF CredentialsReady, Enqueue
    <3> QED
      BY <2>3, <3>1 DEF CredentialsReady, Types, appVars, localVars, remoteVars, callVars, serverVars
  <2>4. CASE CredentialsFail(f)
    <3>1. work' \in Seq(Task)
      BY <1>1, <2>1, <2>4, TaskFacts DEF CredentialsFail, Enqueue
    <3>2. events' \in 0..MaxEvents
      BY <2>4 DEF CredentialsFail, Event, Types
    <3> QED
      BY <2>4, <3>1, <3>2 DEF CredentialsFail, Types, localVars, remoteVars, callVars, serverVars
  <2> QED
    BY <1>5, <2>2, <2>3, <2>4 DEF Fetched
<1> QED
  BY <1>2, <1>3, <1>4, <1>5

\* So does every task.
LEMMA TypesOfTask ==
  ASSUME IInv, RunTask
  PROVE  Types'
<1>1. /\ work # <<>> /\ work' \in Seq(Task) /\ work[1] \in Task
      /\ UNCHANGED <<authUser, by, written, events>>
  BY HeadOfWork DEF RunTask, IInv, appVars
<1>2. authUser \in Users /\ by \in [Writes -> Users] /\ written \in 0..MaxWrites /\ events \in 0..MaxEvents
  BY DEF IInv, Types
<1>3. /\ pipeline \in Seq(Batch) /\ Len(pipeline) <= MaxPending
      /\ user \in Users /\ queue[user] \in Seq(Batch)
      /\ Ordered(queue[user]) /\ FrontOf(pipeline, queue[user])
      /\ state \in States /\ wire \in Seq(Writes) /\ idle \in BOOLEAN
      /\ fetching \subseteq Fetches /\ closes \in Nat
      /\ <<>> \in Seq(Batch) /\ <<>> \in Seq(Writes) /\ Len(<<>>) <= MaxPending
  BY QueueTypes DEF IInv, Types, QueueInv, PipelineInv, States, Fetches
<1>4. ASSUME work[1].do = "write", WriteMutations(work[1].of) PROVE Types'
  <2>. DEFINE w == work[1].of
  <2>1. w \in Writes /\ \A i \in DOMAIN queue[user] : queue[user][i].write < w
    <3>1. 1 \in DOMAIN work
      BY <1>1, HeadOfWork, ElementFacts DEF IInv, Types
    <3>2. work[1].of \in Writes
      BY <1>1, <1>4, TaskFields
    <3>3. ASSUME NEW i \in DOMAIN queue[user] PROVE queue[user][i].write < work[1].of
      <4>1. Past(queue[user][i].write)
        BY <1>3, <3>3 DEF IInv, QueueInv
      <4> QED
        BY <1>4, <3>1, <4>1 DEF Past
    <3> QED
      BY <3>2, <3>3
  <2>. HIDE DEF w
  <2>2. /\ queue' = [queue EXCEPT ![user] = Append(@, [id |-> nextId, write |-> w])]
        /\ nextId' = nextId + 1
        /\ callbacks' = callbacks \cup {[user |-> user, id |-> nextId, write |-> w]}
        /\ UNCHANGED <<enabled, closes, handshake>>
        /\ FillWritePipeline(queue'[user], pipeline, state, handshake, wire, idle, fetching)
        /\ UNCHANGED <<user, reported, credential, replies, greeted, ended, serverVars>>
    BY <1>4, Zenon DEF WriteMutations, w
  <2>3. /\ queue' \in [Users -> Seq(Batch)] /\ queue'[user] \in Seq(Batch)
        /\ Ordered(queue'[user]) /\ FrontOf(pipeline, queue'[user])
    BY <2>1, <2>2, PersistFacts
  <2>4. nextId' \in Nat \ {0} /\ callbacks' \subseteq [user : Users, id : Nat \ {0}, write : Writes]
    <3>1. nextId \in Nat \ {0} /\ callbacks \subseteq [user : Users, id : Nat \ {0}, write : Writes]
      BY DEF IInv, Types
    <3>2. [user |-> user, id |-> nextId, write |-> w] \in [user : Users, id : Nat \ {0}, write : Writes]
      BY <1>3, <2>1, <3>1
    <3> QED
      BY <2>2, <3>1, <3>2
  <2>5. /\ pipeline' \in Seq(Batch) /\ Len(pipeline') <= MaxPending
        /\ wire' \in Seq(Writes) /\ idle' \in BOOLEAN
        /\ state' \in States /\ fetching' \subseteq Fetches
    <3>1. PICK q \in Seq(Batch) : q = queue'[user]
      BY <2>3
    <3>2. closes' \in Nat /\ Ordered(q) /\ FrontOf(pipeline, q)
      BY <1>3, <2>2, <2>3, <3>1
    <3>3. FillWritePipeline(q, pipeline, state, handshake, wire, idle, fetching)
      BY <2>2, <3>1
    <3> QED
      BY <1>3, <3>2, <3>3, RefillTypes DEF IInv
  <2> QED
    BY <1>1, <1>2, <2>2, <2>3, <2>4, <2>5 DEF IInv, Types, States, Fetches, serverVars
<1>5. ASSUME RunEnable PROVE Types'
  <2>1. /\ enabled' = TRUE /\ UNCHANGED <<closes, handshake>>
        /\ FillWritePipeline(queue[user], pipeline, state, handshake, wire, idle, fetching)
        /\ UNCHANGED <<localVars, credential, replies, greeted, ended, serverVars>>
    BY <1>5 DEF RunEnable
  <2>2. /\ pipeline' \in Seq(Batch) /\ Len(pipeline') <= MaxPending
        /\ wire' \in Seq(Writes) /\ idle' \in BOOLEAN
        /\ state' \in States /\ fetching' \subseteq Fetches
    BY <1>3, <2>1, RefillTypes DEF IInv
  <2> QED
    BY <1>1, <1>2, <2>1, <2>2 DEF IInv, Types, States, Fetches, localVars, serverVars
<1>6. ASSUME RunDisable PROVE Types'
  <2>1. StopStream
    BY <1>6 DEF RunDisable
  <2>2. /\ enabled' = FALSE /\ state' \in States /\ pipeline' = <<>> /\ wire' = <<>> /\ idle' = FALSE
        /\ UNCHANGED <<localVars, fetching>>
    BY <1>3, <1>6 DEF RunDisable, Stopped, States
  <2> QED
    BY <1>1, <1>2, <1>3, <2>1, <2>2, StopTypes DEF IInv, Types, States, localVars
<1>7. ASSUME Reconnect PROVE Types'
  <2>1. UNCHANGED localVars /\ enabled' = enabled /\ RestartNetwork(user)
    BY <1>7 DEF Reconnect
  <2>2. /\ closes' \in Nat /\ handshake' \in BOOLEAN
        /\ committed' \subseteq Writes /\ refused' \subseteq Writes
        /\ last' \in [Users -> Writes \cup {Hello}]
        /\ credential' \in Users /\ replies' \in Seq(Writes \cup {Hello})
        /\ greeted' \in BOOLEAN /\ ended' \in BOOLEAN
        /\ pipeline' \in Seq(Batch) /\ Len(pipeline') <= MaxPending
        /\ wire' \in Seq(Writes) /\ idle' \in BOOLEAN
        /\ state' \in States /\ fetching' \subseteq Fetches
    BY <1>3, <2>1, RestartTypes DEF IInv
  <2> QED
    BY <1>1, <1>2, <2>1, <2>2 DEF IInv, Types, States, Fetches, localVars
<1>8. ASSUME work[1].do = "credential", HandleCredentialChange(work[1].of) PROVE Types'
  <2>. DEFINE u == work[1].of
  <2>1. u \in Users
    BY <1>1, <1>8, TaskFields
  <2>. HIDE DEF u
  <2>2. /\ user' = u /\ nextId' = (IF u = user THEN nextId ELSE HighestId + 1)
        /\ UNCHANGED <<queue, callbacks, reported, enabled>> /\ RestartNetwork(u)
    BY <1>8 DEF HandleCredentialChange, u
  <2>3. /\ closes' \in Nat /\ handshake' \in BOOLEAN
        /\ committed' \subseteq Writes /\ refused' \subseteq Writes
        /\ last' \in [Users -> Writes \cup {Hello}]
        /\ credential' \in Users /\ replies' \in Seq(Writes \cup {Hello})
        /\ greeted' \in BOOLEAN /\ ended' \in BOOLEAN
        /\ pipeline' \in Seq(Batch) /\ Len(pipeline') <= MaxPending
        /\ wire' \in Seq(Writes) /\ idle' \in BOOLEAN
        /\ state' \in States /\ fetching' \subseteq Fetches
    BY <2>1, <2>2, RestartTypes DEF IInv
  <2>4. nextId' \in Nat \ {0}
    <3>1. nextId \in Nat \ {0} /\ HighestId \in Nat
      BY HighestIdFacts DEF IInv, Types
    <3> QED
      BY <2>2, <3>1
  <2>5. /\ queue' \in [Users -> Seq(Batch)] /\ user' \in Users
        /\ callbacks' \subseteq [user : Users, id : Nat \ {0}, write : Writes]
        /\ reported' \in [Writes -> {"none", "committed", "rejected"}] /\ enabled' \in BOOLEAN
    BY <2>1, <2>2 DEF IInv, Types
  <2>6. authUser' \in Users /\ by' \in [Writes -> Users]
        /\ written' \in 0..MaxWrites /\ events' \in 0..MaxEvents
    BY <1>1, <1>2
  <2> QED
    BY <1>1, <2>3, <2>4, <2>5, <2>6, Zenon DEF Types, States, Fetches
<1>9. ASSUME work[1].do = "token", ResumeStart(work[1].of) PROVE Types'
  <2>1. work[1].of \in Users
    BY <1>1, <1>9, TaskFields
  <2> QED
    BY <1>1, <1>2, <1>9, <2>1 DEF IInv, Types, ResumeStart, localVars, serverVars
<1>10. ASSUME StartFails PROVE Types'
  <2>1. state' \in States /\ closes' \in Nat
    BY <1>3, <1>10 DEF StartFails, FailedTo, Counted, States
  <2> QED
    BY <1>1, <1>2, <1>10, <2>1 DEF IInv, Types, States, StartFails, localVars, callVars, serverVars
<1>11. ASSUME Skips PROVE Types'
  BY <1>1, <1>2, <1>11 DEF IInv, Types, Skips, localVars, remoteVars, callVars, serverVars
<1> QED
  BY <1>4, <1>5, <1>6, <1>7, <1>8, <1>9, <1>10, <1>11, TaskCases DEF Runs, IInv

\* So does every step of the stream, the server and the process.
LEMMA TypesOfStreamStep ==
  ASSUME IInv,
         \/ Read \/ StreamFails \/ BackoffElapsed \/ IdleTimeout \/ Serve \/ Launch
  PROVE  Types'
<1>1. /\ pipeline \in Seq(Batch) /\ Len(pipeline) <= MaxPending
      /\ user \in Users /\ queue[user] \in Seq(Batch)
      /\ Ordered(queue[user]) /\ FrontOf(pipeline, queue[user])
      /\ state \in States /\ wire \in Seq(Writes) /\ idle \in BOOLEAN
      /\ fetching \subseteq Fetches /\ closes \in Nat
      /\ <<>> \in Seq(Batch) /\ <<>> \in Seq(Writes) /\ Len(<<>>) <= MaxPending
      /\ replies \in Seq(Writes \cup {Hello})
  BY QueueTypes DEF IInv, Types, QueueInv, PipelineInv, States, Fetches
<1>2. replies # <<>> => Tail(replies) \in Seq(Writes \cup {Hello})
  BY <1>1, TailFacts
<1>3. CASE HandshakeComplete
  <2>1. wire \o WritesOf(pipeline) \in Seq(Writes)
    BY <1>1, WritesOfFacts, ConcatFacts
  <2>2. idle' \in BOOLEAN
    BY <1>3 DEF HandshakeComplete
  <2>3. /\ handshake' = TRUE /\ replies' \in Seq(Writes \cup {Hello}) /\ wire' \in Seq(Writes)
    BY <1>2, <1>3, <2>1 DEF HandshakeComplete
  <2> QED
    BY <1>3, <2>2, <2>3 DEF HandshakeComplete, IInv, Types, appVars, localVars, serverVars
<1>4. CASE MutationResult
  <2>1. /\ replies # <<>> /\ handshake /\ pipeline # <<>> /\ replies' = Tail(replies)
        /\ NotifyUser(Head(pipeline), "committed") /\ RemoveBatch(Head(pipeline))
        /\ UNCHANGED <<enabled, closes, handshake>>
        /\ FillWritePipeline(queue'[user], Tail(pipeline), state, handshake, wire, idle, fetching)
        /\ UNCHANGED <<appVars, work, user, nextId, credential, greeted, ended, serverVars>>
    BY <1>4 DEF MutationResult, Acknowledged
  <2>2. /\ queue' \in [Users -> Seq(Batch)] /\ queue'[user] \in Seq(Batch)
        /\ Ordered(queue'[user]) /\ FrontOf(Tail(pipeline), queue'[user])
        /\ Tail(pipeline) \in Seq(Batch) /\ Len(Tail(pipeline)) = Len(pipeline) - 1
    BY <2>1, RemoveFacts
  <2>3. /\ pipeline' \in Seq(Batch) /\ Len(pipeline') <= MaxPending
        /\ wire' \in Seq(Writes) /\ idle' \in BOOLEAN
        /\ state' \in States /\ fetching' \subseteq Fetches
    <3>1. PICK q \in Seq(Batch), p \in Seq(Batch) : q = queue'[user] /\ p = Tail(pipeline)
      BY <2>2
    <3>2. closes' \in Nat /\ Ordered(q) /\ FrontOf(p, q) /\ Len(p) <= MaxPending
      BY <1>1, <2>1, <2>2, <3>1
    <3>3. FillWritePipeline(q, p, state, handshake, wire, idle, fetching)
      BY <2>1, <3>1
    <3> QED
      BY <3>2, <3>3, RefillTypes DEF IInv
  <2>4. callbacks' \subseteq callbacks /\ reported' \in [Writes -> {"none", "committed", "rejected"}]
    BY <2>1, NotifyTypes DEF IInv
  <2> QED
    BY <1>2, <2>1, <2>2, <2>3, <2>4 DEF IInv, Types, States, Fetches, appVars, serverVars
<1>5. CASE WriteRejected
  <2>1. /\ pipeline # <<>> /\ closes' = closes + 1
        /\ NotifyUser(Head(pipeline), "rejected") /\ RemoveBatch(Head(pipeline))
        /\ handshake' = FALSE /\ CallEnds /\ UNCHANGED enabled
        /\ FillWritePipeline(queue'[user], Tail(pipeline), "Initial", FALSE, <<>>, FALSE, fetching)
        /\ UNCHANGED <<appVars, work, user, nextId>>
    BY <1>5 DEF WriteRejected, Counted
  <2>2. /\ queue' \in [Users -> Seq(Batch)] /\ queue'[user] \in Seq(Batch)
        /\ Ordered(queue'[user]) /\ FrontOf(Tail(pipeline), queue'[user])
        /\ Tail(pipeline) \in Seq(Batch) /\ Len(Tail(pipeline)) = Len(pipeline) - 1
    BY <2>1, RemoveFacts
  <2>3. /\ pipeline' \in Seq(Batch) /\ Len(pipeline') <= MaxPending
        /\ wire' \in Seq(Writes) /\ idle' \in BOOLEAN
        /\ state' \in States /\ fetching' \subseteq Fetches
    <3>1. PICK q \in Seq(Batch), p \in Seq(Batch) : q = queue'[user] /\ p = Tail(pipeline)
      BY <2>2
    <3>2. /\ closes' \in Nat /\ Ordered(q) /\ FrontOf(p, q) /\ Len(p) <= MaxPending
          /\ "Initial" \in States /\ FALSE \in BOOLEAN
      BY <1>1, <2>1, <2>2, <3>1 DEF States
    <3>3. FillWritePipeline(q, p, "Initial", FALSE, <<>>, FALSE, fetching)
      BY <2>1, <3>1
    <3> QED
      BY <1>1, <3>2, <3>3, FillTypes DEF IInv
  <2>4. callbacks' \subseteq callbacks /\ reported' \in [Writes -> {"none", "committed", "rejected"}]
    BY <2>1, NotifyTypes DEF IInv
  <2>5. /\ committed' \subseteq Writes /\ refused' \subseteq Writes
        /\ last' \in [Users -> Writes \cup {Hello}]
        /\ credential' \in Users /\ replies' \in Seq(Writes \cup {Hello})
        /\ greeted' \in BOOLEAN /\ ended' \in BOOLEAN /\ closes' \in Nat
    BY <1>1, <2>1, CallEndsTypes DEF IInv
  <2> QED
    BY <2>1, <2>2, <2>3, <2>4, <2>5 DEF IInv, Types, States, Fetches, appVars
<1>6. CASE StreamFails
  <2>1. CallEnds /\ state' \in States /\ closes' \in Nat /\ events' \in 0..MaxEvents
    BY <1>1, <1>6 DEF StreamFails, FailedTo, Counted, Event, States, IInv, Types
  <2> QED
    BY <1>1, <1>6, <2>1, CallEndsTypes DEF StreamFails, IInv, Types, States, localVars
<1>7. CASE BackoffElapsed
  <2>1. fetching' \subseteq Fetches /\ state' \in States
    BY <1>1, <1>7, RequestFacts DEF BackoffElapsed, States
  <2> QED
    BY <1>7, <2>1 DEF BackoffElapsed, IInv, Types, States, Fetches, appVars, localVars, callVars, serverVars
<1>8. CASE IdleTimeout
  <2>1. StopStream /\ state' \in States
    BY <1>1, <1>8 DEF IdleTimeout, Stopped, States
  <2> QED
    BY <1>1, <1>8, <2>1, StopTypes DEF IdleTimeout, IInv, Types, States, appVars, localVars
<1>9. CASE Greet
  <2>1. replies' \in Seq(Writes \cup {Hello})
    BY <1>1, <1>9, AppendFacts DEF Greet
  <2> QED
    BY <1>9, <2>1 DEF Greet, IInv, Types, appVars, localVars, remoteVars, serverVars
<1>10. CASE Commit
  <2>1. /\ wire # <<>> /\ committed' = committed \cup {Head(wire)}
        /\ last' = [last EXCEPT ![by[Head(wire)]] = Head(wire)]
        /\ replies' = Append(replies, Head(wire)) /\ wire' = Tail(wire)
        /\ UNCHANGED <<appVars, work, fetching, localVars, remoteVars, credential, greeted, ended, refused>>
    BY <1>10 DEF Commit
  <2>2. Head(wire) \in Writes /\ Tail(wire) \in Seq(Writes)
    BY <1>1, <2>1, TailFacts
  <2>3. replies' \in Seq(Writes \cup {Hello})
    BY <1>1, <2>1, <2>2, AppendFacts
  <2>4. last' \in [Users -> Writes \cup {Hello}] /\ committed' \subseteq Writes
    BY <2>1, <2>2 DEF IInv, Types
  <2> QED
    BY <2>1, <2>2, <2>3, <2>4 DEF IInv, Types, appVars, localVars, remoteVars
<1>11. CASE Refuse
  <2>1. Head(wire) \in Writes
    BY <1>1, <1>11, TailFacts DEF Refuse
  <2> QED
    BY <1>11, <2>1 DEF Refuse, IInv, Types, appVars, localVars, remoteVars
<1>12. CASE Launch
  <2>1. /\ work' = <<>> /\ user' = authUser /\ nextId' = HighestId + 1 /\ callbacks' = {}
        /\ enabled' = TRUE /\ closes' = 0 /\ handshake' = FALSE /\ CallEnds
        /\ FillWritePipeline(queue[authUser], <<>>, "Initial", FALSE, <<>>, FALSE, {})
        /\ UNCHANGED <<authUser, by, written, queue>>
        /\ Event
    BY <1>12, Zenon DEF Launch
  <2>2. authUser \in Users /\ queue[authUser] \in Seq(Batch) /\ Ordered(queue[authUser])
    BY QueueTypes DEF IInv, Types, QueueInv
  <2>3. /\ pipeline' \in Seq(Batch) /\ Len(pipeline') <= MaxPending
        /\ wire' \in Seq(Writes) /\ idle' \in BOOLEAN
        /\ state' \in States /\ fetching' \subseteq Fetches
    <3>1. PICK q \in Seq(Batch) : q = queue[authUser]
      BY <2>2
    <3>2. /\ Ordered(q) /\ FrontOf(<<>>, q) /\ closes' \in Nat /\ "Initial" \in States
          /\ FALSE \in BOOLEAN
      BY <2>1, <2>2, <3>1, EmptyFront DEF States
    <3>3. PICK a \in {{}} : a \subseteq Fetches
      OBVIOUS
    <3>4. FillWritePipeline(q, <<>>, "Initial", FALSE, <<>>, FALSE, a)
      BY <2>1, <3>1, <3>3
    <3>5. Types
      BY DEF IInv
    <3> QED
      BY <1>1, <3>2, <3>3, <3>4, <3>5, FillTypes
  <2>4. /\ nextId' \in Nat \ {0} /\ work' \in Seq(Task) /\ closes' \in Nat
        /\ events' \in 0..MaxEvents
    <3>1. Types /\ QueueInv
      BY DEF IInv
    <3>2. events' \in 0..MaxEvents
      BY <2>1, <3>1 DEF Event, Types
    <3> QED
      BY <2>1, <3>1, <3>2, HighestIdFacts
  <2>5. reported' \in [Writes -> {"none", "committed", "rejected"}]
    <3>1. reported' = reported \/ Tell(Head(pipeline), "committed")
      BY <1>12, Zenon DEF Launch
    <3> QED
      BY <3>1 DEF IInv, Types, Tell
  <2> QED
    BY <2>1, <2>2, <2>3, <2>4, <2>5, CallEndsTypes DEF IInv, Types, States, Fetches
<1> QED
  BY <1>3, <1>4, <1>5, <1>6, <1>7, <1>8, <1>9, <1>10, <1>11, <1>12 DEF Read, Serve

\* So does every step.
LEMMA TypesStep ==
  ASSUME IInv, Next
  PROVE  Types'
BY TypesOfAppStep, TypesOfTask, TypesOfStreamStep DEF Next, IInv
-----------------------------------------------------------------------------
(* Writes run as the user they were made by.                                *)

\* The tasks of the worker queue.
LEMMA WorkTypes ==
  ASSUME Types
  PROVE  /\ work \in Seq(Task) /\ Len(work) \in Nat /\ DOMAIN work = 1..Len(work)
         /\ \A i \in 1..Len(work) :
              /\ work[i] \in Task
              /\ work[i].do = "write" => work[i].of \in Writes
              /\ work[i].do \in {"credential", "token"} => work[i].of \in Users
              /\ work[i].do \in {"token", "noToken"} => work[i].closes \in Nat
<1>1. work \in Seq(Task)
  BY DEF Types
<1> QED
  BY <1>1, ElementFacts, TaskFields

\* Who is signed in at a task depends on the tasks before it.
LEMMA SignedInBefore ==
  ASSUME Types, user' = user, \A j \in 1..Len(work) : work'[j] = work[j],
         NEW i \in 1..(Len(work) + 1), NEW v
  PROVE  SignedInAt(i, v)' <=> SignedInAt(i, v)
<1>1. /\ Len(work) \in Nat
      /\ \A j \in 1..(i - 1) : j \in 1..Len(work)
      /\ \A j \in 1..(i - 1) : \A k \in (j + 1)..(i - 1) : k \in 1..Len(work)
  BY WorkTypes
<1> QED
  BY <1>1 DEF SignedInAt

\* Running a task changes who is signed in only as the later tasks expect.
LEMMA SignedInAfterTail ==
  ASSUME Types, work # <<>>, work' = Tail(work),
         user' = IF work[1].do = "credential" THEN work[1].of ELSE user,
         NEW i \in 1..Len(work), NEW v, SignedInAt(i + 1, v)
  PROVE  SignedInAt(i, v)'
<1>1. /\ Len(work) \in Nat \ {0} /\ Len(work') = Len(work) - 1
      /\ \A k \in 1..(Len(work) - 1) : work'[k] = work[k + 1]
  BY HeadOfWork
<1>2. \A k \in 1..(i - 1) : work'[k] = work[k + 1] /\ k + 1 \in 1..i
  BY <1>1
<1>3. CASE v = user /\ \A j \in 1..i : work[j].do # "credential"
  <2>1. work[1].do # "credential"
    BY <1>1, <1>3
  <2> QED
    BY <1>2, <1>3, <2>1 DEF SignedInAt
<1>4. CASE \E j \in 1..i : /\ work[j].do = "credential" /\ work[j].of = v
                           /\ \A k \in (j + 1)..i : work[k].do # "credential"
  <2>1. PICK j \in 1..i : /\ work[j].do = "credential" /\ work[j].of = v
                          /\ \A k \in (j + 1)..i : work[k].do # "credential"
    BY <1>4
  <2>2. CASE j = 1
    <3>1. \A k \in 1..(i - 1) : k + 1 \in (j + 1)..i
      BY <2>2
    <3>2. v = user' /\ \A k \in 1..(i - 1) : work'[k].do # "credential"
      BY <1>2, <2>1, <2>2, <3>1
    <3> QED
      BY <3>2 DEF SignedInAt
  <2>3. CASE j # 1
    <3>1. /\ j - 1 \in 1..(i - 1) /\ (j - 1) + 1 = j
          /\ \A k \in ((j - 1) + 1)..(i - 1) : k \in 1..(i - 1) /\ k + 1 \in (j + 1)..i
      BY <2>3
    <3>2. work'[j - 1].do = "credential" /\ work'[j - 1].of = v
      BY <1>2, <2>1, <3>1
    <3>3. \A k \in ((j - 1) + 1)..(i - 1) : work'[k].do # "credential"
      BY <1>2, <2>1, <3>1
    <3> QED
      BY <3>1, <3>2, <3>3 DEF SignedInAt
  <2> QED
    BY <2>2, <2>3
<1>5. i + 1 - 1 = i
  OBVIOUS
<1> QED
  BY <1>3, <1>4, <1>5 DEF SignedInAt

\* Steps that leave the worker queue and the user alone keep WorkInv.
LEMMA WorkSame ==
  ASSUME WorkInv, UNCHANGED <<work, user, authUser, by, written>>
  PROVE  WorkInv'
BY DEF WorkInv, SignedInAt

\* What an added task does to WorkInv.
LEMMA WorkAppended ==
  ASSUME Types, WorkInv, NEW t \in Task, work' = Append(work, t),
         user' = user, written' >= written, written' \in Nat,
         \A w \in Writes : w <= written => by'[w] = by[w],
         t.do = "write" =>
           written < t.of /\ t.of <= written' /\ by'[t.of] = authUser,
         authUser' = IF t.do = "credential" THEN t.of ELSE authUser
  PROVE  WorkInv'
<1>1. /\ Len(work) \in Nat /\ DOMAIN work = 1..Len(work)
      /\ \A i \in 1..Len(work) : work[i] \in Task /\ (work[i].do = "write" => work[i].of \in Writes)
  BY WorkTypes
<1>2. /\ Len(work') = Len(work) + 1 /\ DOMAIN work' = 1..(Len(work) + 1)
      /\ \A i \in 1..Len(work) : work'[i] = work[i]
      /\ work'[Len(work) + 1] = t
  <2>1. work \in Seq(Task) /\ work' \in Seq(Task)
    BY WorkTypes, AppendFacts
  <2> QED
    BY <2>1, AppendFacts, ElementFacts
<1>3. \A i \in 1..(Len(work) + 1) : \A v : SignedInAt(i, v)' <=> SignedInAt(i, v)
  BY <1>2, SignedInBefore
<1>4. ASSUME NEW i \in DOMAIN work', work'[i].do = "write"
      PROVE  work'[i].of <= written' /\ SignedInAt(i, by[work[i].of])'
  <2>1. CASE i \in 1..Len(work)
    <3>1. work'[i] = work[i] /\ work[i].of \in Writes /\ work[i].of <= written
      BY <1>1, <1>2, <1>4, <2>1 DEF WorkInv
    <3>2. by'[work'[i].of] = by[work[i].of] /\ SignedInAt(i, by[work[i].of])
      BY <1>1, <1>4, <2>1, <3>1 DEF WorkInv
    <3>3. PICK v : v = by[work[i].of]
      OBVIOUS
    <3>4. SignedInAt(i, v)'
      BY <1>1, <1>3, <2>1, <3>2, <3>3
    <3>5. written \in Nat
      BY DEF Types
    <3>6. work[i].of \in Nat
      BY <3>1 DEF Writes
    <3> QED
      BY <3>1, <3>2, <3>3, <3>4, <3>5, <3>6
  <2>2. CASE i = Len(work) + 1
    <3>1. work'[i] = t /\ t.do = "write" /\ by'[work'[i].of] = authUser /\ t.of <= written'
      BY <1>2, <1>4, <2>2
    <3>2. SignedInAt(Len(work) + 1, authUser)
      BY DEF WorkInv
    <3>3. PICK v : v = authUser
      OBVIOUS
    <3>4. SignedInAt(i, v)'
      BY <1>1, <1>3, <2>2, <3>2, <3>3
    <3> QED
      BY <3>1, <3>3, <3>4
  <2> QED
    BY <1>1, <1>2, <2>1, <2>2
<1>5. SignedInAt(Len(work) + 1, authUser)'
  <2>1. CASE t.do = "credential"
    <3>1. work'[Len(work) + 1].do = "credential" /\ work'[Len(work) + 1].of = authUser'
      BY <1>2, <2>1
    <3>2. Len(work)' + 1 - 1 = Len(work) + 1 /\ Len(work) + 1 \in 1..(Len(work') + 1 - 1)
          /\ \A k \in (Len(work) + 1 + 1)..(Len(work') + 1 - 1) : FALSE
      BY <1>1, <1>2
    <3> QED
      BY <3>1, <3>2 DEF SignedInAt
  <2>2. CASE t.do # "credential"
    <3>1. SignedInAt(Len(work) + 1, authUser) /\ authUser' = authUser
      BY <2>2 DEF WorkInv
    <3>2. /\ \A k \in 1..(Len(work') + 1 - 1) : k \in 1..Len(work) \/ k = Len(work) + 1
          /\ Len(work) + 1 - 1 = Len(work) /\ Len(work') + 1 - 1 = Len(work) + 1
      BY <1>1, <1>2
    <3>3. CASE authUser = user /\ \A j \in 1..Len(work) : work[j].do # "credential"
      <4>1. \A j \in 1..(Len(work') + 1 - 1) : work'[j].do # "credential"
        <5>1. SUFFICES ASSUME NEW j \in 1..(Len(work) + 1) PROVE work'[j].do # "credential"
          BY <3>2
        <5>2. CASE j = Len(work) + 1
          BY <1>2, <2>2, <5>2
        <5>3. CASE j # Len(work) + 1
          <6>1. j \in 1..Len(work)
            BY <1>1, <5>3
          <6> QED
            BY <1>2, <3>3, <6>1
        <5> QED
          BY <5>2, <5>3
      <4> QED
        BY <3>1, <3>3, <4>1 DEF SignedInAt
    <3>4. CASE \E j \in 1..Len(work) : /\ work[j].do = "credential" /\ work[j].of = authUser
                                       /\ \A k \in (j + 1)..Len(work) : work[k].do # "credential"
      <4>1. PICK j \in 1..Len(work) : /\ work[j].do = "credential" /\ work[j].of = authUser
                                      /\ \A k \in (j + 1)..Len(work) : work[k].do # "credential"
        BY <3>4
      <4>2. j \in 1..(Len(work') + 1 - 1) /\ work'[j] = work[j]
        BY <1>1, <1>2, <4>1
      <4>3. \A k \in (j + 1)..(Len(work') + 1 - 1) : work'[k].do # "credential"
        <5>1. SUFFICES ASSUME NEW k \in (j + 1)..(Len(work) + 1) PROVE work'[k].do # "credential"
          BY <3>2
        <5>2. CASE k = Len(work) + 1
          BY <1>2, <2>2, <5>2
        <5>3. CASE k # Len(work) + 1
          <6>1. k \in (j + 1)..Len(work) /\ k \in 1..Len(work)
            BY <1>1, <5>3
          <6> QED
            BY <1>2, <4>1, <6>1
        <5> QED
          BY <5>2, <5>3
      <4>4. \E i \in 1..(Len(work') + 1 - 1) :
               /\ work'[i].do = "credential" /\ work'[i].of = authUser'
               /\ \A k \in (i + 1)..(Len(work') + 1 - 1) : work'[k].do # "credential"
        BY <3>1, <4>1, <4>2, <4>3
      <4>5. \/ authUser' = user' /\ \A i \in 1..(Len(work') + 1 - 1) : work'[i].do # "credential"
            \/ \E i \in 1..(Len(work') + 1 - 1) :
                 /\ work'[i].do = "credential" /\ work'[i].of = authUser'
                 /\ \A k \in (i + 1)..(Len(work') + 1 - 1) : work'[k].do # "credential"
        BY <4>4
      <4> QED
        BY <4>5 DEF SignedInAt
    <3>5. \/ /\ authUser = user
             /\ \A k \in 1..Len(work) : work[k].do # "credential"
          \/ \E j \in 1..Len(work) : /\ work[j].do = "credential" /\ work[j].of = authUser
                                     /\ \A k \in (j + 1)..Len(work) : work[k].do # "credential"
      BY <3>1, <3>2 DEF SignedInAt
    <3> QED
      BY <3>3, <3>4, <3>5
  <2> QED
    BY <2>1, <2>2
<1>6. ASSUME NEW i \in DOMAIN work', NEW j \in DOMAIN work', i < j,
             work'[i].do = "write", work'[j].do = "write"
      PROVE  work'[i].of < work'[j].of
  <2>1. i \in 1..Len(work) /\ work'[i] = work[i] /\ work[i].of \in Nat
    <3>1. i \in 1..Len(work) /\ work'[i] = work[i]
      BY <1>1, <1>2, <1>6
    <3> QED
      BY <1>1, <1>6, <3>1 DEF Writes
  <2>2. work[i].of <= written /\ written \in Nat
    BY <1>1, <1>6, <2>1 DEF WorkInv, Types
  <2>3. CASE j \in 1..Len(work)
    BY <1>1, <1>2, <1>6, <2>1, <2>3 DEF WorkInv
  <2>4. CASE j = Len(work) + 1
    <3>1. t.do = "write" /\ written < t.of /\ work'[j] = t /\ t.of \in Nat
      BY <1>2, <1>6, <2>4, TaskFields DEF Writes
    <3> QED
      BY <2>1, <2>2, <3>1
  <2> QED
    BY <1>1, <1>2, <2>3, <2>4
<1> QED
  BY <1>4, <1>5, <1>6 DEF WorkInv

\* Running a task keeps WorkInv.
LEMMA WorkTailed ==
  ASSUME Types, WorkInv, work # <<>>, work' = Tail(work),
         UNCHANGED <<authUser, by, written>>,
         user' = IF work[1].do = "credential" THEN work[1].of ELSE user
  PROVE  WorkInv'
<1>1. /\ Len(work) \in Nat \ {0} /\ Len(work') = Len(work) - 1 /\ DOMAIN work = 1..Len(work)
      /\ DOMAIN work' = 1..(Len(work) - 1)
      /\ \A i \in 1..(Len(work) - 1) : work'[i] = work[i + 1] /\ i + 1 \in 1..Len(work)
  BY HeadOfWork, WorkTypes, ElementFacts
<1>2. ASSUME NEW i \in 1..Len(work), NEW v, SignedInAt(i + 1, v) PROVE SignedInAt(i, v)'
  BY <1>2, SignedInAfterTail
<1>3. ASSUME NEW i \in DOMAIN work', work'[i].do = "write"
      PROVE  work'[i].of <= written' /\ SignedInAt(i, by[work[i].of])'
  <2>1. /\ work'[i] = work[i + 1] /\ i + 1 \in DOMAIN work /\ i \in 1..Len(work)
    BY <1>1
  <2>2. PICK v : v = by[work[i + 1].of]
    OBVIOUS
  <2>3. work[i + 1].of <= written /\ SignedInAt(i + 1, v)
    BY <1>3, <2>1, <2>2 DEF WorkInv
  <2>4. SignedInAt(i, v)'
    BY <1>2, <2>1, <2>3
  <2> QED
    BY <2>1, <2>2, <2>3, <2>4
<1>4. SignedInAt(Len(work) + 1, authUser)'
  <2>1. PICK v : v = authUser
    OBVIOUS
  <2>2. SignedInAt(Len(work) + 1, v)
    BY <2>1 DEF WorkInv
  <2>3. Len(work) \in 1..Len(work)
    BY <1>1
  <2>4. PICK n \in 1..Len(work) : n = Len(work)
    BY <2>3, Zenon
  <2>5. SignedInAt(n, v)'
    BY <1>2, <2>2, <2>4
  <2>6. Len(work') + 1 = n
    BY <1>1, <2>4
  <2> QED
    BY <2>1, <2>5, <2>6
<1>5. ASSUME NEW i \in DOMAIN work', NEW j \in DOMAIN work', i < j,
             work'[i].do = "write", work'[j].do = "write"
      PROVE  work'[i].of < work'[j].of
  BY <1>1, <1>5 DEF WorkInv
<1> QED
  BY <1>3, <1>4, <1>5 DEF WorkInv

\* The stream and the server leave the worker queue and the users alone.
LEMMA StreamStepFrame ==
  ASSUME Read \/ StreamFails \/ BackoffElapsed \/ IdleTimeout \/ Serve
  PROVE  UNCHANGED <<work, user, authUser, by, written>>
<1>1. CASE HandshakeComplete
  BY <1>1 DEF HandshakeComplete, appVars, localVars
<1>2. CASE MutationResult
  BY <1>2 DEF MutationResult, Acknowledged, appVars
<1>3. CASE WriteRejected
  BY <1>3 DEF WriteRejected, appVars
<1>4. CASE StreamFails
  BY <1>4 DEF StreamFails, localVars
<1>5. CASE BackoffElapsed
  BY <1>5 DEF BackoffElapsed, appVars, localVars
<1>6. CASE IdleTimeout
  BY <1>6 DEF IdleTimeout, appVars, localVars
<1>7. CASE Serve
  BY <1>7 DEF Serve, Greet, Commit, Refuse, appVars, localVars
<1> QED
  BY <1>1, <1>2, <1>3, <1>4, <1>5, <1>6, <1>7 DEF Read

\* The user changes with the credential that is run, and with nothing else.
LEMMA TaskFrame ==
  ASSUME Types, RunTask
  PROVE  /\ work # <<>> /\ work' = Tail(work) /\ UNCHANGED appVars
         /\ user' = IF work[1].do = "credential" THEN work[1].of ELSE user
<1>2. ASSUME work[1].do = "write", WriteMutations(work[1].of) PROVE user' = user
  BY <1>2 DEF WriteMutations
<1>3. ASSUME work[1].do = "enable", RunEnable PROVE user' = user
  BY <1>3 DEF RunEnable, localVars
<1>4. ASSUME work[1].do = "disable", RunDisable PROVE user' = user
  BY <1>4 DEF RunDisable, localVars
<1>5. ASSUME work[1].do = "connected", Reconnect PROVE user' = user
  BY <1>5 DEF Reconnect, localVars
<1>6. ASSUME HandleCredentialChange(work[1].of) PROVE user' = work[1].of
  BY <1>6 DEF HandleCredentialChange
<1>7. ASSUME ResumeStart(work[1].of) PROVE user' = user
  BY <1>7 DEF ResumeStart, localVars
<1>8. ASSUME StartFails PROVE user' = user
  BY <1>8 DEF StartFails, localVars
<1>9. ASSUME Skips PROVE user' = user
  BY <1>9 DEF Skips, localVars
<1> QED
  BY <1>2, <1>3, <1>4, <1>5, <1>6, <1>7, <1>8, <1>9, TaskCases DEF Runs

\* Every step keeps WorkInv.
LEMMA WorkStep ==
  ASSUME IInv, Next
  PROVE  WorkInv'
<1>. USE DEF IInv
<1>1. CASE SetData
  <2>1. /\ written' = written + 1 /\ by' = [by EXCEPT ![written'] = authUser]
        /\ work' = Append(work, [do |-> "write", of |-> written']) /\ written < MaxWrites
        /\ user' = user /\ authUser' = authUser
    BY <1>1 DEF SetData, Enqueue, localVars
  <2>2. PICK t \in Task : t = [do |-> "write", of |-> written']
    BY <2>1, TaskFacts DEF Types, Writes
  <2>3. /\ written' \in Nat /\ written' >= written /\ written < t.of /\ t.of <= written'
        /\ t.do = "write" /\ written' \in Writes
    BY <2>1, <2>2 DEF Types, Writes
  <2>4. by'[t.of] = authUser /\ \A w \in Writes : w <= written => by'[w] = by[w]
    BY <2>1, <2>2, <2>3 DEF Types, Writes
  <2> QED
    BY <2>1, <2>2, <2>3, <2>4, WorkAppended
<1>2. ASSUME NEW t \in Task, t.do \notin {"write", "credential"}, work' = Append(work, t),
             UNCHANGED <<authUser, by, written, user>>
      PROVE  WorkInv'
  <2>1. written' \in Nat /\ written' >= written
    BY <1>2 DEF Types
  <2> QED
    BY <1>2, <2>1, WorkAppended
<1>3. CASE EnableNetwork \/ DisableNetwork \/ ConnectivityChanges
  <2>1. /\ \E t \in Task : t.do \notin {"write", "credential"} /\ work' = Append(work, t)
        /\ UNCHANGED <<authUser, by, written, user>>
    BY <1>3, TaskFacts DEF EnableNetwork, DisableNetwork, ConnectivityChanges, Enqueue, localVars
  <2> QED
    BY <1>2, <2>1
<1>4. ASSUME NEW u \in Users, AuthStateDidChange(u) PROVE WorkInv'
  <2>1. /\ authUser' = u /\ work' = Append(work, [do |-> "credential", of |-> u])
        /\ UNCHANGED <<by, written, user>>
    BY <1>4 DEF AuthStateDidChange, Enqueue, localVars
  <2>2. PICK t \in Task : t = [do |-> "credential", of |-> u]
    BY TaskFacts
  <2>3. written' \in Nat /\ written' >= written /\ t.do = "credential" /\ t.of = u
    BY <2>1, <2>2 DEF Types
  <2> QED
    BY <2>1, <2>2, <2>3, WorkAppended
<1>5. ASSUME NEW f \in fetching, Fetched(f) PROVE WorkInv'
  <2>1. f.closes \in Nat /\ f.got \in Users \cup {Nobody}
    BY DEF Types
  <2>2. CASE AuthToken(f)
    BY <2>2, WorkSame DEF AuthToken, appVars, localVars
  <2>3. CASE CredentialsReady(f) \/ CredentialsFail(f)
    <3>1. /\ \E t \in Task : t.do \notin {"write", "credential"} /\ work' = Append(work, t)
          /\ UNCHANGED <<authUser, by, written, user>>
      BY <2>1, <2>3, TaskFacts DEF CredentialsReady, CredentialsFail, Enqueue, appVars, localVars
    <3> QED
      BY <1>2, <3>1
  <2> QED
    BY <1>5, <2>2, <2>3 DEF Fetched
<1>6. CASE RunTask
  BY <1>6, TaskFrame, WorkTailed DEF appVars
<1>7. CASE Read \/ StreamFails \/ BackoffElapsed \/ IdleTimeout \/ Serve
  BY <1>7, StreamStepFrame, WorkSame
<1>8. CASE Launch
  <2>1. work' = <<>> /\ user' = authUser'
    BY <1>8 DEF Launch
  <2>2. Len(work') = 0 /\ DOMAIN work' = {}
    BY <2>1
  <2>3. SignedInAt(Len(work) + 1, authUser)'
    BY <2>1, <2>2 DEF SignedInAt
  <2> QED
    BY <2>2, <2>3 DEF WorkInv
<1> QED
  BY <1>1, <1>3, <1>4, <1>5, <1>6, <1>7, <1>8 DEF Next
-----------------------------------------------------------------------------
(* Queues, callbacks and what was reported.                                 *)

\* What is on the wire is in the queue.
LEMMA WireFacts ==
  ASSUME IInv, NEW i \in 1..Len(wire)
  PROVE  /\ IsOpen /\ handshake
         /\ Len(replies) \in Nat /\ Len(replies) + i \in 1..Len(pipeline)
         /\ Len(replies) + i \in DOMAIN queue[user]
         /\ wire[i] = pipeline[Len(replies) + i].write
         /\ wire[i] = queue[user][Len(replies) + i].write
         /\ wire[i] \in Writes /\ Past(wire[i]) /\ by[wire[i]] = user
<1>1. Len(wire) \in Nat /\ Len(replies) \in Nat /\ wire[i] \in Writes
  BY ElementFacts DEF IInv, Types
<1>2. wire # <<>>
  BY <1>1
<1>3. /\ handshake /\ IsOpen /\ Len(replies) + Len(wire) = Len(pipeline)
      /\ wire[i] = pipeline[Len(replies) + i].write
  BY <1>2 DEF IInv, StreamInv
<1>4. Len(replies) + i \in 1..Len(pipeline)
  BY <1>1, <1>3
<1>5. /\ user \in Users /\ Len(pipeline) \in Nat /\ Len(queue[user]) \in Nat
      /\ DOMAIN queue[user] = 1..Len(queue[user])
  BY PipelineTypes, QueueTypes DEF IInv, Types
<1>6. Len(pipeline) <= Len(queue[user]) /\ pipeline[Len(replies) + i] = queue[user][Len(replies) + i]
  BY <1>4 DEF IInv, PipelineInv, FrontOf
<1>7. Len(replies) + i \in DOMAIN queue[user]
  BY <1>4, <1>5, <1>6
<1>8. Past(queue[user][Len(replies) + i].write) /\ by[queue[user][Len(replies) + i].write] = user
  BY <1>5, <1>7 DEF IInv, QueueInv
<1> QED
  BY <1>1, <1>3, <1>4, <1>6, <1>7, <1>8

\* The replies after the handshake are to the writes at the front.
LEMMA ReplyFacts ==
  ASSUME IInv, handshake, NEW i \in 1..Len(replies)
  PROVE  /\ i \in 1..Len(pipeline) /\ i \in DOMAIN queue[user]
         /\ replies[i] = pipeline[i].write /\ replies[i] = queue[user][i].write
         /\ replies[i] \in Writes
<1>1. Len(wire) \in Nat /\ Len(replies) \in Nat
  BY ElementFacts DEF IInv, Types
<1>2. Len(replies) + Len(wire) = Len(pipeline) /\ replies[i] = pipeline[i].write
  BY DEF IInv, StreamInv
<1>3. /\ user \in Users /\ Len(pipeline) \in Nat /\ Len(queue[user]) \in Nat
      /\ DOMAIN queue[user] = 1..Len(queue[user])
      /\ \A k \in 1..Len(pipeline) : pipeline[k].write \in Writes
  BY PipelineTypes, QueueTypes DEF IInv, Types
<1>4. i \in 1..Len(pipeline)
  BY <1>1, <1>2, <1>3
<1>5. Len(pipeline) <= Len(queue[user]) /\ pipeline[i] = queue[user][i]
  BY <1>4 DEF IInv, PipelineInv, FrontOf
<1> QED
  BY <1>2, <1>3, <1>4, <1>5

\* What the server handled of a call that ends had left the worker queue.
LEMMA CommittedByCallEnds ==
  ASSUME IInv, CallEnds
  PROVE  \A w \in committed' : w \in Writes /\ Past(w)
<1>1. Len(wire) \in Nat /\ committed \subseteq Writes
  BY ElementFacts DEF IInv, Types
<1>2. PICK n \in 0..Len(wire) : committed' = committed \cup {wire[i] : i \in 1..n}
  BY <1>1 DEF CallEnds
<1>3. \A i \in 1..n : i \in 1..Len(wire)
  BY <1>1
<1>4. \A i \in 1..n : wire[i] \in Writes /\ Past(wire[i])
  BY <1>3, WireFacts
<1> QED
  BY <1>1, <1>2, <1>4 DEF IInv, QueueInv

\* A write that was taken from the worker queue is not put there again.
LEMMA PastKept ==
  ASSUME Types, NEW w \in Writes, Past(w), written' \in Nat, written' >= written,
         \A i \in DOMAIN work' : work'[i].do = "write" =>
           \/ \E j \in DOMAIN work : work'[i] = work[j]
           \/ work'[i].of \in Nat /\ work'[i].of > written
  PROVE  Past(w)'
<1>1. w \in Nat /\ written \in Nat /\ \A j \in DOMAIN work : work[j].do = "write" => work[j].of \in Nat
  <2>1. \A v \in Writes : v \in Nat
    BY DEF Writes
  <2>2. \A j \in DOMAIN work : work[j].do = "write" => work[j].of \in Writes
    BY WorkTypes
  <2>3. written \in Nat
    BY DEF Types
  <2> QED
    BY <2>1, <2>2, <2>3
<1> QED
  BY <1>1 DEF Past

\* Steps that leave the queues alone keep QueueInv.
LEMMA QueueKept ==
  ASSUME IInv, queue' = queue, callbacks' \subseteq callbacks,
         \/ reported' = reported
         \/ callbacks' = {} /\ \A w \in Writes : reported'[w] # "none" => Past(w),
         nextId' = nextId \/ nextId' = HighestId + 1,
         \A w \in Writes : Past(w) => Past(w)' /\ by'[w] = by[w],
         \A w \in committed' : w \in Writes /\ Past(w)
  PROVE  QueueInv'
<1>1. \A u \in Users : \A i \in DOMAIN queue[u] :
        /\ queue[u][i].write \in Writes /\ queue[u][i].id \in Nat
        /\ queue[u][i].id < nextId /\ queue[u][i].id <= HighestId /\ HighestId \in Nat
        /\ by[queue[u][i].write] = u /\ Past(queue[u][i].write)
  BY QueueTypes, HighestIdFacts DEF IInv, QueueInv
<1>2. \A u \in Users : Ordered(queue'[u])
  BY DEF IInv, QueueInv
<1>3. \A u \in Users : \A i \in DOMAIN queue'[u] :
        /\ queue'[u][i].id < nextId'
        /\ by'[queue'[u][i].write] = u
        /\ Past(queue[u][i].write)'
  <2>1. ASSUME NEW u \in Users, NEW i \in DOMAIN queue[u]
        PROVE  /\ queue[u][i].id < nextId' /\ by'[queue[u][i].write] = u
               /\ Past(queue[u][i].write)'
    <3>1. PICK w \in Writes : w = queue[u][i].write
      BY <1>1
    <3>2. Past(w)' /\ by'[w] = u
      BY <1>1, <3>1
    <3>3. queue'[u][i].write = w
      BY <3>1
    <3>4. queue[u][i].id < nextId'
      BY <1>1
    <3> QED
      BY <3>1, <3>2, <3>3, <3>4
  <2> QED
    BY <2>1
<1>4. \A c \in callbacks' :
        /\ \E i \in DOMAIN queue'[c.user] :
             queue'[c.user][i].id = c.id /\ queue'[c.user][i].write = c.write
        /\ reported'[c.write] = "none"
  BY DEF IInv, QueueInv
<1>5. \A w \in committed' : Past(w)'
  OBVIOUS
<1>6. \A w \in Writes : reported'[w] # "none" => Past(w)'
  BY DEF IInv, QueueInv
<1> QED
  BY <1>2, <1>3, <1>4, <1>5, <1>6 DEF QueueInv

\* Ids tell the batches of a queue apart, and so who waits for them.
LEMMA WaitingFacts ==
  ASSUME IInv, queue[user] # <<>>, NEW c \in callbacks, c.user = user, c.id = queue[user][1].id
  PROVE  c.write = queue[user][1].write
<1>1. /\ user \in Users /\ Ordered(queue[user]) /\ 1 \in DOMAIN queue[user]
      /\ DOMAIN queue[user] = 1..Len(queue[user]) /\ Len(queue[user]) \in Nat
      /\ \A i \in DOMAIN queue[user] : queue[user][i].id \in Nat
  <2>1. user \in Users /\ Ordered(queue[user])
    BY DEF IInv, Types, QueueInv
  <2>2. /\ queue[user] \in Seq(Batch) /\ Len(queue[user]) \in Nat /\ DOMAIN queue[user] = 1..Len(queue[user])
        /\ \A i \in 1..Len(queue[user]) : queue[user][i].id \in Nat
    BY <2>1, QueueTypes DEF IInv
  <2>3. 1 \in DOMAIN queue[user]
    BY <2>2, TailFacts
  <2> QED
    BY <2>1, <2>2, <2>3
<1>2. PICK i \in DOMAIN queue[user] : queue[user][i].id = c.id /\ queue[user][i].write = c.write
  BY DEF IInv, QueueInv
<1>3. ASSUME i # 1 PROVE FALSE
  <2>1. 1 < i
    BY <1>1, <1>3
  <2>2. queue[user][1].id < queue[user][i].id
    BY <1>1, <2>1 DEF Ordered
  <2> QED
    BY <1>1, <1>2, <2>2
<1> QED
  BY <1>2, <1>3

\* At most the front of the queue is reported, as `result`.
LEMMA ReportedFacts ==
  ASSUME IInv, pipeline # <<>>,
         NEW result \in {"committed", "rejected"}, Tell(Head(pipeline), result)
  PROVE  \/ reported' = reported
         \/ /\ reported' = [reported EXCEPT ![queue[user][1].write] = result]
            /\ reported[queue[user][1].write] = "none"
<1>1. queue[user] # <<>> /\ Head(pipeline) = queue[user][1] /\ reported \in [Writes -> {"none", "committed", "rejected"}]
  BY FrontFacts DEF IInv, Types
<1>2. PICK waiting : waiting = {c \in callbacks : c.user = user /\ c.id = queue[user][1].id}
  OBVIOUS
<1>3. reported' = [w \in Writes |-> IF \E c \in waiting : c.write = w THEN result ELSE reported[w]]
  BY <1>1, <1>2 DEF Tell, Waiting
<1>4. \A c \in waiting : c.write = queue[user][1].write
  BY <1>1, <1>2, WaitingFacts
<1>5. CASE waiting = {}
  BY <1>1, <1>3, <1>5
<1>6. CASE waiting # {}
  <2>1. \A w \in Writes : (\E c \in waiting : c.write = w) <=> w = queue[user][1].write
    BY <1>4, <1>6
  <2>2. reported' = [w \in Writes |-> IF w = queue[user][1].write THEN result ELSE reported[w]]
    BY <1>3, <2>1
  <2>3. reported[queue[user][1].write] = "none"
    BY <1>2, <1>4, <1>6 DEF IInv, QueueInv
  <2> QED
    BY <1>1, <2>2, <2>3
<1> QED
  BY <1>5, <1>6

\* What is told of was in the queue.
LEMMA ToldPast ==
  ASSUME IInv, pipeline # <<>>, Tell(Head(pipeline), "committed")
  PROVE  \A w \in Writes : reported'[w] # "none" => Past(w)
<1>1. PICK result \in {"committed", "rejected"} : result = "committed"
  OBVIOUS
<1>2. reported' = reported \/ reported' = [reported EXCEPT ![queue[user][1].write] = result]
  BY <1>1, ReportedFacts
<1>3. \A w \in Writes : reported[w] # "none" => Past(w)
  BY DEF IInv, QueueInv
<1>4. user \in Users /\ queue[user] # <<>> /\ reported \in [Writes -> {"none", "committed", "rejected"}]
  BY FrontFacts DEF IInv, Types
<1>5. 1 \in DOMAIN queue[user]
  BY <1>4, QueueTypes, TailFacts DEF IInv
<1>6. Past(queue[user][1].write)
  BY <1>4, <1>5 DEF IInv, QueueInv
<1> QED
  BY <1>2, <1>3, <1>4, <1>6

\* The front of the queue settles with the result `result`.
LEMMA QueueSettled ==
  ASSUME IInv, pipeline # <<>>, RemoveBatch(Head(pipeline)),
         NEW result \in {"committed", "rejected"}, NotifyUser(Head(pipeline), result),
         UNCHANGED <<user, nextId, by, written, work>>,
         \A w \in committed' : w \in Writes /\ Past(w)
  PROVE  QueueInv'
<1>1. /\ user \in Users /\ user' = user
      /\ Len(queue[user]) \in Nat /\ DOMAIN queue[user] = 1..Len(queue[user])
      /\ pipeline[1] = queue[user][1] /\ Head(pipeline) = pipeline[1] /\ queue[user] # <<>>
  BY RemoveFacts, QueueTypes DEF IInv, Types
<1>2. /\ queue'[user] \in Seq(Batch) /\ Len(queue'[user]) = Len(queue[user]) - 1
      /\ DOMAIN queue'[user] = 1..(Len(queue[user]) - 1)
      /\ \A i \in 1..(Len(queue[user]) - 1) :
           queue'[user][i] = queue[user][i + 1] /\ i + 1 \in DOMAIN queue[user] /\ i + 1 > 1
      /\ \A u \in Users \ {user} : queue'[u] = queue[u]
      /\ Ordered(queue'[user])
  <2>1. /\ queue'[user] \in Seq(Batch) /\ Len(queue'[user]) = Len(queue[user]) - 1
        /\ \A i \in 1..(Len(queue[user]) - 1) : queue'[user][i] = queue[user][i + 1]
        /\ \A u \in Users \ {user} : queue'[u] = queue[u]
        /\ Ordered(queue'[user])
    BY RemoveFacts
  <2>2. DOMAIN queue'[user] = 1..(Len(queue[user]) - 1)
    BY <2>1, ElementFacts
  <2>3. \A i \in 1..(Len(queue[user]) - 1) : i + 1 \in DOMAIN queue[user] /\ i + 1 > 1
    BY <1>1
  <2> QED
    BY <2>1, <2>2, <2>3
<1>3. 1 \in DOMAIN queue[user] /\ queue[user][1].write \in Writes
  <2>1. 1 \in 1..Len(queue[user])
    BY <1>1, QueueTypes, TailFacts DEF IInv
  <2> QED
    BY <1>1, <2>1, QueueTypes DEF IInv
<1>. DEFINE b == queue[user][1]
            waiting == {c \in callbacks : c.user = user /\ c.id = b.id}
<1>4. /\ callbacks' = callbacks \ waiting
      /\ reported' = [w \in Writes |-> IF \E c \in waiting : c.write = w THEN result ELSE reported[w]]
  BY <1>1 DEF NotifyUser, Tell, Waiting, WithoutCallbacks
<1>5. \A u \in Users : \A i \in DOMAIN queue[u] :
        /\ queue[u][i].write \in Writes /\ queue[u][i].id \in Nat
        /\ queue[u][i].id < nextId
        /\ by[queue[u][i].write] = u /\ Past(queue[u][i].write)
  BY QueueTypes DEF IInv, QueueInv
<1>7. \A c \in waiting : c.write = b.write
  BY <1>1, WaitingFacts
\* Writes tell batches apart.
<1>8. /\ \A i \in DOMAIN queue[user] : queue[user][i].write = b.write => i = 1
      /\ \A u \in Users \ {user} : \A i \in DOMAIN queue[u] : queue[u][i].write # b.write
  <2>1. ASSUME NEW i \in DOMAIN queue[user], queue[user][i].write = b.write, i # 1 PROVE FALSE
    <3>1. 1 < i /\ Ordered(queue[user])
      BY <1>1, <2>1 DEF IInv, QueueInv
    <3>2. b.write < queue[user][i].write
      BY <1>3, <2>1, <3>1 DEF Ordered
    <3> QED
      BY <1>3, <2>1, <3>2 DEF Writes
  <2>2. by[b.write] = user
    BY <1>1, <1>3, <1>5
  <2>3. ASSUME NEW u \in Users \ {user}, NEW i \in DOMAIN queue[u], queue[u][i].write = b.write
        PROVE  FALSE
    BY <1>5, <2>2, <2>3
  <2> QED
    BY <2>1, <2>3
<1>9. /\ reported' \in [Writes -> {"none", "committed", "rejected"}]
      /\ \A w \in Writes : w # b.write => reported'[w] = reported[w]
      /\ \A w \in Writes : reported'[w] # "none" => reported[w] # "none" \/ w = b.write
  BY <1>4, <1>7 DEF IInv, Types
<1>10. \A w \in Writes : Past(w) => Past(w)'
  BY DEF Past
<1>. HIDE DEF b, waiting
<1>11. \A u \in Users : Ordered(queue'[u])
  BY <1>2 DEF IInv, QueueInv
<1>12. \A u \in Users : \A i \in DOMAIN queue'[u] :
         \E k \in DOMAIN queue[u] : queue'[u][i] = queue[u][k] /\ queue[u][k].write # b.write
  <2>1. ASSUME NEW i \in DOMAIN queue'[user]
        PROVE  \E k \in DOMAIN queue[user] : queue'[user][i] = queue[user][k] /\ queue[user][k].write # b.write
    <3>1. i \in 1..(Len(queue[user]) - 1)
      BY <1>2
    <3>2. /\ queue'[user][i] = queue[user][i + 1] /\ i + 1 \in DOMAIN queue[user] /\ i + 1 # 1
      BY <1>2, <3>1
    <3> QED
      BY <1>8, <3>2
  <2>2. ASSUME NEW u \in Users \ {user}, NEW i \in DOMAIN queue'[u]
        PROVE  \E k \in DOMAIN queue[u] : queue'[u][i] = queue[u][k] /\ queue[u][k].write # b.write
    <3>1. queue'[u] = queue[u]
      BY <1>2
    <3> QED
      BY <1>8, <3>1
  <2> QED
    BY <2>1, <2>2
<1>13. \A u \in Users : \A i \in DOMAIN queue'[u] :
        /\ queue'[u][i].id < nextId'
        /\ by'[queue'[u][i].write] = u
        /\ Past(queue[u][i].write)'
  <2>1. SUFFICES ASSUME NEW u \in Users, NEW i \in DOMAIN queue'[u]
                 PROVE  /\ queue'[u][i].id < nextId'
                        /\ by'[queue'[u][i].write] = u
                        /\ Past(queue[u][i].write)'
    OBVIOUS
  <2>2. PICK k \in DOMAIN queue[u] : queue'[u][i] = queue[u][k] /\ queue[u][k].write # b.write
    BY <1>12
  <2>3. PICK w \in Writes : w = queue[u][k].write
    BY <1>5
  <2>4. Past(w) /\ by[w] = u /\ queue[u][k].id < nextId
    BY <1>5, <2>3
  <2>5. Past(w)'
    BY <1>10, <2>2, <2>3, <2>4
  <2> QED
    BY <2>2, <2>3, <2>4, <2>5
<1>14. \A c \in callbacks' :
         /\ \E i \in DOMAIN queue'[c.user] :
              queue'[c.user][i].id = c.id /\ queue'[c.user][i].write = c.write
         /\ reported'[c.write] = "none"
  <2>1. SUFFICES ASSUME NEW c \in callbacks, c \notin waiting
                 PROVE  /\ \E i \in DOMAIN queue'[c.user] :
                             queue'[c.user][i].id = c.id /\ queue'[c.user][i].write = c.write
                        /\ reported'[c.write] = "none"
    BY <1>4
  <2>2. c.user \in Users /\ c.write \in Writes /\ reported[c.write] = "none"
    BY DEF IInv, Types, QueueInv
  <2>3. PICK k \in DOMAIN queue[c.user] : queue[c.user][k].id = c.id /\ queue[c.user][k].write = c.write
    BY DEF IInv, QueueInv
  <2>4. CASE c.user # user
    BY <1>2, <1>8, <1>9, <2>2, <2>3, <2>4
  <2>5. CASE c.user = user
    <3>1. k # 1
      BY <2>1, <2>3, <2>5 DEF b, waiting
    <3>2. k \in 1..Len(queue[user]) /\ k - 1 \in 1..(Len(queue[user]) - 1) /\ (k - 1) + 1 = k
      BY <1>1, <2>3, <2>5, <3>1
    <3>3. queue'[user][k - 1] = queue[user][k] /\ k - 1 \in DOMAIN queue'[user]
      BY <1>2, <3>2
    <3>4. c.write # b.write
      BY <1>8, <2>3, <2>5, <3>1
    <3> QED
      BY <1>9, <2>2, <2>3, <2>5, <3>3, <3>4
  <2> QED
    BY <2>4, <2>5
<1>15. \A w \in committed' : Past(w)'
  BY <1>10
<1>16. \A w \in Writes : reported'[w] # "none" => Past(w)'
  <2>1. Past(b.write)
    BY <1>1, <1>3, <1>5 DEF b
  <2>2. ASSUME NEW w \in Writes, reported'[w] # "none" PROVE Past(w)
    BY <1>9, <2>1, <2>2 DEF IInv, QueueInv
  <2> QED
    BY <1>10, <2>2
<1> QED
  BY <1>11, <1>13, <1>14, <1>15, <1>16 DEF QueueInv

\* The first task, when it is a write, is a write of the user that was never
\* queued.
LEMMA FirstWrite ==
  ASSUME IInv, work # <<>>, work[1].do = "write", work' = Tail(work), UNCHANGED appVars,
         NEW w, w = work[1].of
  PROVE  /\ w \in Writes /\ by[w] = user /\ reported[w] = "none"
         /\ Past(w)' /\ ~Past(w)
         /\ \A i \in DOMAIN queue[user] : queue[user][i].write < w
         /\ \A v \in Writes : Past(v) => Past(v)' /\ v < w
<1>1. /\ Len(work) \in Nat \ {0} /\ DOMAIN work = 1..Len(work) /\ 1 \in DOMAIN work
      /\ work[1].of \in Writes /\ work[1].of \in Nat
      /\ Len(work') = Len(work) - 1 /\ DOMAIN work' = 1..(Len(work) - 1)
      /\ \A i \in 1..(Len(work) - 1) : work'[i] = work[i + 1] /\ i + 1 \in DOMAIN work /\ 1 < i + 1
  <2>1. /\ Len(work) \in Nat \ {0} /\ DOMAIN work = 1..Len(work)
        /\ work' \in Seq(Task) /\ Len(work') = Len(work) - 1
        /\ \A i \in 1..(Len(work) - 1) : work'[i] = work[i + 1]
    BY HeadOfWork, WorkTypes DEF IInv
  <2>2. 1 \in DOMAIN work /\ DOMAIN work' = 1..(Len(work) - 1)
        /\ \A i \in 1..(Len(work) - 1) : i + 1 \in DOMAIN work /\ 1 < i + 1
    BY <2>1, ElementFacts
  <2>3. work[1].of \in Writes
    BY <2>1, <2>2, WorkTypes DEF IInv
  <2> QED
    BY <2>1, <2>2, <2>3 DEF Writes
<1>2. work[1].of <= written /\ SignedInAt(1, by[work[1].of])
  BY <1>1 DEF IInv, WorkInv
<1>3. by[work[1].of] = user
  BY <1>2 DEF SignedInAt
<1>4. Past(w)'
  <2>1. \A i \in DOMAIN work' : work'[i].do = "write" => w < work'[i].of
    BY <1>1 DEF IInv, WorkInv
  <2>2. w <= written'
    BY <1>2 DEF appVars
  <2> QED
    BY <2>1, <2>2 DEF Past
<1>5. ~Past(w)
  BY <1>1 DEF Past
<1>6. \A v \in Writes : Past(v) => Past(v)' /\ v < w
  <2>1. \A v \in Writes : Past(v) => v < w
    BY <1>1 DEF Past
  <2>2. ASSUME NEW v \in Writes, Past(v) PROVE Past(v)'
    BY <1>1, <2>2 DEF Past, appVars
  <2> QED
    BY <2>1, <2>2
<1>7. ASSUME NEW i \in DOMAIN queue[user] PROVE queue[user][i].write < w
  <2>1. user \in Users
    BY DEF IInv, Types
  <2>2. PICK v \in Writes : v = queue[user][i].write /\ Past(v)
    BY <1>7, <2>1, QueueTypes DEF IInv, QueueInv
  <2> QED
    BY <1>6, <2>2
<1> QED
  BY <1>1, <1>3, <1>4, <1>5, <1>6, <1>7 DEF IInv, QueueInv

\* A write that is run keeps QueueInv.
LEMMA QueuePersisted ==
  ASSUME IInv, work # <<>>, work[1].do = "write", work' = Tail(work), UNCHANGED appVars,
         WriteMutations(work[1].of)
  PROVE  QueueInv'
<1>1. PICK w : w = work[1].of
  OBVIOUS
<1>2. /\ w \in Writes /\ by[w] = user /\ reported[w] = "none"
      /\ Past(w)' /\ ~Past(w)
      /\ \A i \in DOMAIN queue[user] : queue[user][i].write < w
      /\ \A v \in Writes : Past(v) => Past(v)' /\ v < w
  BY <1>1, FirstWrite
<1>3. /\ queue' = [queue EXCEPT ![user] = Append(@, [id |-> nextId, write |-> w])]
      /\ nextId' = nextId + 1
      /\ callbacks' = callbacks \cup {[user |-> user, id |-> nextId, write |-> w]}
      /\ reported' = reported /\ committed' = committed
  BY <1>1, Zenon DEF WriteMutations, serverVars
<1>4. /\ queue'[user] \in Seq(Batch) /\ Len(queue'[user]) = Len(queue[user]) + 1
      /\ \A i \in 1..Len(queue[user]) : queue'[user][i] = queue[user][i]
      /\ queue'[user][Len(queue[user]) + 1] = [id |-> nextId, write |-> w]
      /\ \A u \in Users \ {user} : queue'[u] = queue[u]
      /\ Ordered(queue'[user])
  BY <1>2, <1>3, PersistFacts
<1>5. /\ user \in Users /\ Len(queue[user]) \in Nat /\ DOMAIN queue[user] = 1..Len(queue[user])
      /\ DOMAIN queue'[user] = 1..(Len(queue[user]) + 1) /\ nextId \in Nat
      /\ by' = by
  <2>1. user \in Users /\ nextId \in Nat /\ by' = by
    BY DEF IInv, Types, appVars
  <2> QED
    BY <1>4, <2>1, QueueTypes, ElementFacts DEF IInv
<1>6. \A u \in Users : Ordered(queue'[u])
  BY <1>4 DEF IInv, QueueInv
<1>7. ASSUME NEW u \in Users, NEW i \in DOMAIN queue[u]
      PROVE  /\ queue[u][i].id < nextId' /\ by[queue[u][i].write] = u
             /\ Past(queue[u][i].write)'
             /\ queue'[u][i] = queue[u][i] /\ i \in DOMAIN queue'[u]
  <2>1. /\ queue[u][i].write \in Writes /\ queue[u][i].id \in Nat
        /\ queue[u][i].id < nextId /\ Past(queue[u][i].write)
        /\ by[queue[u][i].write] = u
    BY QueueTypes DEF IInv, QueueInv
  <2>2. queue'[u][i] = queue[u][i] /\ i \in DOMAIN queue'[u]
    <3>1. CASE u = user
      <4>1. i \in 1..Len(queue[user]) /\ i \in 1..(Len(queue[user]) + 1)
        BY <1>5, <3>1
      <4> QED
        BY <1>4, <1>5, <3>1, <4>1
    <3>2. CASE u # user
      BY <1>4, <3>2
    <3> QED
      BY <3>1, <3>2
  <2>3. PICK v \in Writes : v = queue[u][i].write
    BY <2>1
  <2>4. Past(v)'
    BY <1>2, <2>1, <2>3
  <2> QED
    BY <1>3, <1>5, <2>1, <2>2, <2>3, <2>4
<1>8. \A u \in Users : \A i \in DOMAIN queue'[u] :
        /\ queue'[u][i].id < nextId'
        /\ by'[queue'[u][i].write] = u
        /\ Past(queue[u][i].write)'
  <2>1. SUFFICES ASSUME NEW u \in Users, NEW i \in DOMAIN queue'[u]
                 PROVE  /\ queue'[u][i].id < nextId'
                        /\ by'[queue'[u][i].write] = u
                        /\ Past(queue[u][i].write)'
    OBVIOUS
  <2>2. CASE i \in DOMAIN queue[u]
    BY <1>3, <1>5, <1>7, <2>2
  <2>3. CASE i \notin DOMAIN queue[u]
    <3>1. u = user /\ i = Len(queue[user]) + 1
      BY <1>4, <1>5, <2>3
    <3>2. queue'[u][i].id = nextId /\ queue'[u][i].write = w
      BY <1>4, <3>1
    <3> QED
      BY <1>2, <1>3, <1>5, <3>1, <3>2
  <2> QED
    BY <2>2, <2>3
<1>9. \A c \in callbacks' :
        /\ \E i \in DOMAIN queue'[c.user] :
             queue'[c.user][i].id = c.id /\ queue'[c.user][i].write = c.write
        /\ reported'[c.write] = "none"
  <2>1. ASSUME NEW c \in callbacks
        PROVE  /\ \E i \in DOMAIN queue'[c.user] :
                    queue'[c.user][i].id = c.id /\ queue'[c.user][i].write = c.write
               /\ reported'[c.write] = "none"
    <3>1. c.user \in Users /\ reported'[c.write] = "none"
      BY <1>3 DEF IInv, Types, QueueInv
    <3>2. PICK i \in DOMAIN queue[c.user] : queue[c.user][i].id = c.id /\ queue[c.user][i].write = c.write
      BY DEF IInv, QueueInv
    <3> QED
      BY <1>7, <3>1, <3>2
  <2>2. ASSUME NEW c, c = [user |-> user, id |-> nextId, write |-> w]
        PROVE  /\ \E i \in DOMAIN queue'[c.user] :
                    queue'[c.user][i].id = c.id /\ queue'[c.user][i].write = c.write
               /\ reported'[c.write] = "none"
    <3>1. c.user = user /\ c.id = nextId /\ c.write = w
      BY <2>2
    <3>2. Len(queue[user]) + 1 \in DOMAIN queue'[user]
      BY <1>5
    <3> QED
      BY <1>2, <1>3, <1>4, <3>1, <3>2
  <2> QED
    BY <1>3, <2>1, <2>2
<1>10. \A v \in committed' : Past(v)'
  BY <1>2, <1>3 DEF IInv, QueueInv, Types
<1>11. \A v \in Writes : reported'[v] # "none" => Past(v)'
  BY <1>2, <1>3 DEF IInv, QueueInv
<1> QED
  BY <1>6, <1>8, <1>9, <1>10, <1>11 DEF QueueInv

\* Steps that only lengthen the worker queue keep what is past.
LEMMA PastAppended ==
  ASSUME Types, NEW t \in Task, work' = Append(work, t), written' \in Nat, written' >= written,
         t.do = "write" => t.of > written
  PROVE  \A w \in Writes : Past(w) => Past(w)'
<1>1. \A i \in DOMAIN work' : (i \in DOMAIN work /\ work'[i] = work[i]) \/ work'[i] = t
  <2>1. work \in Seq(Task) /\ work' \in Seq(Task)
    BY WorkTypes, AppendFacts
  <2> QED
    BY <2>1, AppendFacts, ElementFacts
<1>2. t.do = "write" => t.of \in Nat
  BY TaskFields DEF Writes
<1> QED
  BY <1>1, <1>2, PastKept

\* Running a task puts no write back.
LEMMA PastTailed ==
  ASSUME Types, work # <<>>, work' = Tail(work), written' = written
  PROVE  \A w \in Writes : Past(w) => Past(w)'
<1>1. \A i \in DOMAIN work' : i + 1 \in DOMAIN work /\ work'[i] = work[i + 1]
  BY HeadOfWork, WorkTypes, ElementFacts
<1>2. written' \in Nat /\ written' >= written
  BY DEF Types
<1> QED
  BY <1>1, <1>2, PastKept

\* Nor do steps that leave the worker queue alone.
LEMMA PastSame ==
  ASSUME UNCHANGED <<work, written>>
  PROVE  \A w \in Writes : Past(w) => Past(w)'
BY DEF Past

\* What was committed had left the worker queue.
LEMMA CommittedPast ==
  ASSUME IInv, committed' = committed
  PROVE  \A w \in committed' : w \in Writes /\ Past(w)
BY DEF IInv, QueueInv, Types

\* Steps of the app and of the token providers keep QueueInv.
LEMMA QueueOfAppStep ==
  ASSUME IInv,
         \/ SetData \/ EnableNetwork \/ DisableNetwork \/ ConnectivityChanges
         \/ (\E u \in Users : AuthStateDidChange(u))
         \/ (\E f \in fetching : Fetched(f))
  PROVE  QueueInv'
<1>1. UNCHANGED <<localVars, serverVars>>
  BY DEF SetData, EnableNetwork, DisableNetwork, ConnectivityChanges, AuthStateDidChange, Fetched,
         AuthToken, CredentialsReady, CredentialsFail
<1>2. /\ UNCHANGED <<queue, reported, nextId>> /\ callbacks' \subseteq callbacks
      /\ \A w \in committed' : w \in Writes /\ Past(w)
  BY <1>1, CommittedPast DEF localVars, serverVars
<1>3. CASE SetData
  <2>1. /\ written' = written + 1 /\ by' = [by EXCEPT ![written'] = authUser]
        /\ work' = Append(work, [do |-> "write", of |-> written']) /\ written < MaxWrites
    BY <1>3 DEF SetData, Enqueue
  <2>2. written \in Nat /\ written' \in Writes /\ by \in [Writes -> Users]
    BY <2>1 DEF IInv, Types, Writes
  <2>3. PICK t \in Task : t = [do |-> "write", of |-> written']
    BY <2>2, TaskFacts
  <2>4. \A w \in Writes : Past(w) => Past(w)'
    BY <2>1, <2>2, <2>3, PastAppended DEF IInv
  <2>5. \A w \in Writes : Past(w) => by'[w] = by[w]
    BY <2>1, <2>2 DEF Past, Writes
  <2> QED
    BY <1>2, <2>4, <2>5, QueueKept
<1>4. ASSUME NEW t \in Task, t.do # "write", work' = Append(work, t), UNCHANGED <<by, written>>
      PROVE  QueueInv'
  <2>1. written' \in Nat /\ written' >= written
    BY <1>4 DEF IInv, Types
  <2>2. \A w \in Writes : Past(w) => Past(w)'
    BY <1>4, <2>1, PastAppended DEF IInv
  <2> QED
    BY <1>2, <1>4, <2>2, QueueKept
<1>5. CASE EnableNetwork \/ DisableNetwork \/ ConnectivityChanges
  <2>1. /\ \E t \in Task : t.do # "write" /\ work' = Append(work, t)
        /\ UNCHANGED <<by, written>>
    BY <1>5, TaskFacts DEF EnableNetwork, DisableNetwork, ConnectivityChanges, Enqueue
  <2> QED
    BY <1>4, <2>1
<1>6. ASSUME NEW u \in Users, AuthStateDidChange(u) PROVE QueueInv'
  <2>1. /\ \E t \in Task : t.do # "write" /\ work' = Append(work, t)
        /\ UNCHANGED <<by, written>>
    BY <1>6, TaskFacts DEF AuthStateDidChange, Enqueue
  <2> QED
    BY <1>4, <2>1
<1>7. ASSUME NEW f \in fetching, Fetched(f) PROVE QueueInv'
  <2>1. f.closes \in Nat /\ f.got \in Users \cup {Nobody}
    BY DEF IInv, Types
  <2>2. CASE AuthToken(f)
    <3>1. UNCHANGED <<by, written, work>>
      BY <2>2 DEF AuthToken, appVars
    <3> QED
      BY <1>2, <3>1, PastSame, QueueKept
  <2>3. CASE CredentialsReady(f) \/ CredentialsFail(f)
    <3>1. /\ \E t \in Task : t.do # "write" /\ work' = Append(work, t)
          /\ UNCHANGED <<by, written>>
      BY <2>1, <2>3, TaskFacts DEF CredentialsReady, CredentialsFail, Enqueue, appVars
    <3> QED
      BY <1>4, <3>1
  <2> QED
    BY <1>7, <2>2, <2>3 DEF Fetched
<1> QED
  BY <1>3, <1>5, <1>6, <1>7

\* Tasks keep QueueInv.
LEMMA QueueOfTask ==
  ASSUME IInv, RunTask
  PROVE  QueueInv'
<1>1. work # <<>> /\ work' = Tail(work) /\ UNCHANGED appVars
  BY TaskFrame DEF IInv
<1>2. \A w \in Writes : Past(w) => Past(w)' /\ by'[w] = by[w]
  BY <1>1, PastTailed DEF IInv, appVars
<1>3. ASSUME UNCHANGED <<queue, reported, callbacks>>, nextId' = nextId \/ nextId' = HighestId + 1,
             committed' = committed \/ CallEnds
      PROVE  QueueInv'
  <2>1. \A w \in committed' : w \in Writes /\ Past(w)
    BY <1>3, CommittedPast, CommittedByCallEnds
  <2> QED
    BY <1>2, <1>3, <2>1, QueueKept
<1>4. ASSUME NEW u, RestartNetwork(u) PROVE committed' = committed \/ CallEnds
  BY <1>4 DEF RestartNetwork, StopStream, serverVars
<1>5. ASSUME work[1].do = "write", WriteMutations(work[1].of) PROVE QueueInv'
  BY <1>1, <1>5, QueuePersisted
<1>6. ASSUME RunEnable PROVE QueueInv'
  BY <1>3, <1>6 DEF RunEnable, localVars, serverVars
<1>7. ASSUME RunDisable PROVE QueueInv'
  BY <1>3, <1>7 DEF RunDisable, StopStream, localVars
<1>8. ASSUME Reconnect PROVE QueueInv'
  BY <1>3, <1>4, <1>8 DEF Reconnect, localVars
<1>9. ASSUME HandleCredentialChange(work[1].of) PROVE QueueInv'
  BY <1>3, <1>4, <1>9 DEF HandleCredentialChange
<1>10. ASSUME ResumeStart(work[1].of) \/ StartFails \/ Skips PROVE QueueInv'
  BY <1>3, <1>10 DEF ResumeStart, StartFails, Skips, localVars, serverVars
<1> QED
  BY <1>5, <1>6, <1>7, <1>8, <1>9, <1>10, TaskCases DEF Runs, IInv

\* Steps of the stream, the server and the process keep QueueInv.
LEMMA QueueOfStreamStep ==
  ASSUME IInv,
         \/ Read \/ StreamFails \/ BackoffElapsed \/ IdleTimeout \/ Serve \/ Launch
  PROVE  QueueInv'
<1>1. CASE MutationResult
  <2>1. /\ pipeline # <<>> /\ NotifyUser(Head(pipeline), "committed") /\ RemoveBatch(Head(pipeline))
        /\ UNCHANGED <<user, nextId, by, written, work>> /\ committed' = committed
    BY <1>1 DEF MutationResult, Acknowledged, appVars, serverVars
  <2>2. PICK result \in {"committed", "rejected"} : result = "committed"
    OBVIOUS
  <2> QED
    BY <2>1, <2>2, CommittedPast, QueueSettled
<1>2. CASE WriteRejected
  <2>1. /\ pipeline # <<>> /\ NotifyUser(Head(pipeline), "rejected") /\ RemoveBatch(Head(pipeline))
        /\ UNCHANGED <<user, nextId, by, written, work>> /\ CallEnds
    BY <1>2 DEF WriteRejected, appVars
  <2>2. PICK result \in {"committed", "rejected"} : result = "rejected"
    OBVIOUS
  <2> QED
    BY <2>1, <2>2, CommittedByCallEnds, QueueSettled
<1>3. ASSUME UNCHANGED <<queue, reported, nextId, callbacks, by, written, work>>,
             committed' = committed \/ CallEnds
      PROVE  QueueInv'
  <2>1. \A w \in committed' : w \in Writes /\ Past(w)
    BY <1>3, CommittedPast, CommittedByCallEnds
  <2> QED
    BY <1>3, <2>1, PastSame, QueueKept
<1>4. CASE HandshakeComplete
  BY <1>3, <1>4 DEF HandshakeComplete, appVars, localVars, serverVars
<1>5. CASE StreamFails
  BY <1>3, <1>5 DEF StreamFails, localVars
<1>6. CASE BackoffElapsed
  BY <1>3, <1>6 DEF BackoffElapsed, appVars, localVars, serverVars
<1>7. CASE IdleTimeout
  BY <1>3, <1>7 DEF IdleTimeout, StopStream, appVars, localVars
<1>8. CASE Greet \/ Refuse
  BY <1>3, <1>8 DEF Greet, Refuse, appVars, localVars, serverVars
<1>9. CASE Commit
  <2>1. /\ wire # <<>> /\ committed' = committed \cup {Head(wire)}
        /\ UNCHANGED <<queue, reported, nextId, callbacks, by, written, work>>
    BY <1>9 DEF Commit, appVars, localVars
  <2>2. Head(wire) = wire[1] /\ 1 \in 1..Len(wire)
    BY <2>1, TailFacts DEF IInv, Types
  <2>3. wire[1] \in Writes /\ Past(wire[1])
    BY <2>2, WireFacts
  <2>4. \A w \in committed' : w \in Writes /\ Past(w)
    BY <2>1, <2>2, <2>3 DEF IInv, QueueInv, Types
  <2> QED
    BY <2>1, <2>4, PastSame, QueueKept
<1>10. CASE Launch
  <2>1. /\ work' = <<>> /\ nextId' = HighestId + 1 /\ callbacks' = {} /\ CallEnds
        /\ UNCHANGED <<by, written, queue>>
    BY <1>10 DEF Launch
  <2>2. \A w \in Writes : Past(w) => Past(w)' /\ by'[w] = by[w]
    BY <2>1 DEF Past
  <2>3. reported' = reported \/ \A w \in Writes : reported'[w] # "none" => Past(w)
    <3>1. reported' = reported \/ (Acknowledged /\ Tell(Head(pipeline), "committed"))
      BY <1>10 DEF Launch
    <3> QED
      BY <3>1, ToldPast DEF Acknowledged
  <2> QED
    BY <2>1, <2>2, <2>3, CommittedByCallEnds, QueueKept
<1> QED
  BY <1>1, <1>2, <1>4, <1>5, <1>6, <1>7, <1>8, <1>9, <1>10 DEF Read, Serve

\* Every step keeps QueueInv.
LEMMA QueueStep ==
  ASSUME IInv, Next
  PROVE  QueueInv'
BY QueueOfAppStep, QueueOfTask, QueueOfStreamStep DEF Next
-----------------------------------------------------------------------------
(* The pipeline, and the stream that sends it.                              *)

\* The pipeline is filled while the stream is not open.
LEMMA StreamReopened ==
  ASSUME NEW q \in Seq(Batch), NEW p \in Seq(Batch), Ordered(q), FrontOf(p, q),
         Len(p) <= MaxPending, NEW asked,
         FillWritePipeline(q, p, "Initial", FALSE, <<>>, FALSE, asked),
         ~enabled' => p = <<>>,
         handshake' = FALSE, replies' = <<>>, greeted' = FALSE, ended' = FALSE
  PROVE  /\ StreamInv' /\ FrontOf(pipeline', q) /\ (~enabled' => pipeline' = <<>>)
<1>0. <<>> \in Seq(Writes)
  OBVIOUS
<1>1. PICK sent \in Seq(Writes) : sent = <<>>
  BY <1>0, Zenon
<1>2. PICK s \in States : s = "Initial"
  BY DEF States
<1>3. PICK marked \in BOOLEAN, h \in BOOLEAN : marked = FALSE /\ h = FALSE
  OBVIOUS
<1>4. FillWritePipeline(q, p, s, h, sent, marked, asked)
  BY <1>1, <1>2, <1>3
<1>5. /\ FrontOf(pipeline', q)
      /\ ~enabled' => pipeline' = p
      /\ ~Writable(s, h) => wire' = sent
      /\ idle' <=> \/ s = "Open" /\ enabled' /\ pipeline' = <<>>
                   \/ marked /\ ~(Writable(s, h) /\ pipeline' # p)
      /\ state' = IF enabled' /\ pipeline' # <<>> /\ s = "Error" THEN "Backoff"
                  ELSE IF enabled' /\ pipeline' # <<>> /\ s = "Initial" THEN "Starting"
                  ELSE s
  <2>1. SentOn(p, s, h, sent)
    BY <1>4, FillSends
  <2>2. ~Writable(s, h) => wire' = sent
    BY <2>1 DEF SentOn
  <2> QED
    BY <1>4, <2>2, FillFacts
<1>6. /\ wire' = <<>> /\ ~idle'
      /\ state' = IF enabled' /\ pipeline' # <<>> THEN "Starting" ELSE "Initial"
  BY <1>1, <1>2, <1>3, <1>5 DEF Writable
<1>7. StreamInv'
  BY <1>6 DEF StreamInv, IsOpen, IsStarted
<1> QED
  BY <1>5, <1>7

\* The pipeline is filled and the stream goes on; p is what is left of it.
LEMMA StreamContinued ==
  ASSUME IInv, NEW q \in Seq(Batch), NEW p \in Seq(Batch), Ordered(q), FrontOf(p, q),
         Len(p) <= MaxPending,
         FillWritePipeline(q, p, state, handshake, wire, idle, fetching),
         enabled => enabled', ~enabled' => p = <<>>,
         UNCHANGED <<handshake, greeted, ended>>, replies' \in Seq(Writes \cup {Hello}),
         ~handshake => p = pipeline /\ replies' = replies,
         idle => p = <<>>,
         handshake =>
           /\ Len(replies') + Len(wire) = Len(p)
           /\ \A i \in 1..Len(replies') : replies'[i] = p[i].write
           /\ \A i \in 1..Len(wire) : wire[i] = p[Len(replies') + i].write
  PROVE  /\ StreamInv' /\ FrontOf(pipeline', q) /\ (~enabled' => pipeline' = <<>>)
<1>1. /\ wire \in Seq(Writes) /\ Len(wire) \in Nat /\ Len(replies') \in Nat
      /\ Len(p) \in Nat /\ state \in States /\ idle \in BOOLEAN
      /\ handshake \in BOOLEAN
  BY ElementFacts DEF IInv, Types, States
<1>2. /\ FrontOf(pipeline', q) /\ pipeline' \in Seq(Batch)
      /\ Len(p) <= Len(pipeline') /\ \A i \in 1..Len(p) : pipeline'[i] = p[i]
      /\ ~enabled' => pipeline' = p
      /\ ~Writable(state, handshake) => wire' = wire
      /\ Writable(state, handshake) =>
           /\ Len(wire') = Len(wire) + Len(pipeline') - Len(p)
           /\ \A i \in 1..Len(wire) : wire'[i] = wire[i]
           /\ \A i \in 1..(Len(pipeline') - Len(p)) :
                wire'[Len(wire) + i] = pipeline'[Len(p) + i].write
      /\ idle' <=> \/ state = "Open" /\ enabled' /\ pipeline' = <<>>
                   \/ idle /\ ~(Writable(state, handshake) /\ pipeline' # p)
      /\ state' = IF enabled' /\ pipeline' # <<>> /\ state = "Error" THEN "Backoff"
                  ELSE IF enabled' /\ pipeline' # <<>> /\ state = "Initial" THEN "Starting"
                  ELSE state
  <2>a. PICK sent \in Seq(Writes) : sent = wire
    BY <1>1, Zenon
  <2>b. PICK s \in States : s = state
    BY <1>1, Zenon
  <2>c. PICK h \in BOOLEAN : h = handshake
    BY <1>1, Zenon
  <2>d. PICK marked \in BOOLEAN : marked = idle
    BY <1>1, Zenon
  <2>e. PICK asked \in SUBSET Fetches : asked = fetching
    BY DEF IInv, Types, Fetches
  <2>2. FillWritePipeline(q, p, s, h, sent, marked, asked)
    BY <2>a, <2>b, <2>c, <2>d, <2>e
  <2>3. /\ FrontOf(pipeline', q) /\ pipeline' \in Seq(Batch)
        /\ Len(p) <= Len(pipeline') /\ \A i \in 1..Len(p) : pipeline'[i] = p[i]
        /\ ~enabled' => pipeline' = p
    BY <2>2, FillFacts
  <2>4. /\ ~Writable(s, h) => wire' = sent
        /\ Writable(s, h) =>
             /\ Len(wire') = Len(sent) + Len(pipeline') - Len(p)
             /\ \A i \in 1..Len(sent) : wire'[i] = sent[i]
             /\ \A i \in 1..(Len(pipeline') - Len(p)) :
                  wire'[Len(sent) + i] = pipeline'[Len(p) + i].write
    <3>1. SentOn(p, s, h, sent)
      BY <2>2, FillSends
    <3> QED
      BY <3>1 DEF SentOn
  <2>5. /\ idle' <=> \/ s = "Open" /\ enabled' /\ pipeline' = <<>>
                     \/ marked /\ ~(Writable(s, h) /\ pipeline' # p)
        /\ state' = IF enabled' /\ pipeline' # <<>> /\ s = "Error" THEN "Backoff"
                    ELSE IF enabled' /\ pipeline' # <<>> /\ s = "Initial" THEN "Starting"
                    ELSE s
    BY <2>2, FillFacts
  <2> QED
    BY <2>a, <2>b, <2>c, <2>d, <2>3, <2>4, <2>5
<1>3. Len(pipeline') \in Nat /\ (pipeline' = <<>> <=> Len(pipeline') = 0) /\ (p = <<>> <=> Len(p) = 0)
  BY <1>2
<1>4. StreamInv
  BY DEF IInv
<1>5. (IsStarted => enabled)'
  BY <1>2, <1>4 DEF StreamInv, IsStarted
<1>6. (state \in {"Starting", "Backoff"} \/ (IsOpen /\ ~handshake) => pipeline # <<>>)'
  <2>1. CASE ~handshake
    BY <1>1, <1>2, <1>3, <1>4, <2>1 DEF StreamInv, IsOpen
  <2>2. CASE handshake
    BY <1>2, <1>4, <2>2 DEF StreamInv, IsOpen
  <2> QED
    BY <2>1, <2>2
<1>7. (idle => IsOpen /\ handshake /\ pipeline = <<>>)'
  <2>1. CASE state = "Open" /\ enabled' /\ pipeline' = <<>>
    <3>1. p = <<>>
      BY <1>1, <1>2, <1>3, <2>1
    <3>2. handshake
      BY <1>4, <2>1, <3>1 DEF StreamInv, IsOpen
    <3> QED
      BY <1>2, <2>1, <3>2 DEF IsOpen
  <2>2. CASE idle /\ ~(Writable(state, handshake) /\ pipeline' # p)
    <3>1. state = "Open" /\ handshake /\ p = <<>>
      BY <1>4, <2>2 DEF StreamInv, IsOpen
    <3>2. pipeline' = <<>>
      BY <2>2, <3>1 DEF Writable
    <3> QED
      BY <1>2, <3>1, <3>2 DEF IsOpen
  <2> QED
    BY <1>2, <2>1, <2>2
<1>8. (handshake => IsOpen /\ greeted)'
  BY <1>2, <1>4 DEF StreamInv, IsOpen
<1>9. (IsOpen /\ ~handshake => Len(replies) = (IF greeted THEN 1 ELSE 0))'
  BY <1>2, <1>4 DEF StreamInv, IsOpen
<1>10. (~IsOpen => replies = <<>> /\ ~greeted)'
  BY <1>2, <1>4 DEF StreamInv, IsOpen
<1>11. (~handshake => wire = <<>> /\ ~ended)'
  BY <1>2, <1>4 DEF StreamInv, Writable
<1>12. (handshake =>
         /\ Len(replies) + Len(wire) = Len(pipeline)
         /\ \A i \in 1..Len(replies) : replies[i] = pipeline[i].write
         /\ \A i \in 1..Len(wire) : wire[i] = pipeline[Len(replies) + i].write)'
  <2>. SUFFICES ASSUME handshake
                PROVE  /\ Len(replies') + Len(wire') = Len(pipeline')
                       /\ \A i \in 1..Len(replies') : replies'[i] = pipeline'[i].write
                       /\ \A i \in 1..Len(wire') : wire'[i] = pipeline'[Len(replies') + i].write
    OBVIOUS
  <2>1. Writable(state, handshake)
    BY <1>4 DEF StreamInv, IsOpen, Writable
  <2>2. Len(replies') + Len(wire') = Len(pipeline')
    BY <1>1, <1>2, <1>3, <2>1
  <2>3. \A i \in 1..Len(replies') : i \in 1..Len(p) /\ replies'[i] = p[i].write
    BY <1>1
  <2>4. \A i \in 1..Len(replies') : replies'[i] = pipeline'[i].write
    BY <1>2, <2>3
  <2>5. ASSUME NEW i \in 1..Len(wire') PROVE wire'[i] = pipeline'[Len(replies') + i].write
    <3>1. CASE i <= Len(wire)
      <4>1. i \in 1..Len(wire) /\ Len(replies') + i \in 1..Len(p)
        BY <1>1, <3>1
      <4>2. wire'[i] = wire[i] /\ wire[i] = p[Len(replies') + i].write
        BY <1>2, <2>1, <4>1
      <4>3. pipeline'[Len(replies') + i] = p[Len(replies') + i]
        BY <1>2, <4>1
      <4> QED
        BY <4>2, <4>3
    <3>2. CASE i > Len(wire)
      <4>1. PICK k \in 1..(Len(pipeline') - Len(p)) : i = Len(wire) + k
        <5>1. i - Len(wire) \in 1..(Len(pipeline') - Len(p)) /\ i = Len(wire) + (i - Len(wire))
          BY <1>1, <1>2, <1>3, <2>1, <3>2
        <5> QED
          BY <5>1, Zenon
      <4>2. wire'[i] = pipeline'[Len(p) + k].write
        BY <1>2, <2>1, <4>1
      <4>3. Len(p) + k = Len(replies') + i
        <5>1. PICK a \in Nat, b \in Nat, c \in Nat : a = Len(replies') /\ b = Len(wire) /\ c = Len(p)
          BY <1>1
        <5>2. a + b = c /\ i = b + k
          BY <4>1, <5>1
        <5>3. k \in Int
          OBVIOUS
        <5>4. c + k = a + i
          BY <5>2, <5>3
        <5> QED
          BY <5>1, <5>4
      <4> QED
        BY <4>2, <4>3
    <3> QED
      BY <1>1, <1>2, <1>3, <2>1, <3>1, <3>2
  <2> QED
    BY <2>2, <2>4, <2>5
<1>13. StreamInv'
  BY <1>5, <1>6, <1>7, <1>8, <1>9, <1>10, <1>11, <1>12 DEF StreamInv
<1> QED
  BY <1>2, <1>13

\* Steps that leave queue and pipeline alone keep PipelineInv.
LEMMA PipelineKept ==
  ASSUME IInv, UNCHANGED <<user, queue, pipeline>>, ~enabled' => pipeline' = <<>>
  PROVE  PipelineInv'
BY DEF IInv, PipelineInv, FrontOf

\* Steps that leave the stream alone keep StreamInv.
LEMMA StreamKept ==
  ASSUME IInv, UNCHANGED <<enabled, pipeline, state, handshake, idle, wire, replies, greeted, ended>>
  PROVE  StreamInv'
BY DEF IInv, StreamInv, IsOpen, IsStarted

\* A stream that is closed, or starts again, satisfies StreamInv.
LEMMA StreamClosed ==
  ASSUME state' \in {"Initial", "Starting", "Error", "Backoff"}, ~handshake', ~idle', wire' = <<>>,
         replies' = <<>>, ~greeted', ~ended',
         state' \in {"Starting", "Backoff"} => enabled' /\ pipeline' # <<>>
  PROVE  StreamInv'
BY DEF StreamInv, IsOpen, IsStarted

\* The pipeline is filled, nothing being taken from it, and the stream goes on.
LEMMA StreamRefilled ==
  ASSUME IInv, NEW q \in Seq(Batch), Ordered(q), FrontOf(pipeline, q),
         FillWritePipeline(q, pipeline, state, handshake, wire, idle, fetching),
         enabled => enabled', UNCHANGED <<handshake, replies, greeted, ended>>
  PROVE  StreamInv' /\ FrontOf(pipeline', q) /\ (~enabled' => pipeline' = <<>>)
<1>1. PICK p \in Seq(Batch) : p = pipeline
  BY PipelineTypes DEF IInv
<1>2. Len(p) <= MaxPending /\ replies' \in Seq(Writes \cup {Hello})
  BY <1>1, PipelineTypes DEF IInv, Types
<1>3. FillWritePipeline(q, p, state, handshake, wire, idle, fetching) /\ FrontOf(p, q)
  BY <1>1
<1>4. /\ ~enabled' => p = <<>>
      /\ idle => p = <<>>
      /\ handshake =>
           /\ Len(replies) + Len(wire) = Len(p)
           /\ \A i \in 1..Len(replies) : replies[i] = p[i].write
           /\ \A i \in 1..Len(wire) : wire[i] = p[Len(replies) + i].write
  BY <1>1 DEF IInv, PipelineInv, StreamInv
<1>5. /\ Len(replies') = Len(replies) /\ \A i \in 1..Len(replies) : replies'[i] = replies[i]
  OBVIOUS
<1> QED
  BY <1>1, <1>2, <1>3, <1>4, <1>5, StreamContinued

\* Opening the streams anew for a user's queue.
LEMMA NetworkRestarted ==
  ASSUME IInv, NEW u \in Users, RestartNetwork(u), user' = u, queue' = queue, enabled' = enabled
  PROVE  PipelineInv' /\ StreamInv'
<1>1. PICK q \in Seq(Batch) : q = queue[u]
  BY QueueTypes DEF IInv
<1>2. Ordered(q)
  BY <1>1 DEF IInv, QueueInv
<1>3. queue'[user'] = q
  BY <1>1
<1>4. CASE enabled
  <2>1. /\ handshake' = FALSE /\ CallEnds
        /\ FillWritePipeline(q, <<>>, "Initial", FALSE, <<>>, FALSE, fetching)
    BY <1>1, <1>4 DEF RestartNetwork, StopStream
  <2>2. replies' = <<>> /\ greeted' = FALSE /\ ended' = FALSE
    BY <2>1 DEF CallEnds
  <2>a. <<>> \in Seq(Batch) /\ FrontOf(<<>>, q) /\ Len(<<>>) <= MaxPending
    BY EmptyFront
  <2>3. PICK p \in Seq(Batch) : p = <<>> /\ FrontOf(p, q) /\ Len(p) <= MaxPending
    BY <2>a, Zenon
  <2>4. FillWritePipeline(q, p, "Initial", FALSE, <<>>, FALSE, fetching)
    BY <2>1, <2>3
  <2>5. StreamInv' /\ FrontOf(pipeline', q) /\ (~enabled' => pipeline' = <<>>)
    BY <1>2, <2>1, <2>2, <2>3, <2>4, StreamReopened
  <2> QED
    BY <1>3, <1>4, <2>5 DEF PipelineInv
<1>5. CASE ~enabled
  <2>1. UNCHANGED <<enabled, pipeline, state, handshake, idle, wire, replies, greeted, ended>>
    BY <1>5 DEF RestartNetwork, callVars
  <2>2. pipeline' = <<>>
    BY <1>5, <2>1 DEF IInv, PipelineInv
  <2>3. FrontOf(pipeline', q)
    BY <2>2, EmptyFront
  <2> QED
    BY <1>3, <2>1, <2>2, <2>3, StreamKept DEF PipelineInv
<1> QED
  BY <1>4, <1>5

\* Steps of the app and of the token providers keep PipelineInv and StreamInv.
LEMMA StreamOfAppStep ==
  ASSUME IInv,
         \/ SetData \/ EnableNetwork \/ DisableNetwork \/ ConnectivityChanges
         \/ (\E u \in Users : AuthStateDidChange(u))
         \/ (\E f \in fetching : Fetched(f))
  PROVE  PipelineInv' /\ StreamInv'
<1>1. UNCHANGED <<localVars, remoteVars, callVars>>
  BY DEF SetData, EnableNetwork, DisableNetwork, ConnectivityChanges, AuthStateDidChange, Fetched,
         AuthToken, CredentialsReady, CredentialsFail
<1>2. ~enabled => pipeline = <<>>
  BY DEF IInv, PipelineInv
<1> QED
  BY <1>1, <1>2, PipelineKept, StreamKept DEF localVars, remoteVars, callVars

\* Tasks keep them.
LEMMA StreamOfTask ==
  ASSUME IInv, RunTask
  PROVE  PipelineInv' /\ StreamInv'
<1>0. /\ user \in Users /\ state \in States /\ work \in Seq(Task) /\ work # <<>>
      /\ enabled \in BOOLEAN /\ handshake \in BOOLEAN /\ idle \in BOOLEAN
      /\ greeted \in BOOLEAN /\ ended \in BOOLEAN
      /\ StreamInv /\ PipelineInv
  BY DEF IInv, Types, States, RunTask
<1>1. ASSUME work[1].do = "write", WriteMutations(work[1].of) PROVE PipelineInv' /\ StreamInv'
  <2>1. /\ work[1].of \in Writes /\ \A i \in DOMAIN queue[user] : queue[user][i].write < work[1].of
    BY <1>0, <1>1, TaskFrame, FirstWrite DEF IInv
  <2>2. PICK w \in Writes : w = work[1].of
    BY <2>1
  <2>3. /\ queue' = [queue EXCEPT ![user] = Append(@, [id |-> nextId, write |-> w])]
        /\ FillWritePipeline(queue'[user], pipeline, state, handshake, wire, idle, fetching)
        /\ UNCHANGED <<enabled, user, handshake, replies, greeted, ended>>
    BY <1>1, <2>2, Zenon DEF WriteMutations
  <2>4. queue'[user] \in Seq(Batch) /\ Ordered(queue'[user]) /\ FrontOf(pipeline, queue'[user])
    BY <2>1, <2>2, <2>3, PersistFacts
  <2>5. PICK q \in Seq(Batch) : q = queue'[user]
    BY <2>4, Zenon
  <2>6. Ordered(q) /\ FrontOf(pipeline, q)
    BY <2>4, <2>5
  <2>7. FillWritePipeline(q, pipeline, state, handshake, wire, idle, fetching)
    BY <2>3, <2>5
  <2>8. StreamInv' /\ FrontOf(pipeline', q) /\ (~enabled' => pipeline' = <<>>)
    BY <2>3, <2>6, <2>7, StreamRefilled
  <2> QED
    BY <2>3, <2>5, <2>8 DEF PipelineInv
<1>2. ASSUME RunEnable PROVE PipelineInv' /\ StreamInv'
  <2>1. /\ enabled' = TRUE
        /\ FillWritePipeline(queue[user], pipeline, state, handshake, wire, idle, fetching)
        /\ UNCHANGED <<user, queue, handshake, replies, greeted, ended>>
    BY <1>2 DEF RunEnable, localVars
  <2>2. PICK q \in Seq(Batch) : q = queue[user]
    BY <1>0, QueueTypes DEF IInv
  <2>3. Ordered(q) /\ FrontOf(pipeline, q)
    BY <1>0, <2>2 DEF IInv, QueueInv, PipelineInv
  <2>4. FillWritePipeline(q, pipeline, state, handshake, wire, idle, fetching)
    BY <2>1, <2>2
  <2>5. StreamInv' /\ FrontOf(pipeline', q)
    BY <2>1, <2>3, <2>4, StreamRefilled
  <2> QED
    BY <2>1, <2>2, <2>5 DEF PipelineInv
<1>3. ASSUME RunDisable PROVE PipelineInv' /\ StreamInv'
  <2>1. /\ handshake' = FALSE /\ state' = Stopped(state) /\ pipeline' = <<>> /\ wire' = <<>>
        /\ idle' = FALSE /\ replies' = <<>> /\ greeted' = FALSE /\ ended' = FALSE
        /\ UNCHANGED <<user, queue>>
    BY <1>3 DEF RunDisable, StopStream, CallEnds, localVars
  <2>2. state' \in {"Initial", "Error"}
    BY <1>0, <2>1 DEF Stopped, IsStarted, States
  <2>3. FrontOf(<<>>, queue[user])
    BY <1>0, QueueTypes, EmptyFront DEF IInv
  <2> QED
    BY <2>1, <2>2, <2>3, StreamClosed DEF PipelineInv
<1>4. ASSUME Reconnect PROVE PipelineInv' /\ StreamInv'
  BY <1>0, <1>4, NetworkRestarted DEF Reconnect, localVars
<1>5. ASSUME work[1].do = "credential", HandleCredentialChange(work[1].of)
      PROVE  PipelineInv' /\ StreamInv'
  BY <1>0, <1>5, HeadOfWork, TaskFields, NetworkRestarted DEF HandleCredentialChange, IInv
<1>6. ASSUME work[1].do \in {"token", "noToken"}, SameLife(work[1])
      PROVE  /\ state = "Starting" /\ enabled /\ pipeline # <<>> /\ ~handshake /\ ~idle
             /\ wire = <<>> /\ replies = <<>> /\ ~greeted /\ ~ended
  <2>1. 1 \in DOMAIN work
    BY <1>0, HeadOfWork DEF IInv
  <2>2. state = "Starting"
    BY <1>6, <2>1 DEF IInv, TokenInv, Awaited, SameLife
  <2> QED
    BY <1>0, <2>2 DEF StreamInv, IsOpen, IsStarted
<1>7. ASSUME work[1].do = "token", SameLife(work[1]), ResumeStart(work[1].of)
      PROVE  PipelineInv' /\ StreamInv'
  <2>1. /\ state' = "Open"
        /\ UNCHANGED <<user, queue, enabled, pipeline, handshake, idle, wire, replies, greeted, ended>>
    BY <1>7 DEF ResumeStart, localVars
  <2>2. PipelineInv'
    BY <1>0, <2>1, PipelineKept DEF PipelineInv
  <2>3. StreamInv'
    BY <1>6, <1>7, <2>1 DEF StreamInv, IsOpen, IsStarted
  <2> QED
    BY <2>2, <2>3
<1>8. ASSUME work[1].do = "noToken", SameLife(work[1]), StartFails PROVE PipelineInv' /\ StreamInv'
  <2>1. /\ state' = FailedTo
        /\ UNCHANGED <<user, queue, enabled, pipeline, handshake, idle, wire, replies, greeted, ended>>
    BY <1>8 DEF StartFails, localVars, callVars
  <2>2. PipelineInv'
    BY <1>0, <2>1, PipelineKept DEF PipelineInv
  <2>3. state' = "Backoff"
    BY <1>6, <1>8, <2>1 DEF FailedTo
  <2>4. StreamInv'
    BY <1>6, <1>8, <2>1, <2>3, StreamClosed
  <2> QED
    BY <2>2, <2>4
<1>9. ASSUME Skips PROVE PipelineInv' /\ StreamInv'
  BY <1>0, <1>9, PipelineKept, StreamKept DEF Skips, PipelineInv, localVars, remoteVars, callVars
<1> QED
  BY <1>1, <1>2, <1>3, <1>4, <1>5, <1>7, <1>8, <1>9, TaskCases DEF Runs, IInv

\* A result takes the first write from queue, pipeline and replies alike.
LEMMA StreamOfResult ==
  ASSUME IInv, MutationResult
  PROVE  PipelineInv' /\ StreamInv'
<1>0. /\ user \in Users /\ state \in States /\ handshake \in BOOLEAN /\ idle \in BOOLEAN
      /\ replies \in Seq(Writes \cup {Hello}) /\ wire \in Seq(Writes)
      /\ StreamInv /\ PipelineInv
  BY DEF IInv, Types, States
<1>1. /\ handshake /\ replies # <<>> /\ pipeline # <<>>
      /\ replies' = Tail(replies) /\ RemoveBatch(Head(pipeline))
      /\ FillWritePipeline(queue'[user], Tail(pipeline), state, handshake, wire, idle, fetching)
      /\ UNCHANGED <<user, enabled, handshake, greeted, ended>>
  BY DEF MutationResult, Acknowledged
<1>2. /\ queue'[user] \in Seq(Batch) /\ Ordered(queue'[user])
      /\ Tail(pipeline) \in Seq(Batch) /\ Len(Tail(pipeline)) = Len(pipeline) - 1
      /\ \A i \in 1..(Len(pipeline) - 1) : Tail(pipeline)[i] = pipeline[i + 1]
      /\ FrontOf(Tail(pipeline), queue'[user])
  BY <1>1, RemoveFacts
<1>3. PICK q \in Seq(Batch) : q = queue'[user]
  BY <1>2, Zenon
<1>4. PICK p \in Seq(Batch) : p = Tail(pipeline)
  BY <1>2, Zenon
<1>5. /\ Ordered(q) /\ FrontOf(p, q) /\ Len(p) = Len(pipeline) - 1
      /\ \A i \in 1..(Len(pipeline) - 1) : p[i] = pipeline[i + 1]
      /\ FillWritePipeline(q, p, state, handshake, wire, idle, fetching)
  BY <1>1, <1>2, <1>3, <1>4
<1>6. /\ Len(pipeline) \in Nat \ {0} /\ Len(p) \in Nat /\ Len(p) <= MaxPending
      /\ Len(wire) \in Nat /\ Len(replies) \in Nat \ {0}
      /\ replies' \in Seq(Writes \cup {Hello}) /\ Len(replies') = Len(replies) - 1
      /\ \A i \in 1..(Len(replies) - 1) : replies'[i] = replies[i + 1]
  <2>1. /\ replies' \in Seq(Writes \cup {Hello}) /\ Len(replies') = Len(replies) - 1
        /\ Len(replies) \in Nat \ {0}
        /\ \A i \in 1..(Len(replies) - 1) : replies'[i] = replies[i + 1]
    BY <1>0, <1>1, TailFacts
  <2>2. Len(pipeline) \in Nat \ {0} /\ Len(pipeline) <= MaxPending /\ Len(wire) \in Nat
    BY <1>0, <1>1, PipelineTypes, ElementFacts DEF IInv
  <2> QED
    BY <1>5, <2>1, <2>2
<1>7. Len(replies') + Len(wire) = Len(p)
  BY <1>0, <1>1, <1>5, <1>6 DEF StreamInv
<1>8. \A i \in 1..Len(replies') : replies'[i] = p[i].write
  <2>1. ASSUME NEW i \in 1..Len(replies') PROVE replies'[i] = p[i].write
    <3>1. i \in 1..(Len(replies) - 1) /\ i + 1 \in 1..Len(replies) /\ i \in 1..(Len(pipeline) - 1)
      BY <1>5, <1>6, <1>7
    <3>2. replies[i + 1] = pipeline[i + 1].write
      BY <1>0, <1>1, <3>1 DEF StreamInv
    <3> QED
      BY <1>5, <1>6, <3>1, <3>2
  <2> QED
    BY <2>1
<1>9. \A i \in 1..Len(wire) : wire[i] = p[Len(replies') + i].write
  <2>1. ASSUME NEW i \in 1..Len(wire) PROVE wire[i] = p[Len(replies') + i].write
    <3>1. wire[i] = pipeline[Len(replies) + i].write
      BY <1>0, <1>1 DEF StreamInv
    <3>2. Len(replies') + i \in 1..(Len(pipeline) - 1) /\ (Len(replies') + i) + 1 = Len(replies) + i
      BY <1>5, <1>6, <1>7
    <3>3. p[Len(replies') + i] = pipeline[Len(replies) + i]
      BY <1>5, <3>2
    <3> QED
      BY <3>1, <3>3
  <2> QED
    BY <2>1
<1>10. ~idle /\ enabled'
  BY <1>0, <1>1 DEF StreamInv, PipelineInv
<1>11. StreamInv' /\ FrontOf(pipeline', q) /\ (~enabled' => pipeline' = <<>>)
  BY <1>1, <1>5, <1>6, <1>7, <1>8, <1>9, <1>10, StreamContinued
<1> QED
  BY <1>1, <1>3, <1>11 DEF PipelineInv

\* A rejection takes it from queue and pipeline, and closes the stream.
LEMMA StreamOfRejection ==
  ASSUME IInv, WriteRejected
  PROVE  PipelineInv' /\ StreamInv'
<1>1. /\ pipeline # <<>> /\ RemoveBatch(Head(pipeline))
      /\ handshake' = FALSE /\ CallEnds
      /\ FillWritePipeline(queue'[user], Tail(pipeline), "Initial", FALSE, <<>>, FALSE, fetching)
      /\ UNCHANGED <<user, enabled>>
  BY DEF WriteRejected
<1>2. /\ queue'[user] \in Seq(Batch) /\ Ordered(queue'[user])
      /\ Tail(pipeline) \in Seq(Batch) /\ Len(Tail(pipeline)) = Len(pipeline) - 1
      /\ FrontOf(Tail(pipeline), queue'[user])
  BY <1>1, RemoveFacts
<1>3. PICK q \in Seq(Batch) : q = queue'[user]
  BY <1>2, Zenon
<1>4. PICK p \in Seq(Batch) : p = Tail(pipeline)
  BY <1>2, Zenon
<1>5. Len(p) <= MaxPending /\ enabled'
  BY <1>1, <1>2, <1>4, PipelineTypes DEF IInv, PipelineInv
<1>6. /\ Ordered(q) /\ FrontOf(p, q)
      /\ FillWritePipeline(q, p, "Initial", FALSE, <<>>, FALSE, fetching)
      /\ replies' = <<>> /\ greeted' = FALSE /\ ended' = FALSE
  BY <1>1, <1>2, <1>3, <1>4 DEF CallEnds
<1>7. StreamInv' /\ FrontOf(pipeline', q)
  BY <1>1, <1>5, <1>6, StreamReopened
<1> QED
  BY <1>1, <1>3, <1>5, <1>7 DEF PipelineInv

\* A launch starts from the queue on disk.
LEMMA StreamOfLaunch ==
  ASSUME IInv, Launch
  PROVE  PipelineInv' /\ StreamInv'
<1>1. authUser \in Users
  BY DEF IInv, Types
<1>2. PICK q \in Seq(Batch) : q = queue[authUser]
  BY <1>1, QueueTypes DEF IInv
<1>3. /\ user' = authUser /\ queue' = queue /\ enabled' = TRUE /\ handshake' = FALSE /\ CallEnds
      /\ FillWritePipeline(q, <<>>, "Initial", FALSE, <<>>, FALSE, {})
  BY <1>2, Zenon DEF Launch
<1>4. Ordered(q) /\ queue'[user'] = q
  BY <1>1, <1>2, <1>3 DEF IInv, QueueInv
<1>5. replies' = <<>> /\ greeted' = FALSE /\ ended' = FALSE
  BY <1>3 DEF CallEnds
<1>6. <<>> \in Seq(Batch) /\ FrontOf(<<>>, q) /\ Len(<<>>) <= MaxPending
  BY EmptyFront
<1>7. PICK p \in Seq(Batch) : p = <<>> /\ FrontOf(p, q) /\ Len(p) <= MaxPending
  BY <1>6, Zenon
<1>8. FillWritePipeline(q, p, "Initial", FALSE, <<>>, FALSE, {})
  BY <1>3, <1>7
<1>9. StreamInv' /\ FrontOf(pipeline', q)
  BY <1>3, <1>4, <1>5, <1>7, <1>8, StreamReopened
<1> QED
  BY <1>3, <1>4, <1>9 DEF PipelineInv

\* The handshake sends the whole pipeline.
LEMMA StreamOfHandshake ==
  ASSUME IInv, HandshakeComplete
  PROVE  PipelineInv' /\ StreamInv'
<1>0. /\ replies \in Seq(Writes \cup {Hello}) /\ StreamInv /\ PipelineInv
      /\ handshake \in BOOLEAN /\ greeted \in BOOLEAN
  BY DEF IInv, Types
<1>1. /\ IsOpen /\ replies # <<>> /\ ~handshake /\ handshake' = TRUE /\ replies' = Tail(replies)
      /\ wire' = wire \o WritesOf(pipeline) /\ idle' = (idle /\ pipeline = <<>>)
      /\ UNCHANGED <<user, queue, enabled, pipeline, state, greeted, ended>>
  BY DEF HandshakeComplete, localVars
<1>2. wire = <<>> /\ ~ended /\ pipeline # <<>> /\ greeted /\ Len(replies) = 1
  <2>1. wire = <<>> /\ ~ended /\ pipeline # <<>> /\ Len(replies) = (IF greeted THEN 1 ELSE 0)
    BY <1>0, <1>1 DEF StreamInv
  <2>2. Len(replies) # 0
    BY <1>0, <1>1
  <2> QED
    BY <1>0, <2>1, <2>2
<1>3. replies' \in Seq(Writes \cup {Hello}) /\ Len(replies') = 0
  BY <1>0, <1>1, <1>2, TailFacts
<1>4. PICK p \in Seq(Batch) : p = pipeline
  BY PipelineTypes DEF IInv
<1>5. /\ WritesOf(p) \in Seq(Writes) /\ Len(WritesOf(p)) = Len(p)
      /\ \A i \in 1..Len(p) : WritesOf(p)[i] = p[i].write
  BY WritesOfFacts
<1>6. PICK sent \in Seq(Writes) : sent = WritesOf(p)
  BY <1>5, Zenon
<1>7. wire' = sent
  BY <1>1, <1>2, <1>4, <1>6
<1>8. Len(p) \in Nat
  BY ElementFacts
<1>9. /\ Len(replies') + Len(wire') = Len(pipeline')
      /\ \A i \in 1..Len(replies') : replies'[i] = pipeline'[i].write
  BY <1>1, <1>3, <1>4, <1>5, <1>6, <1>7, <1>8
<1>10. \A i \in 1..Len(wire') : wire'[i] = pipeline'[Len(replies') + i].write
  <2>1. ASSUME NEW i \in 1..Len(p) PROVE wire'[i] = pipeline'[Len(replies') + i].write
    <3>1. Len(replies') + i = i
      BY <1>3, <1>8
    <3> QED
      BY <1>1, <1>4, <1>5, <1>6, <1>7, <3>1
  <2> QED
    BY <1>5, <1>6, <1>7, <2>1
<1>11. StreamInv'
  BY <1>0, <1>1, <1>2, <1>9, <1>10 DEF StreamInv, IsOpen, IsStarted
<1> QED
  BY <1>0, <1>1, <1>11, PipelineKept DEF PipelineInv

\* Steps of the stream, the server and the process keep them.
LEMMA StreamOfStreamStep ==
  ASSUME IInv,
         \/ Read \/ StreamFails \/ BackoffElapsed \/ IdleTimeout \/ Serve \/ Launch
  PROVE  PipelineInv' /\ StreamInv'
<1>0. /\ replies \in Seq(Writes \cup {Hello}) /\ wire \in Seq(Writes)
      /\ state \in States /\ StreamInv /\ PipelineInv
      /\ handshake \in BOOLEAN /\ greeted \in BOOLEAN /\ ended \in BOOLEAN /\ idle \in BOOLEAN
      /\ Len(replies) \in Nat /\ Len(wire) \in Nat /\ Len(pipeline) \in Nat
  BY ElementFacts, PipelineTypes DEF IInv, Types, States
<1>1. ASSUME UNCHANGED <<user, queue, pipeline, enabled>> PROVE PipelineInv'
  BY <1>0, <1>1, PipelineKept DEF PipelineInv
<1>2. CASE StreamFails
  <2>1. /\ IsOpen /\ state' = FailedTo /\ handshake' = FALSE /\ wire' = <<>> /\ idle' = FALSE
        /\ replies' = <<>> /\ greeted' = FALSE /\ ended' = FALSE
        /\ UNCHANGED <<user, queue, pipeline, enabled>>
    BY <1>2 DEF StreamFails, CallEnds, localVars
  <2>2. state' \in {"Error", "Backoff"} /\ (state' = "Backoff" => enabled' /\ pipeline' # <<>>)
    BY <2>1 DEF FailedTo
  <2> QED
    BY <1>1, <2>1, <2>2, StreamClosed
<1>3. CASE BackoffElapsed
  <2>1. /\ state = "Backoff" /\ state' = "Starting"
        /\ UNCHANGED <<user, queue, enabled, pipeline, handshake, idle, wire, replies, greeted, ended>>
    BY <1>3 DEF BackoffElapsed, localVars, callVars
  <2>2. /\ enabled /\ pipeline # <<>> /\ ~handshake /\ ~idle /\ wire = <<>> /\ replies = <<>>
        /\ ~greeted /\ ~ended
    BY <1>0, <2>1 DEF StreamInv, IsOpen, IsStarted
  <2> QED
    BY <1>1, <2>1, <2>2, StreamClosed
<1>4. CASE IdleTimeout
  <2>1. /\ state' = Stopped(state) /\ handshake' = FALSE /\ wire' = <<>> /\ idle' = FALSE
        /\ replies' = <<>> /\ greeted' = FALSE /\ ended' = FALSE
        /\ UNCHANGED <<user, queue, pipeline, enabled>>
    BY <1>4 DEF IdleTimeout, StopStream, CallEnds, localVars
  <2>2. state' \in {"Initial", "Error"}
    BY <1>0, <2>1 DEF Stopped, IsStarted, States
  <2> QED
    BY <1>1, <2>1, <2>2, StreamClosed
<1>5. CASE Greet
  <2>1. /\ IsOpen /\ ~greeted /\ greeted' = TRUE /\ replies' = Append(replies, Hello)
        /\ UNCHANGED <<user, queue, pipeline, enabled, state, handshake, idle, wire, ended>>
    BY <1>5 DEF Greet, localVars, remoteVars
  <2>2. ~handshake /\ Len(replies) = 0
    BY <1>0, <2>1 DEF StreamInv
  <2>3. Len(replies') = 1
    BY <1>0, <2>1, <2>2, AppendFacts
  <2>4. StreamInv'
    BY <1>0, <2>1, <2>2, <2>3 DEF StreamInv, IsOpen, IsStarted
  <2> QED
    BY <1>1, <2>1, <2>4
<1>6. CASE Commit
  <2>1. /\ wire # <<>> /\ wire' = Tail(wire) /\ replies' = Append(replies, Head(wire))
        /\ UNCHANGED <<user, queue, pipeline, enabled, state, handshake, idle, greeted, ended>>
    BY <1>6 DEF Commit, localVars, remoteVars
  <2>2. /\ IsOpen /\ handshake /\ greeted
        /\ Len(replies) + Len(wire) = Len(pipeline)
        /\ \A i \in 1..Len(replies) : replies[i] = pipeline[i].write
        /\ \A i \in 1..Len(wire) : wire[i] = pipeline[Len(replies) + i].write
    BY <1>0, <2>1 DEF StreamInv
  <2>3. /\ Head(wire) = wire[1] /\ wire[1] \in Writes /\ Len(wire) >= 1
        /\ Len(wire') = Len(wire) - 1 /\ \A i \in 1..(Len(wire) - 1) : wire'[i] = wire[i + 1]
    BY <1>0, <2>1, TailFacts
  <2>4. PICK w \in Writes \cup {Hello} : w = wire[1]
    BY <2>3
  <2>5. /\ Len(replies') = Len(replies) + 1 /\ replies'[Len(replies) + 1] = w
        /\ \A i \in 1..Len(replies) : replies'[i] = replies[i]
    BY <1>0, <2>1, <2>3, <2>4, AppendFacts
  <2>6. Len(replies') + Len(wire') = Len(pipeline')
    BY <1>0, <2>1, <2>2, <2>3, <2>5
  <2>7. \A i \in 1..Len(replies') : replies'[i] = pipeline'[i].write
    <3>1. ASSUME NEW i \in 1..(Len(replies) + 1) PROVE replies'[i] = pipeline[i].write
      <4>1. CASE i \in 1..Len(replies)
        BY <2>2, <2>5, <4>1
      <4>2. CASE i = Len(replies) + 1
        BY <1>0, <2>2, <2>3, <2>4, <2>5, <4>2
      <4> QED
        BY <1>0, <4>1, <4>2
    <3> QED
      BY <2>1, <2>5, <3>1
  <2>8. \A i \in 1..Len(wire') : wire'[i] = pipeline'[Len(replies') + i].write
    <3>1. ASSUME NEW i \in 1..(Len(wire) - 1) PROVE wire'[i] = pipeline[Len(replies') + i].write
      <4>1. i + 1 \in 1..Len(wire) /\ Len(replies') + i = Len(replies) + (i + 1)
        BY <1>0, <2>5
      <4>2. wire[i + 1] = pipeline[Len(replies) + (i + 1)].write
        BY <2>2, <4>1
      <4> QED
        BY <2>3, <4>1, <4>2
    <3> QED
      BY <2>1, <2>3, <3>1
  <2>9. StreamInv'
    BY <1>0, <2>1, <2>2, <2>6, <2>7, <2>8 DEF StreamInv, IsOpen, IsStarted
  <2> QED
    BY <1>1, <2>1, <2>9
<1>7. CASE Refuse
  <2>1. /\ wire # <<>> /\ ended' = TRUE
        /\ UNCHANGED <<user, queue, pipeline, enabled, state, handshake, idle, greeted, wire, replies>>
    BY <1>7 DEF Refuse, localVars, remoteVars
  <2>2. StreamInv'
    BY <1>0, <2>1 DEF StreamInv, IsOpen, IsStarted
  <2> QED
    BY <1>1, <2>1, <2>2
<1> QED
  BY <1>2, <1>3, <1>4, <1>5, <1>6, <1>7, StreamOfHandshake, StreamOfResult, StreamOfRejection,
     StreamOfLaunch DEF Read, Serve

\* Every step keeps PipelineInv and StreamInv.
LEMMA StreamStep ==
  ASSUME IInv, Next
  PROVE  PipelineInv' /\ StreamInv'
BY StreamOfAppStep, StreamOfTask, StreamOfStreamStep DEF Next
-----------------------------------------------------------------------------
(* The tokens.                                                              *)

\* The state that TokenInv is about.
LEMMA TokenTypes ==
  ASSUME IInv
  PROVE  /\ closes \in Nat /\ user \in Users /\ credential \in Users /\ state \in States
         /\ \A f \in fetching : f \in Fetches /\ f.closes \in Nat /\ f.got \in Users \cup {Nobody}
         /\ TokenInv
BY DEF IInv, Types, States, Fetches

\* A stream that is not open now, and counts from closes', is waited for by
\* nobody but the request made with it.
LEMMA TokenRenewed ==
  ASSUME closes' \in Nat, NEW old, \A f \in old : f.closes \in Nat /\ f.closes < closes',
         \A i \in DOMAIN work' : work'[i].do \in {"token", "noToken"} =>
           work'[i].closes \in Nat /\ work'[i].closes < closes',
         fetching' = IF state' = "Starting" THEN old \cup {Request(closes')} ELSE old,
         state' # "Open"
  PROVE  TokenInv'
<1>1. Request(closes').closes = closes' /\ Request(closes').got = Nobody
  BY DEF Request
<1>2. \A f \in fetching' : f.closes <= closes'
  BY <1>1
<1>3. \A i \in DOMAIN work' : ~Awaited(work[i])'
  BY DEF Awaited
<1>4. \A f \in fetching' : f.closes = closes' => state' = "Starting" /\ f = Request(closes')
  BY <1>1
<1>5. (\A i \in DOMAIN work : work[i].do \in {"token", "noToken"} => work[i].closes <= closes)'
  OBVIOUS
<1>6. (\A f \in fetching : f.closes = closes =>
        /\ state = "Starting"
        /\ \A g \in fetching : g.closes = closes => g = f
        /\ \A i \in DOMAIN work : ~Awaited(work[i])
        /\ (f.got # Nobody /\ \A i \in DOMAIN work : work[i].do # "credential") => f.got = user)'
  BY <1>1, <1>3, <1>4
<1>7. (IsOpen => credential = user)'
  BY DEF IsOpen
<1> QED
  BY <1>2, <1>3, <1>5, <1>6, <1>7 DEF TokenInv

\* What waited before the stream was closed, or when it was not started, is
\* of an earlier life.
LEMMA TokensOfEarlierLife ==
  ASSUME IInv, closes' = closes + 1 \/ (closes' = closes /\ state # "Starting")
  PROVE  /\ closes' \in Nat
         /\ \A f \in fetching : f.closes \in Nat /\ f.closes < closes'
         /\ \A i \in DOMAIN work : work[i].do \in {"token", "noToken"} =>
              work[i].closes \in Nat /\ work[i].closes < closes'
<1>1. closes' \in Nat
  BY TokenTypes
<1>2. \A f \in fetching : f.closes \in Nat /\ f.closes < closes'
  BY TokenTypes DEF TokenInv
<1>3. ASSUME NEW i \in DOMAIN work, work[i].do \in {"token", "noToken"}
      PROVE  work[i].closes \in Nat /\ work[i].closes < closes'
  <2>1. work[i].closes \in Nat /\ work[i].closes <= closes
    BY <1>3, WorkTypes, TokenTypes DEF IInv, TokenInv
  <2>2. state # "Starting" => work[i].closes # closes
    BY <1>3, TokenTypes DEF TokenInv, Awaited
  <2> QED
    BY <2>1, <2>2, TokenTypes
<1> QED
  BY <1>1, <1>2, <1>3

\* A stream that is closed waits for none of the tokens asked for before.
LEMMA TokenReset ==
  ASSUME IInv, closes' = closes + 1 \/ (closes' = closes /\ state # "Starting"),
         \A i \in DOMAIN work' : \E j \in DOMAIN work : work'[i] = work[j],
         fetching' = IF state' = "Starting" THEN fetching \cup {Request(closes')} ELSE fetching,
         state' # "Open"
  PROVE  TokenInv'
<1>1. /\ closes' \in Nat
      /\ \A f \in fetching : f.closes \in Nat /\ f.closes < closes'
      /\ \A i \in DOMAIN work : work[i].do \in {"token", "noToken"} =>
           work[i].closes \in Nat /\ work[i].closes < closes'
  BY TokensOfEarlierLife
<1>2. \A i \in DOMAIN work' : work'[i].do \in {"token", "noToken"} =>
        work'[i].closes \in Nat /\ work'[i].closes < closes'
  <2>1. ASSUME NEW i \in DOMAIN work', work'[i].do \in {"token", "noToken"}
        PROVE  work'[i].closes \in Nat /\ work'[i].closes < closes'
    <3>1. PICK j \in DOMAIN work : work'[i] = work[j]
      OBVIOUS
    <3> QED
      BY <1>1, <2>1, <3>1
  <2> QED
    BY <2>1
<1>3. PICK old : old = fetching
  OBVIOUS
<1>4. /\ \A f \in old : f.closes \in Nat /\ f.closes < closes'
      /\ fetching' = IF state' = "Starting" THEN old \cup {Request(closes')} ELSE old
  BY <1>1, <1>3
<1> QED
  BY <1>1, <1>2, <1>4, TokenRenewed

\* A task other than a change of user leaves the tokens as they were.
LEMMA TokenTailed ==
  ASSUME IInv, work # <<>>, work[1].do # "credential", work' = Tail(work),
         UNCHANGED <<fetching, state, closes, credential, user>>
  PROVE  TokenInv'
<1>1. /\ Len(work) \in Nat \ {0} /\ DOMAIN work = 1..Len(work) /\ DOMAIN work' = 1..(Len(work) - 1)
      /\ \A i \in 1..(Len(work) - 1) : work'[i] = work[i + 1] /\ i + 1 \in DOMAIN work
  <2>1. /\ work' \in Seq(Task) /\ Len(work') = Len(work) - 1 /\ Len(work) \in Nat \ {0}
        /\ \A i \in 1..(Len(work) - 1) : work'[i] = work[i + 1]
    BY HeadOfWork DEF IInv
  <2>2. DOMAIN work = 1..Len(work)
    BY WorkTypes DEF IInv
  <2> QED
    BY <2>1, <2>2, ElementFacts
<1>2. TokenInv
  BY DEF IInv
<1>3. \A i \in DOMAIN work' : i \in 1..(Len(work) - 1) /\ (Awaited(work[i])' <=> Awaited(work[i + 1]))
  BY <1>1 DEF Awaited
<1>4. (\A i \in DOMAIN work' : work'[i].do # "credential") => \A i \in DOMAIN work : work[i].do # "credential"
  <2>1. ASSUME \A i \in DOMAIN work' : work'[i].do # "credential", NEW i \in DOMAIN work
        PROVE  work[i].do # "credential"
    <3>1. CASE i = 1
      BY <3>1
    <3>2. CASE i # 1
      <4>1. i - 1 \in 1..(Len(work) - 1) /\ (i - 1) + 1 = i
        BY <1>1, <3>2
      <4> QED
        BY <1>1, <2>1, <4>1
    <3> QED
      BY <3>1, <3>2
  <2> QED
    BY <2>1
<1>5. (\A f \in fetching : f.closes <= closes)'
  BY <1>2 DEF TokenInv
<1>6. (\A i \in DOMAIN work : work[i].do \in {"token", "noToken"} => work[i].closes <= closes)'
  BY <1>1, <1>2 DEF TokenInv
<1>7. (\A f \in fetching : f.closes = closes =>
        /\ state = "Starting"
        /\ \A g \in fetching : g.closes = closes => g = f
        /\ \A i \in DOMAIN work : ~Awaited(work[i])
        /\ (f.got # Nobody /\ \A i \in DOMAIN work : work[i].do # "credential") => f.got = user)'
  BY <1>1, <1>2, <1>3, <1>4 DEF TokenInv
<1>8. ASSUME NEW i \in DOMAIN work', Awaited(work[i])'
      PROVE  /\ state' = "Starting"
             /\ \A j \in DOMAIN work' : Awaited(work[j])' => j = i
             /\ (work'[i].do = "token" /\ \A j \in 1..(i - 1) : work'[j].do # "credential")
                  => work'[i].of = user'
  <2>1. i + 1 \in DOMAIN work /\ Awaited(work[i + 1]) /\ work'[i] = work[i + 1] /\ i \in 1..(Len(work) - 1)
    BY <1>1, <1>3, <1>8
  <2>2. /\ state = "Starting" /\ \A j \in DOMAIN work : Awaited(work[j]) => j = i + 1
        /\ (work[i + 1].do = "token" /\ \A j \in 1..((i + 1) - 1) : work[j].do # "credential")
             => work[i + 1].of = user
    BY <1>2, <2>1 DEF TokenInv
  <2>3. ASSUME NEW j \in DOMAIN work', Awaited(work[j])' PROVE j = i
    <3>1. j + 1 \in DOMAIN work /\ Awaited(work[j + 1]) /\ j \in 1..(Len(work) - 1)
      BY <1>1, <1>3, <2>3
    <3>2. j + 1 = i + 1
      BY <2>2, <3>1
    <3> QED
      BY <1>1, <2>1, <3>1, <3>2
  <2>4. ASSUME \A j \in 1..(i - 1) : work'[j].do # "credential", NEW j \in 1..((i + 1) - 1)
        PROVE  work[j].do # "credential"
    <3>1. CASE j = 1
      BY <3>1
    <3>2. CASE j # 1
      <4>1. j - 1 \in 1..(i - 1) /\ j - 1 \in 1..(Len(work) - 1) /\ (j - 1) + 1 = j
        BY <1>1, <2>1, <3>2
      <4> QED
        BY <1>1, <2>4, <4>1
    <3> QED
      BY <3>1, <3>2
  <2> QED
    BY <2>1, <2>2, <2>3, <2>4
<1>9. (IsOpen => credential = user)'
  BY <1>2 DEF TokenInv, IsOpen
<1> QED
  BY <1>5, <1>6, <1>7, <1>8, <1>9 DEF TokenInv

\* So do steps that leave stream and worker queue alone.
LEMMA TokenKept ==
  ASSUME IInv, UNCHANGED <<work, fetching, state, closes, credential, user>>
  PROVE  TokenInv'
BY DEF IInv, TokenInv, Awaited, IsOpen

\* A task joins the worker queue; one that tells of a token takes the place
\* of the request.
LEMMA TokenAppended ==
  ASSUME IInv, NEW t \in Task, work' = Append(work, t), fetching' \subseteq fetching,
         UNCHANGED <<state, closes, credential, user>>,
         t.do \in {"token", "noToken"} => \E f \in fetching :
           /\ f.closes = t.closes /\ f \notin fetching'
           /\ t.do = "token" => f.got = t.of /\ f.got # Nobody
  PROVE  TokenInv'
<1>1. /\ Len(work) \in Nat /\ DOMAIN work = 1..Len(work) /\ DOMAIN work' = 1..(Len(work) + 1)
      /\ \A i \in 1..Len(work) : work'[i] = work[i]
      /\ work'[Len(work) + 1] = t
  <2>1. work \in Seq(Task)
    BY DEF IInv, Types
  <2>2. /\ Append(work, t) \in Seq(Task) /\ Len(Append(work, t)) = Len(work) + 1
        /\ \A i \in 1..Len(work) : Append(work, t)[i] = work[i]
        /\ Append(work, t)[Len(work) + 1] = t
    BY <2>1, AppendFacts
  <2> QED
    BY <2>1, <2>2, ElementFacts
<1>2. TokenInv
  BY DEF IInv
<1>3. \A i \in 1..Len(work) : Awaited(work[i])' <=> Awaited(work[i])
  BY <1>1 DEF Awaited
<1>a. PICK n : n = Len(work) + 1
  OBVIOUS
<1>4. Awaited(work[n])' <=> Awaited(t)
  BY <1>1, <1>a DEF Awaited
<1>5. (\A f \in fetching : f.closes <= closes)'
  BY <1>2 DEF TokenInv
<1>6. (\A i \in DOMAIN work : work[i].do \in {"token", "noToken"} => work[i].closes <= closes)'
  <2>1. t.do \in {"token", "noToken"} => t.closes <= closes
    BY <1>2 DEF TokenInv
  <2>2. ASSUME NEW i \in 1..(Len(work) + 1), work'[i].do \in {"token", "noToken"}
        PROVE  work'[i].closes <= closes
    <3>1. CASE i = Len(work) + 1
      BY <1>1, <2>1, <2>2, <3>1
    <3>2. CASE i # Len(work) + 1
      <4>1. i \in 1..Len(work)
        BY <1>1, <3>2
      <4> QED
        BY <1>1, <1>2, <2>2, <4>1 DEF TokenInv
    <3> QED
      BY <3>1, <3>2
  <2> QED
    BY <1>1, <2>2
<1>7. (\A f \in fetching : f.closes = closes =>
        /\ state = "Starting"
        /\ \A g \in fetching : g.closes = closes => g = f
        /\ \A i \in DOMAIN work : ~Awaited(work[i])
        /\ (f.got # Nobody /\ \A i \in DOMAIN work : work[i].do # "credential") => f.got = user)'
  <2>1. SUFFICES ASSUME NEW f \in fetching', f.closes = closes
                 PROVE  /\ state = "Starting"
                        /\ \A g \in fetching : g.closes = closes => g = f
                        /\ \A i \in DOMAIN work' : ~Awaited(work[i])'
                        /\ (f.got # Nobody /\ \A i \in DOMAIN work' : work'[i].do # "credential")
                             => f.got = user
    OBVIOUS
  <2>2. /\ state = "Starting"
        /\ \A g \in fetching : g.closes = closes => g = f
        /\ \A i \in DOMAIN work : ~Awaited(work[i])
        /\ (f.got # Nobody /\ \A i \in DOMAIN work : work[i].do # "credential") => f.got = user
    BY <1>2, <2>1 DEF TokenInv
  <2>3. ~Awaited(t)
    BY <2>1, <2>2 DEF Awaited
  <2>4. \A i \in DOMAIN work' : ~Awaited(work[i])'
    <3>1. ASSUME NEW i \in 1..(Len(work) + 1) PROVE ~Awaited(work[i])'
      <4>1. CASE i = Len(work) + 1
        BY <1>a, <1>4, <2>3, <4>1
      <4>2. CASE i # Len(work) + 1
        <5>1. i \in 1..Len(work)
          BY <1>1, <4>2
        <5> QED
          BY <1>1, <1>3, <2>2, <5>1
      <4> QED
        BY <4>1, <4>2
    <3> QED
      BY <1>1, <3>1
  <2>5. (\A i \in DOMAIN work' : work'[i].do # "credential") => \A i \in DOMAIN work : work[i].do # "credential"
    BY <1>1
  <2> QED
    BY <2>2, <2>4, <2>5
<1>8. ASSUME NEW i \in DOMAIN work', Awaited(work[i])'
      PROVE  /\ state' = "Starting"
             /\ \A j \in DOMAIN work' : Awaited(work[j])' => j = i
             /\ (work'[i].do = "token" /\ \A j \in 1..(i - 1) : work'[j].do # "credential")
                  => work'[i].of = user'
  <2>0. i \in 1..(Len(work) + 1)
    BY <1>1
  <2>1. CASE Awaited(t)
    <3>1. PICK f \in fetching : f.closes = closes /\ (t.do = "token" => f.got = t.of /\ f.got # Nobody)
      BY <2>1 DEF Awaited
    <3>2. /\ state = "Starting" /\ \A j \in DOMAIN work : ~Awaited(work[j])
          /\ (f.got # Nobody /\ \A j \in DOMAIN work : work[j].do # "credential") => f.got = user
      BY <1>2, <3>1 DEF TokenInv
    <3>3. ASSUME NEW j \in 1..(Len(work) + 1), Awaited(work[j])' PROVE j = Len(work) + 1
      <4>1. j \notin 1..Len(work)
        BY <1>1, <1>3, <3>2, <3>3
      <4> QED
        BY <1>1, <4>1
    <3>4. i = Len(work) + 1
      BY <1>8, <2>0, <3>3
    <3>5. (work'[i].do = "token" /\ \A j \in 1..(i - 1) : work'[j].do # "credential")
            => work'[i].of = user
      <4>1. 1..(i - 1) = 1..Len(work)
        BY <1>1, <3>4
      <4> QED
        BY <1>1, <3>1, <3>2, <3>4, <4>1
    <3> QED
      BY <1>1, <3>2, <3>3, <3>4, <3>5
  <2>2. CASE ~Awaited(t)
    <3>1. ASSUME NEW j \in 1..(Len(work) + 1), Awaited(work[j])' PROVE j \in 1..Len(work) /\ Awaited(work[j])
      <4>1. j # Len(work) + 1
        BY <1>a, <1>4, <2>2, <3>1
      <4>2. j \in 1..Len(work)
        BY <1>1, <4>1
      <4> QED
        BY <1>3, <3>1, <4>2
    <3>2. i \in 1..Len(work) /\ Awaited(work[i])
      BY <1>8, <2>0, <3>1
    <3>3. /\ state = "Starting" /\ \A j \in DOMAIN work : Awaited(work[j]) => j = i
          /\ (work[i].do = "token" /\ \A j \in 1..(i - 1) : work[j].do # "credential")
               => work[i].of = user
      BY <1>1, <1>2, <3>2 DEF TokenInv
    <3>4. \A j \in 1..(i - 1) : j \in 1..Len(work)
      BY <1>1, <3>2
    <3> QED
      BY <1>1, <3>1, <3>2, <3>3, <3>4
  <2> QED
    BY <2>1, <2>2
<1>9. (IsOpen => credential = user)'
  BY <1>2 DEF TokenInv, IsOpen
<1> QED
  BY <1>5, <1>6, <1>7, <1>8, <1>9 DEF TokenInv

\* A token is of the user signed in, whom the queues belong to once the tasks have run.
LEMMA TokenGot ==
  ASSUME IInv, NEW f \in fetching, AuthToken(f)
  PROVE  TokenInv'
<1>1. /\ f.got = Nobody /\ fetching' = (fetching \ {f}) \cup {[f EXCEPT !.got = authUser]}
      /\ UNCHANGED <<work, state, closes, credential, user>>
  BY DEF AuthToken, localVars, remoteVars, callVars
<1>2. f \in Fetches /\ TokenInv
  BY TokenTypes
<1>3. PICK g : g = [f EXCEPT !.got = authUser]
  OBVIOUS
<1>4. g.closes = f.closes /\ g.got = authUser
  BY <1>2, <1>3 DEF Fetches
<1>5. fetching' = (fetching \ {f}) \cup {g}
  BY <1>1, <1>3
<1>6. (\A i \in DOMAIN work : work[i].do # "credential") => authUser = user
  <2>1. SignedInAt(Len(work) + 1, authUser)
    BY DEF IInv, WorkInv
  <2>2. ASSUME \A i \in DOMAIN work : work[i].do # "credential" PROVE authUser = user
    <3>1. Len(work) \in Nat /\ DOMAIN work = 1..Len(work)
      BY WorkTypes DEF IInv
    <3>2. 1..((Len(work) + 1) - 1) = DOMAIN work
      BY <3>1
    <3> QED
      BY <2>1, <2>2, <3>2 DEF SignedInAt
  <2> QED
    BY <2>2
<1>7. (\A h \in fetching : h.closes <= closes)'
  BY <1>1, <1>2, <1>4, <1>5 DEF TokenInv
<1>8. \A i \in DOMAIN work : Awaited(work[i])' <=> Awaited(work[i])
  BY <1>1 DEF Awaited
<1>9. (\A h \in fetching : h.closes = closes =>
        /\ state = "Starting"
        /\ \A k \in fetching : k.closes = closes => k = h
        /\ \A i \in DOMAIN work : ~Awaited(work[i])
        /\ (h.got # Nobody /\ \A i \in DOMAIN work : work[i].do # "credential") => h.got = user)'
  <2>1. SUFFICES ASSUME NEW h \in fetching', h.closes = closes
                 PROVE  /\ state = "Starting"
                        /\ \A k \in fetching' : k.closes = closes => k = h
                        /\ \A i \in DOMAIN work : ~Awaited(work[i])
                        /\ (h.got # Nobody /\ \A i \in DOMAIN work : work[i].do # "credential")
                             => h.got = user
    BY <1>1, <1>8
  <2>2. CASE h = g
    BY <1>2, <1>4, <1>5, <1>6, <2>1, <2>2 DEF TokenInv
  <2>3. CASE h # g
    BY <1>2, <1>4, <1>5, <2>1, <2>3 DEF TokenInv
  <2> QED
    BY <2>2, <2>3
<1>10. (\A i \in DOMAIN work : Awaited(work[i]) =>
         /\ state = "Starting"
         /\ \A j \in DOMAIN work : Awaited(work[j]) => j = i
         /\ (work[i].do = "token" /\ \A j \in 1..(i - 1) : work[j].do # "credential")
              => work[i].of = user)'
  BY <1>1, <1>2, <1>8 DEF TokenInv
<1>11. /\ (\A i \in DOMAIN work : work[i].do \in {"token", "noToken"} => work[i].closes <= closes)'
       /\ (IsOpen => credential = user)'
  BY <1>1, <1>2 DEF TokenInv, IsOpen
<1> QED
  BY <1>7, <1>9, <1>10, <1>11 DEF TokenInv

\* The stream is started, asking for a token, only when it is not.
LEMMA FillStarts ==
  ASSUME NEW q, NEW p, NEW s, NEW h, NEW sent, NEW marked, NEW asked,
         FillWritePipeline(q, p, s, h, sent, marked, asked)
  PROVE  /\ s = "Initial" =>
              /\ state' # "Open"
              /\ fetching' = IF state' = "Starting" THEN asked \cup {Request(closes')} ELSE asked
         /\ s = "Error" => state' \in {"Error", "Backoff"} /\ fetching' = asked
         /\ s \notin {"Initial", "Error"} => state' = s /\ fetching' = asked
<1>1. PICK new : new = IF enabled' THEN NextBatches(q, p) ELSE <<>>
  OBVIOUS
<1>2. PICK needed \in BOOLEAN : needed <=> enabled' /\ s \in {"Initial", "Error"} /\ p \o new # <<>>
  OBVIOUS
<1>3. /\ state' = CASE needed /\ s = "Error"   -> "Backoff"
                    [] needed /\ s = "Initial" -> "Starting"
                    [] OTHER -> s
      /\ fetching' = IF needed /\ s = "Initial" THEN asked \cup {Request(closes')} ELSE asked
  BY <1>1, <1>2 DEF FillWritePipeline
<1> QED
  BY <1>2, <1>3

\* Opening the streams anew keeps TokenInv.
LEMMA TokenRestarted ==
  ASSUME IInv, NEW q, RestartNetwork(q), enabled' = enabled,
         \A i \in DOMAIN work' : \E j \in DOMAIN work : work'[i] = work[j]
  PROVE  TokenInv'
<1>1. CASE enabled
  <2>1. /\ closes' = IF IsStarted THEN closes + 1 ELSE closes
        /\ FillWritePipeline(queue[q], <<>>, "Initial", FALSE, <<>>, FALSE, fetching)
    BY <1>1 DEF RestartNetwork, StopStream, Counted
  <2>2. closes' = closes + 1 \/ (closes' = closes /\ state # "Starting")
    BY <2>1 DEF IsStarted
  <2>3. PICK s : s = "Initial"
    OBVIOUS
  <2>4. FillWritePipeline(queue[q], <<>>, s, FALSE, <<>>, FALSE, fetching)
    BY <2>1, <2>3
  <2>5. /\ state' # "Open"
        /\ fetching' = IF state' = "Starting" THEN fetching \cup {Request(closes')} ELSE fetching
    BY <2>3, <2>4, FillStarts
  <2> QED
    BY <2>2, <2>5, TokenReset
<1>2. CASE ~enabled
  <2>1. state' = state /\ closes' = closes /\ fetching' = fetching
    BY <1>2 DEF RestartNetwork
  <2>2. state # "Starting" /\ state # "Open"
    BY <1>2 DEF IInv, StreamInv, IsStarted
  <2> QED
    BY <2>1, <2>2, TokenReset
<1> QED
  BY <1>1, <1>2

\* Steps of the app and of the token providers keep TokenInv.
LEMMA TokenOfAppStep ==
  ASSUME IInv,
         \/ SetData \/ EnableNetwork \/ DisableNetwork \/ ConnectivityChanges
         \/ (\E u \in Users : AuthStateDidChange(u))
         \/ (\E f \in fetching : Fetched(f))
  PROVE  TokenInv'
<1>1. UNCHANGED <<state, closes, credential, user>>
  BY DEF SetData, EnableNetwork, DisableNetwork, ConnectivityChanges, AuthStateDidChange, Fetched,
         AuthToken, CredentialsReady, CredentialsFail, localVars, remoteVars, callVars
<1>2. ASSUME NEW t \in Task, t.do \notin {"token", "noToken"}, work' = Append(work, t),
             UNCHANGED fetching
      PROVE  TokenInv'
  BY <1>1, <1>2, TokenAppended
<1>3. CASE SetData
  <2>1. written' \in Writes /\ work' = Append(work, [do |-> "write", of |-> written']) /\ fetching' = fetching
    BY <1>3 DEF IInv, Types, SetData, Enqueue, Writes
  <2>2. PICK t \in Task : t = [do |-> "write", of |-> written']
    BY <2>1, TaskFacts
  <2> QED
    BY <1>2, <2>1, <2>2
<1>4. CASE EnableNetwork \/ DisableNetwork \/ ConnectivityChanges
  <2>1. /\ \E t \in Task : t.do \notin {"token", "noToken"} /\ work' = Append(work, t)
        /\ UNCHANGED fetching
    BY <1>4, TaskFacts DEF EnableNetwork, DisableNetwork, ConnectivityChanges, Enqueue
  <2> QED
    BY <1>2, <2>1
<1>5. ASSUME NEW u \in Users, AuthStateDidChange(u) PROVE TokenInv'
  <2>1. /\ \E t \in Task : t.do \notin {"token", "noToken"} /\ work' = Append(work, t)
        /\ UNCHANGED fetching
    BY <1>5, TaskFacts DEF AuthStateDidChange, Enqueue
  <2> QED
    BY <1>2, <2>1
<1>6. ASSUME NEW f \in fetching, Fetched(f) PROVE TokenInv'
  <2>1. f.closes \in Nat /\ f.got \in Users \cup {Nobody}
    BY TokenTypes
  <2>2. CASE AuthToken(f)
    BY <2>2, TokenGot
  <2>3. CASE CredentialsReady(f)
    <3>1. /\ f.got # Nobody /\ fetching' = fetching \ {f}
          /\ work' = Append(work, [do |-> "token", of |-> f.got, closes |-> f.closes])
      BY <2>3 DEF CredentialsReady, Enqueue
    <3>2. PICK t \in Task : t = [do |-> "token", of |-> f.got, closes |-> f.closes]
      BY <2>1, <3>1, TaskFacts
    <3> QED
      BY <1>1, <3>1, <3>2, TokenAppended
  <2>4. CASE CredentialsFail(f)
    <3>1. fetching' = fetching \ {f} /\ work' = Append(work, [do |-> "noToken", closes |-> f.closes])
      BY <2>4 DEF CredentialsFail, Enqueue
    <3>2. PICK t \in Task : t = [do |-> "noToken", closes |-> f.closes]
      BY <2>1, TaskFacts
    <3> QED
      BY <1>1, <3>1, <3>2, TokenAppended
  <2> QED
    BY <1>6, <2>2, <2>3, <2>4 DEF Fetched
<1> QED
  BY <1>3, <1>4, <1>5, <1>6

\* Tasks keep TokenInv.
LEMMA TokenOfTask ==
  ASSUME IInv, RunTask
  PROVE  TokenInv'
<1>0. /\ user \in Users /\ state \in States /\ work \in Seq(Task) /\ work # <<>>
      /\ work' = Tail(work) /\ closes \in Nat /\ TokenInv
  BY TaskFrame DEF IInv, Types, States, RunTask
<1>1. \A i \in DOMAIN work' : i \in Nat \ {0} /\ i + 1 \in DOMAIN work /\ work'[i] = work[i + 1]
  BY <1>0, HeadOfWork, WorkTypes, ElementFacts DEF IInv
<1>2. \A i \in DOMAIN work' : \E j \in DOMAIN work : work'[i] = work[j]
  BY <1>1
<1>3. ASSUME NEW q, FillWritePipeline(q, pipeline, state, handshake, wire, idle, fetching),
             work[1].do # "credential", UNCHANGED <<closes, credential, user>>
      PROVE  TokenInv'
  <2>1. CASE state \in {"Initial", "Error"}
    <3>1. /\ state' # "Open"
          /\ fetching' = IF state' = "Starting" THEN fetching \cup {Request(closes')} ELSE fetching
      BY <1>3, <2>1, FillStarts
    <3> QED
      BY <1>2, <1>3, <2>1, <3>1, TokenReset
  <2>2. CASE state \notin {"Initial", "Error"}
    <3>1. state' = state /\ fetching' = fetching
      BY <1>3, <2>2, FillStarts
    <3> QED
      BY <1>0, <1>3, <3>1, TokenTailed
  <2> QED
    BY <2>1, <2>2
<1>4. ASSUME work[1].do = "write", WriteMutations(work[1].of) PROVE TokenInv'
  <2>1. /\ FillWritePipeline(queue'[user], pipeline, state, handshake, wire, idle, fetching)
        /\ UNCHANGED <<closes, credential, user>>
    BY <1>4, Zenon DEF WriteMutations
  <2> QED
    BY <1>3, <1>4, <2>1
<1>5. ASSUME work[1].do = "enable", RunEnable PROVE TokenInv'
  <2>1. /\ FillWritePipeline(queue[user], pipeline, state, handshake, wire, idle, fetching)
        /\ UNCHANGED <<closes, credential, user>>
    BY <1>5 DEF RunEnable, localVars
  <2> QED
    BY <1>3, <1>5, <2>1
<1>6. ASSUME RunDisable PROVE TokenInv'
  <2>1. /\ closes' = IF IsStarted THEN closes + 1 ELSE closes
        /\ state' = Stopped(state) /\ fetching' = fetching
    BY <1>6 DEF RunDisable, StopStream, Counted
  <2>2. closes' = closes + 1 \/ (closes' = closes /\ state # "Starting")
    BY <2>1 DEF IsStarted
  <2>3. state' \in {"Initial", "Error"}
    BY <1>0, <2>1 DEF Stopped, IsStarted, States
  <2> QED
    BY <1>2, <2>1, <2>2, <2>3, TokenReset
<1>7. ASSUME Reconnect PROVE TokenInv'
  BY <1>2, <1>7, TokenRestarted DEF Reconnect
<1>8. ASSUME HandleCredentialChange(work[1].of) PROVE TokenInv'
  BY <1>2, <1>8, TokenRestarted DEF HandleCredentialChange
<1>9. ASSUME work[1].do \in {"token", "noToken"}, SameLife(work[1])
      PROVE  /\ \A f \in fetching : f.closes # closes
             /\ \A i \in DOMAIN work' : ~Awaited(work'[i])
             /\ work[1].do = "token" => work[1].of = user
  <2>1. 1 \in DOMAIN work /\ Awaited(work[1])
    BY <1>0, <1>9, HeadOfWork DEF Awaited, SameLife, IInv
  <2>2. \A i \in DOMAIN work : Awaited(work[i]) => i = 1
    BY <1>0, <2>1 DEF TokenInv
  <2>3. \A f \in fetching : f.closes # closes
    BY <1>0, <2>1 DEF TokenInv
  <2>4. work[1].do = "token" => work[1].of = user
    BY <1>0, <2>1 DEF TokenInv
  <2>5. ASSUME NEW i \in DOMAIN work' PROVE ~Awaited(work'[i])
    <3>1. PICK t : t = work'[i]
      OBVIOUS
    <3>2. i + 1 # 1 /\ i + 1 \in DOMAIN work /\ t = work[i + 1]
      BY <1>1, <3>1
    <3>3. ~Awaited(t)
      BY <2>2, <3>2
    <3> QED
      BY <3>1, <3>3 DEF Awaited
  <2> QED
    BY <2>3, <2>4, <2>5
<1>10. ASSUME work[1].do = "token", SameLife(work[1]), ResumeStart(work[1].of) PROVE TokenInv'
  <2>1. credential' = work[1].of /\ UNCHANGED <<user, closes, fetching>>
    BY <1>10 DEF ResumeStart, localVars
  <2>2. /\ \A f \in fetching' : f.closes # closes'
        /\ \A i \in DOMAIN work' : ~Awaited(work[i])'
        /\ credential' = user'
    BY <1>9, <1>10, <2>1 DEF Awaited
  <2>3. (\A i \in DOMAIN work : work[i].do \in {"token", "noToken"} => work[i].closes <= closes)'
    BY <1>0, <1>1, <2>1 DEF TokenInv
  <2> QED
    BY <1>0, <2>1, <2>2, <2>3 DEF TokenInv
<1>11. ASSUME StartFails PROVE TokenInv'
  <2>1. closes' = closes + 1 /\ state' \in {"Error", "Backoff"} /\ fetching' = fetching
    BY <1>11 DEF StartFails, Counted, FailedTo
  <2> QED
    BY <1>2, <2>1, TokenReset
<1>12. ASSUME work[1].do \in {"token", "noToken"}, Skips PROVE TokenInv'
  BY <1>0, <1>12, TokenTailed DEF Skips, localVars, remoteVars, callVars
<1> QED
  BY <1>4, <1>5, <1>6, <1>7, <1>8, <1>10, <1>11, <1>12, TaskCases DEF Runs, IInv

\* Steps of the stream, the server and the process keep TokenInv.
LEMMA TokenOfStreamStep ==
  ASSUME IInv,
         \/ Read \/ StreamFails \/ BackoffElapsed \/ IdleTimeout \/ Serve \/ Launch
  PROVE  TokenInv'
<1>0. closes \in Nat /\ state \in States /\ TokenInv
  BY TokenTypes
<1>1. CASE HandshakeComplete
  BY <1>1, TokenKept DEF HandshakeComplete, localVars
<1>2. CASE MutationResult
  <2>1. /\ IsOpen
        /\ FillWritePipeline(queue'[user], Tail(pipeline), state, handshake, wire, idle, fetching)
        /\ UNCHANGED <<work, closes, credential, user>>
    BY <1>2 DEF MutationResult, Acknowledged
  <2>2. state' = state /\ fetching' = fetching
    BY <2>1, FillStarts DEF IsOpen
  <2> QED
    BY <2>1, <2>2, TokenKept
<1>3. CASE WriteRejected
  <2>1. /\ closes' = closes + 1
        /\ FillWritePipeline(queue'[user], Tail(pipeline), "Initial", FALSE, <<>>, FALSE, fetching)
        /\ UNCHANGED work
    BY <1>3 DEF WriteRejected, Counted
  <2>2. PICK s : s = "Initial"
    OBVIOUS
  <2>3. FillWritePipeline(queue'[user], Tail(pipeline), s, FALSE, <<>>, FALSE, fetching)
    BY <2>1, <2>2
  <2>4. /\ state' # "Open"
        /\ fetching' = IF state' = "Starting" THEN fetching \cup {Request(closes')} ELSE fetching
    BY <2>2, <2>3, FillStarts
  <2> QED
    BY <2>1, <2>4, TokenReset
<1>4. CASE StreamFails
  <2>1. closes' = closes + 1 /\ state' \in {"Error", "Backoff"} /\ UNCHANGED <<work, fetching>>
    BY <1>4 DEF StreamFails, Counted, FailedTo
  <2> QED
    BY <2>1, TokenReset
<1>5. CASE BackoffElapsed
  <2>1. /\ state = "Backoff" /\ state' = "Starting" /\ fetching' = fetching \cup {Request(closes)}
        /\ UNCHANGED <<work, closes>>
    BY <1>5 DEF BackoffElapsed
  <2>2. fetching' = fetching \cup {Request(closes')}
    BY <2>1
  <2> QED
    BY <2>1, <2>2, TokenReset
<1>6. CASE IdleTimeout
  <2>1. /\ closes' = IF IsStarted THEN closes + 1 ELSE closes
        /\ state' = Stopped(state) /\ UNCHANGED <<work, fetching>>
    BY <1>6 DEF IdleTimeout, StopStream, Counted
  <2>2. closes' = closes + 1 \/ (closes' = closes /\ state # "Starting")
    BY <2>1 DEF IsStarted
  <2>3. state' \in {"Initial", "Error"}
    BY <1>0, <2>1 DEF Stopped, IsStarted, States
  <2> QED
    BY <2>1, <2>2, <2>3, TokenReset
<1>7. CASE Serve
  <2>1. UNCHANGED <<work, fetching, state, closes, credential, user>>
    BY <1>7 DEF Serve, Greet, Commit, Refuse, localVars, remoteVars
  <2> QED
    BY <2>1, TokenKept
<1>8. CASE Launch
  <2>1. /\ work' = <<>> /\ closes' = 0
        /\ FillWritePipeline(queue[authUser], <<>>, "Initial", FALSE, <<>>, FALSE, {})
    BY <1>8, Zenon DEF Launch
  <2>2. PICK s, old : s = "Initial" /\ old = {}
    OBVIOUS
  <2>3. FillWritePipeline(queue[authUser], <<>>, s, FALSE, <<>>, FALSE, old)
    BY <2>1, <2>2
  <2>4. /\ state' # "Open"
        /\ fetching' = IF state' = "Starting" THEN old \cup {Request(closes')} ELSE old
    BY <2>2, <2>3, FillStarts
  <2>5. closes' \in Nat /\ DOMAIN work' = {}
    BY <2>1
  <2> QED
    BY <2>2, <2>4, <2>5, TokenRenewed
<1> QED
  BY <1>1, <1>2, <1>3, <1>4, <1>5, <1>6, <1>7, <1>8 DEF Read

\* Every step keeps TokenInv.
LEMMA TokenStep ==
  ASSUME IInv, Next
  PROVE  TokenInv'
BY TokenOfAppStep, TokenOfTask, TokenOfStreamStep DEF Next
-----------------------------------------------------------------------------
(* The server.                                                              *)

\* What was committed is a write that had left the worker queue.
LEMMA CommittedFacts ==
  ASSUME IInv, NEW w \in committed
  PROVE  w \in Writes /\ w \in Nat /\ Past(w) /\ by[w] \in Users
<1>1. committed \subseteq Writes /\ by \in [Writes -> Users]
  BY DEF IInv, Types
<1>2. Past(w)
  BY DEF IInv, QueueInv
<1>3. w \in Nat
  BY <1>1 DEF Writes
<1> QED
  BY <1>1, <1>2, <1>3

\* The write committed last, or none.
LEMMA LastTypes ==
  ASSUME IInv, NEW u \in Users
  PROVE  last[u] \in Nat /\ last \in [Users -> Writes \cup {Hello}]
BY DEF IInv, Types, Writes, Hello

\* Steps that leave the queues and the server alone keep LastStands.
LEMMA StandsKept ==
  ASSUME IInv, UNCHANGED <<committed, last, queue>>, refused \subseteq refused',
         \A w \in Writes : Past(w) => by'[w] = by[w]
  PROVE  LastStands'
<1>1. \A w \in committed : by'[w] = by[w]
  BY CommittedFacts
<1> QED
  BY <1>1 DEF IInv, ServerInv, LastStands

\* The server commits writes of the queue, w after the others.
LEMMA StandsCommitted ==
  ASSUME IInv, UNCHANGED <<queue, by, refused>>, NEW new \in SUBSET Writes, NEW w \in new,
         committed' = committed \cup new, last' = [last EXCEPT ![user] = w],
         \A v \in new : by[v] = user /\ \E i \in DOMAIN queue[user] : queue[user][i].write = v
  PROVE  LastStands'
<1>1. user \in Users /\ LastStands
  BY DEF IInv, Types, ServerInv
<1>2. SUFFICES ASSUME NEW u \in Users, NEW v \in committed', by[v] = u,
                      v > last'[u] \/ \E i \in DOMAIN queue[u] : v > queue[u][i].write
               PROVE  v \in refused \/ \E i \in DOMAIN queue[u] : queue[u][i].write = v
  BY DEF LastStands
<1>3. CASE v \in new
  BY <1>2, <1>3
<1>4. CASE v \in committed /\ u # user
  <2>1. last'[u] = last[u]
    BY <1>4, LastTypes
  <2> QED
    BY <1>1, <1>2, <1>4, <2>1 DEF LastStands
<1>5. CASE v \in committed /\ u = user
  <2>1. last'[u] = w
    BY <1>5, LastTypes
  <2>2. \E i \in DOMAIN queue[u] : v > queue[u][i].write
    BY <1>2, <1>5, <2>1
  <2> QED
    BY <1>1, <1>2, <1>5, <2>2 DEF LastStands
<1> QED
  BY <1>3, <1>4, <1>5

\* What the server handled of a call that ends is in the queue.
LEMMA StandsWhenCallEnds ==
  ASSUME IInv, CallEnds, UNCHANGED <<queue, by>>
  PROVE  LastStands'
<1>0. Len(wire) \in Nat /\ user \in Users /\ refused' = refused
  BY ElementFacts DEF IInv, Types, CallEnds
<1>1. PICK n \in 0..Len(wire) :
        /\ committed' = committed \cup {wire[i] : i \in 1..n}
        /\ last' = IF n = 0 THEN last ELSE [last EXCEPT ![by[wire[n]]] = wire[n]]
  BY <1>0 DEF CallEnds
<1>2. CASE n = 0
  <2>1. committed' = committed /\ last' = last
    BY <1>1, <1>2
  <2> QED
    BY <1>0, <2>1, StandsKept
<1>3. CASE n # 0
  <2>1. \A i \in 1..n : i \in 1..Len(wire)
    BY <1>0
  <2>2. \A i \in 1..n :
          /\ wire[i] \in Writes /\ by[wire[i]] = user
          /\ \E k \in DOMAIN queue[user] : queue[user][k].write = wire[i]
    BY <2>1, WireFacts
  <2>3. PICK new \in SUBSET Writes : new = {wire[i] : i \in 1..n}
    BY <2>2
  <2>4. n \in 1..n
    BY <1>0, <1>3
  <2>5. wire[n] \in new /\ by[wire[n]] = user
    BY <2>2, <2>3, <2>4
  <2>6. PICK w \in new : w = wire[n]
    BY <2>5
  <2>7. last' = [last EXCEPT ![user] = w] /\ committed' = committed \cup new
    BY <1>1, <1>3, <2>3, <2>5, <2>6
  <2>8. \A v \in new : by[v] = user /\ \E i \in DOMAIN queue[user] : queue[user][i].write = v
    BY <2>2, <2>3
  <2> QED
    BY <1>0, <2>7, <2>8, StandsCommitted
<1> QED
  BY <1>2, <1>3

\* The front of the queue is removed; it was refused, or committed last but
\* for writes that are in the queue.
LEMMA StandsSettled ==
  ASSUME IInv, pipeline # <<>>, RemoveBatch(Head(pipeline)),
         UNCHANGED <<committed, last, refused, by>>,
         pipeline[1].write \in refused \/ pipeline[1].write <= last[user]
  PROVE  LastStands'
<1>1. user \in Users /\ LastStands /\ Ordered(queue[user])
  BY DEF IInv, Types, ServerInv, QueueInv
<1>2. /\ queue[user] # <<>> /\ pipeline[1] = queue[user][1]
      /\ queue'[user] \in Seq(Batch) /\ Len(queue'[user]) = Len(queue[user]) - 1
      /\ \A i \in 1..(Len(queue[user]) - 1) : queue'[user][i] = queue[user][i + 1]
      /\ \A u \in Users \ {user} : queue'[u] = queue[u]
  BY RemoveFacts
<1>3. /\ Len(queue[user]) \in Nat /\ DOMAIN queue[user] = 1..Len(queue[user])
      /\ DOMAIN queue'[user] = 1..(Len(queue[user]) - 1)
      /\ \A i \in 1..Len(queue[user]) : queue[user][i].write \in Nat
  <2>1. /\ Len(queue[user]) \in Nat /\ DOMAIN queue[user] = 1..Len(queue[user])
        /\ \A i \in 1..Len(queue[user]) : queue[user][i].write \in Nat
    BY <1>1, QueueTypes DEF IInv, Writes
  <2>2. DOMAIN queue'[user] = 1..(Len(queue[user]) - 1)
    BY <1>2, ElementFacts
  <2> QED
    BY <2>1, <2>2
<1>4. \A i \in DOMAIN queue'[user] :
        /\ i + 1 \in DOMAIN queue[user] /\ queue'[user][i].write = queue[user][i + 1].write
        /\ queue[user][1].write < queue'[user][i].write
  <2>1. ASSUME NEW i \in 1..(Len(queue[user]) - 1)
        PROVE  /\ i + 1 \in DOMAIN queue[user] /\ queue'[user][i].write = queue[user][i + 1].write
               /\ queue[user][1].write < queue'[user][i].write
    <3>1. 1 \in DOMAIN queue[user] /\ i + 1 \in DOMAIN queue[user] /\ 1 < i + 1
      BY <1>3
    <3>2. queue[user][1].write < queue[user][i + 1].write
      BY <1>1, <3>1 DEF Ordered
    <3> QED
      BY <1>2, <3>1, <3>2
  <2> QED
    BY <1>3, <2>1
<1>5. SUFFICES ASSUME NEW u \in Users, NEW v \in committed, by[v] = u,
                      v > last[u] \/ \E i \in DOMAIN queue'[u] : v > queue'[u][i].write
               PROVE  v \in refused \/ \E i \in DOMAIN queue'[u] : queue'[u][i].write = v
  BY DEF LastStands
<1>6. CASE u # user
  BY <1>1, <1>2, <1>5, <1>6 DEF LastStands
<1>7. CASE u = user
  <2>1. v > last[u] \/ \E i \in DOMAIN queue[u] : v > queue[u][i].write
    BY <1>4, <1>5, <1>7
  <2>2. CASE v \in refused
    BY <2>2
  <2>3. ASSUME NEW k \in DOMAIN queue[u], queue[u][k].write = v, v \notin refused
        PROVE  \E i \in DOMAIN queue'[u] : queue'[u][i].write = v
    <3>1. CASE k = 1
      <4>1. v <= last[user] /\ v \in Nat /\ last[user] \in Nat
        BY <1>1, <1>2, <1>7, <2>3, <3>1, CommittedFacts, LastTypes
      <4>2. PICK i \in DOMAIN queue'[user] : v > queue'[user][i].write
        BY <1>5, <1>7, <4>1
      <4>3. v < queue'[user][i].write /\ queue'[user][i].write \in Nat
        BY <1>3, <1>4, <1>7, <2>3, <3>1
      <4> QED
        BY <4>1, <4>2, <4>3
    <3>2. CASE k # 1
      <4>1. k - 1 \in 1..(Len(queue[user]) - 1) /\ (k - 1) + 1 = k
        BY <1>3, <1>7, <3>2
      <4>2. PICK m \in 1..(Len(queue[user]) - 1) : m + 1 = k
        BY <4>1, Zenon
      <4>3. m \in DOMAIN queue'[u] /\ queue'[u][m].write = v
        BY <1>3, <1>4, <1>7, <2>3, <4>2
      <4> QED
        BY <4>3
    <3> QED
      BY <3>1, <3>2
  <2> QED
    BY <1>1, <1>5, <2>1, <2>2, <2>3 DEF LastStands
<1> QED
  BY <1>6, <1>7

\* What was sent first stays first when the pipeline is filled.
LEMMA FirstStays ==
  ASSUME NEW q \in Seq(Batch), NEW p \in Seq(Batch), Ordered(q), FrontOf(p, q),
         Len(p) <= MaxPending, NEW sent \in Seq(Writes), NEW s, NEW h, NEW marked, NEW asked,
         FillWritePipeline(q, p, s, h, sent, marked, asked), sent # <<>>
  PROVE  wire' # <<>> /\ wire'[1] = sent[1]
<1>0. SentOn(p, s, h, sent)
  BY FillSends
<1>1. CASE ~Writable(s, h)
  <2>1. wire' = sent
    BY <1>0, <1>1 DEF SentOn
  <2> QED
    BY <2>1
<1>2. CASE Writable(s, h)
  <2>1. /\ Len(wire') = Len(sent) + Len(pipeline') - Len(p)
        /\ \A i \in 1..Len(sent) : wire'[i] = sent[i]
    BY <1>0, <1>2 DEF SentOn
  <2>2. pipeline' \in Seq(Batch) /\ Len(p) <= Len(pipeline') /\ wire' \in Seq(Writes)
    BY FillFacts
  <2>3. Len(sent) \in Nat \ {0} /\ Len(p) \in Nat /\ Len(pipeline') \in Nat
    BY <2>2, ElementFacts, TailFacts
  <2>4. 1 \in 1..Len(sent) /\ Len(wire') # 0
    BY <2>1, <2>2, <2>3
  <2> QED
    BY <2>1, <2>2, <2>4
<1> QED
  BY <1>1, <1>2

\* The pipeline is filled and the stream goes on.
LEMMA ServerRefilled ==
  ASSUME IInv, NEW q \in Seq(Batch), NEW p \in Seq(Batch), Ordered(q), FrontOf(p, q),
         Len(p) <= MaxPending,
         FillWritePipeline(q, p, state, handshake, wire, idle, fetching),
         UNCHANGED <<user, handshake, ended, committed, last, refused>>,
         \A i \in 1..Len(replies') : \E j \in 1..Len(replies) : replies'[i] = replies[j],
         LastStands'
  PROVE  ServerInv'
<1>1. wire \in Seq(Writes) /\ ServerInv
  BY DEF IInv, Types
<1>2. PICK sent \in Seq(Writes) : sent = wire
  BY <1>1, Zenon
<1>3. FillWritePipeline(q, p, state, handshake, sent, idle, fetching)
  BY <1>2
<1>4. PICK s, h, marked, asked : s = state /\ h = handshake /\ marked = idle /\ asked = fetching
  OBVIOUS
<1>5. FillWritePipeline(q, p, s, h, sent, marked, asked)
  BY <1>3, <1>4
<1>6. sent # <<>> => wire' # <<>> /\ wire'[1] = sent[1]
  BY <1>5, FirstStays
<1>7. ended' => wire' # <<>> /\ wire'[1] \in refused'
  BY <1>1, <1>2, <1>6 DEF ServerInv
<1>8. handshake' => \A i \in 1..Len(replies') : replies'[i] \in committed' /\ replies'[i] <= last'[user']
  BY <1>1 DEF ServerInv
<1> QED
  BY <1>7, <1>8 DEF ServerInv

\* Without a call only LastStands is left of ServerInv.
LEMMA ServerClosed ==
  ASSUME ~handshake', ~ended', LastStands'
  PROVE  ServerInv'
BY DEF ServerInv

\* Steps that leave the call and the server alone keep ServerInv.
LEMMA ServerKept ==
  ASSUME IInv, UNCHANGED <<handshake, replies, ended, wire, user, serverVars, queue>>,
         \A w \in Writes : Past(w) => by'[w] = by[w]
  PROVE  ServerInv'
<1>1. LastStands'
  BY StandsKept DEF serverVars
<1> QED
  BY <1>1 DEF IInv, ServerInv, serverVars

\* Steps of the app and of the token providers keep ServerInv.
LEMMA ServerOfAppStep ==
  ASSUME IInv,
         \/ SetData \/ EnableNetwork \/ DisableNetwork \/ ConnectivityChanges
         \/ (\E u \in Users : AuthStateDidChange(u))
         \/ (\E f \in fetching : Fetched(f))
  PROVE  ServerInv'
<1>1. UNCHANGED <<localVars, remoteVars, callVars, serverVars>>
  BY DEF SetData, EnableNetwork, DisableNetwork, ConnectivityChanges, AuthStateDidChange, Fetched,
         AuthToken, CredentialsReady, CredentialsFail
<1>2. \A w \in Writes : Past(w) => by'[w] = by[w]
  <2>1. CASE SetData
    BY <2>1 DEF SetData, Past, IInv, Types, Writes
  <2>2. CASE ~SetData
    BY <2>2 DEF EnableNetwork, DisableNetwork, ConnectivityChanges, AuthStateDidChange, Fetched,
                AuthToken, CredentialsReady, CredentialsFail, appVars
  <2> QED
    BY <2>1, <2>2
<1> QED
  BY <1>1, <1>2, ServerKept DEF localVars, remoteVars, callVars

\* A write that is run comes after all that were committed.
LEMMA StandsPersisted ==
  ASSUME IInv, NEW w \in Writes, \A i \in DOMAIN queue[user] : queue[user][i].write < w,
         \A v \in Writes : Past(v) => v < w,
         queue' = [queue EXCEPT ![user] = Append(@, [id |-> nextId, write |-> w])],
         UNCHANGED <<committed, last, refused, by>>
  PROVE  LastStands'
<1>1. user \in Users /\ LastStands /\ w \in Nat
  BY DEF IInv, Types, ServerInv, Writes
<1>2. /\ queue'[user] \in Seq(Batch)
      /\ Len(queue'[user]) = Len(queue[user]) + 1
      /\ \A i \in 1..Len(queue[user]) : queue'[user][i] = queue[user][i]
      /\ queue'[user][Len(queue[user]) + 1] = [id |-> nextId, write |-> w]
      /\ \A u \in Users \ {user} : queue'[u] = queue[u]
  BY PersistFacts
<1>3. /\ Len(queue[user]) \in Nat /\ DOMAIN queue[user] = 1..Len(queue[user])
      /\ DOMAIN queue'[user] = 1..(Len(queue[user]) + 1)
  BY <1>1, <1>2, QueueTypes, ElementFacts DEF IInv
<1>4. \A v \in committed : v < w /\ v \in Nat
  BY CommittedFacts
<1>5. SUFFICES ASSUME NEW u \in Users, NEW v \in committed, by[v] = u,
                      v > last[u] \/ \E i \in DOMAIN queue'[u] : v > queue'[u][i].write
               PROVE  v \in refused \/ \E i \in DOMAIN queue'[u] : queue'[u][i].write = v
  BY DEF LastStands
<1>6. CASE u # user
  BY <1>1, <1>2, <1>5, <1>6 DEF LastStands
<1>7. CASE u = user
  <2>1. v > last[u] \/ \E i \in DOMAIN queue[u] : v > queue[u][i].write
    <3>1. ASSUME NEW i \in DOMAIN queue'[user], v > queue'[user][i].write
          PROVE  i \in DOMAIN queue[user] /\ queue'[user][i] = queue[user][i]
      <4>1. i # Len(queue[user]) + 1
        BY <1>1, <1>2, <1>4, <3>1
      <4> QED
        BY <1>2, <1>3, <4>1
    <3> QED
      BY <1>5, <1>7, <3>1
  <2>2. v \in refused \/ \E i \in DOMAIN queue[u] : queue[u][i].write = v
    BY <1>1, <1>5, <2>1 DEF LastStands
  <2> QED
    BY <1>2, <1>3, <1>7, <2>2
<1> QED
  BY <1>6, <1>7

\* Opening the streams anew keeps ServerInv.
LEMMA ServerRestarted ==
  ASSUME IInv, NEW u, RestartNetwork(u), UNCHANGED <<queue, by>>
  PROVE  ServerInv'
<1>1. CASE enabled
  <2>1. handshake' = FALSE /\ CallEnds
    BY <1>1 DEF RestartNetwork, StopStream
  <2>2. ~ended' /\ LastStands'
    BY <2>1, StandsWhenCallEnds DEF CallEnds
  <2> QED
    BY <2>1, <2>2, ServerClosed
<1>2. CASE ~enabled
  <2>1. UNCHANGED <<handshake, ended, committed, refused, last>>
    BY <1>2 DEF RestartNetwork, callVars, serverVars
  <2>2. ~handshake /\ ~ended
    BY <1>2 DEF IInv, StreamInv, IsOpen, IsStarted
  <2>3. LastStands'
    BY <2>1, StandsKept
  <2> QED
    BY <2>1, <2>2, <2>3, ServerClosed
<1> QED
  BY <1>1, <1>2

\* Tasks keep ServerInv.
LEMMA ServerOfTask ==
  ASSUME IInv, RunTask
  PROVE  ServerInv'
<1>0. /\ user \in Users /\ state \in States /\ work \in Seq(Task) /\ work # <<>>
      /\ work' = Tail(work) /\ UNCHANGED appVars /\ by' = by /\ PipelineInv
  BY TaskFrame DEF IInv, Types, States, RunTask, appVars
<1>1. PICK p \in Seq(Batch) : p = pipeline
  BY PipelineTypes DEF IInv
<1>2. Len(p) <= MaxPending
  BY <1>1, PipelineTypes DEF IInv
<1>3. ASSUME replies' = replies
      PROVE  \A i \in 1..Len(replies') : \E j \in 1..Len(replies) : replies'[i] = replies[j]
  BY <1>3
<1>4. ASSUME work[1].do = "write", WriteMutations(work[1].of) PROVE ServerInv'
  <2>1. /\ work[1].of \in Writes /\ \A i \in DOMAIN queue[user] : queue[user][i].write < work[1].of
        /\ \A v \in Writes : Past(v) => v < work[1].of
    BY <1>0, <1>4, FirstWrite
  <2>2. PICK w \in Writes : w = work[1].of
    BY <2>1
  <2>3. /\ queue' = [queue EXCEPT ![user] = Append(@, [id |-> nextId, write |-> w])]
        /\ FillWritePipeline(queue'[user], pipeline, state, handshake, wire, idle, fetching)
        /\ UNCHANGED <<enabled, user, handshake, replies, greeted, ended, serverVars>>
    BY <1>4, <2>2, Zenon DEF WriteMutations
  <2>4. queue'[user] \in Seq(Batch) /\ Ordered(queue'[user]) /\ FrontOf(pipeline, queue'[user])
    BY <2>1, <2>2, <2>3, PersistFacts
  <2>5. PICK q \in Seq(Batch) : q = queue'[user]
    BY <2>4, Zenon
  <2>6. Ordered(q) /\ FrontOf(p, q)
    BY <1>1, <2>4, <2>5
  <2>7. FillWritePipeline(q, p, state, handshake, wire, idle, fetching)
    BY <1>1, <2>3, <2>5
  <2>8. LastStands'
    BY <1>0, <2>1, <2>2, <2>3, StandsPersisted DEF serverVars
  <2> QED
    BY <1>2, <1>3, <2>3, <2>6, <2>7, <2>8, ServerRefilled DEF serverVars
<1>5. ASSUME RunEnable PROVE ServerInv'
  <2>1. /\ FillWritePipeline(queue[user], pipeline, state, handshake, wire, idle, fetching)
        /\ UNCHANGED <<user, queue, handshake, replies, ended, serverVars>>
    BY <1>5 DEF RunEnable, localVars
  <2>2. PICK q \in Seq(Batch) : q = queue[user]
    BY <1>0, QueueTypes DEF IInv
  <2>3. Ordered(q) /\ FrontOf(p, q)
    BY <1>0, <1>1, <2>2 DEF IInv, QueueInv, PipelineInv
  <2>4. FillWritePipeline(q, p, state, handshake, wire, idle, fetching)
    BY <1>1, <2>1, <2>2
  <2>5. LastStands'
    BY <1>0, <2>1, StandsKept DEF serverVars
  <2> QED
    BY <1>2, <1>3, <2>1, <2>3, <2>4, <2>5, ServerRefilled DEF serverVars
<1>6. ASSUME RunDisable PROVE ServerInv'
  <2>1. handshake' = FALSE /\ CallEnds /\ queue' = queue
    BY <1>6 DEF RunDisable, StopStream, localVars
  <2>2. ~ended' /\ LastStands'
    BY <1>0, <2>1, StandsWhenCallEnds DEF CallEnds
  <2> QED
    BY <2>1, <2>2, ServerClosed
<1>7. ASSUME Reconnect PROVE ServerInv'
  BY <1>0, <1>7, ServerRestarted DEF Reconnect, localVars
<1>8. ASSUME HandleCredentialChange(work[1].of) PROVE ServerInv'
  BY <1>0, <1>8, ServerRestarted DEF HandleCredentialChange
<1>9. ASSUME ResumeStart(work[1].of) \/ StartFails \/ Skips PROVE ServerInv'
  <2>1. UNCHANGED <<handshake, replies, ended, wire, user, serverVars, queue>>
    BY <1>9 DEF ResumeStart, StartFails, Skips, localVars, remoteVars, callVars
  <2> QED
    BY <1>0, <2>1, ServerKept
<1> QED
  BY <1>4, <1>5, <1>6, <1>7, <1>8, <1>9, TaskCases DEF Runs, IInv

\* A result that is read is of a write that was committed.
LEMMA ResultCommitted ==
  ASSUME IInv, Acknowledged
  PROVE  pipeline[1].write = replies[1] /\ replies[1] \in committed /\ replies[1] <= last[user]
<1>1. handshake /\ replies # <<>> /\ replies \in Seq(Writes \cup {Hello})
  BY DEF Acknowledged, IInv, Types
<1>2. 1 \in 1..Len(replies)
  BY <1>1, TailFacts
<1> QED
  BY <1>1, <1>2, ReplyFacts DEF IInv, ServerInv

\* A call that has ended was ended by the write at the front.
LEMMA RejectionRefused ==
  ASSUME IInv, WriteRejected
  PROVE  pipeline[1].write \in refused
<1>1. ended /\ replies = <<>>
  BY DEF WriteRejected
<1>2. wire # <<>> /\ wire[1] \in refused /\ wire \in Seq(Writes)
  BY <1>1 DEF IInv, ServerInv, Types
<1>3. 1 \in 1..Len(wire)
  BY <1>2, TailFacts
<1>4. wire[1] = pipeline[Len(replies) + 1].write
  BY <1>3, WireFacts
<1>5. Len(replies) + 1 = 1
  BY <1>1
<1> QED
  BY <1>2, <1>4, <1>5

\* Steps of the stream, the server and the process keep ServerInv.
LEMMA ServerOfStreamStep ==
  ASSUME IInv,
         \/ Read \/ StreamFails \/ BackoffElapsed \/ IdleTimeout \/ Serve \/ Launch
  PROVE  ServerInv'
<1>0. /\ replies \in Seq(Writes \cup {Hello}) /\ wire \in Seq(Writes) /\ user \in Users
      /\ Len(replies) \in Nat /\ Len(wire) \in Nat
      /\ StreamInv /\ ServerInv
  BY ElementFacts DEF IInv, Types
<1>1. ASSUME handshake' = FALSE, CallEnds, UNCHANGED <<queue, by>> PROVE ServerInv'
  <2>1. ~ended' /\ LastStands'
    BY <1>1, StandsWhenCallEnds DEF CallEnds
  <2> QED
    BY <1>1, <2>1, ServerClosed
<1>2. CASE HandshakeComplete
  <2>1. /\ ~handshake /\ replies # <<>> /\ replies' = Tail(replies) /\ IsOpen
        /\ UNCHANGED <<by, queue, ended, committed, refused, last>>
    BY <1>2 DEF HandshakeComplete, appVars, localVars, serverVars
  <2>2. ~ended /\ Len(replies) <= 1
    BY <1>0, <2>1 DEF StreamInv
  <2>3. 1..Len(replies') = {}
    BY <1>0, <2>1, <2>2, TailFacts
  <2>4. LastStands'
    BY <2>1, StandsKept
  <2> QED
    BY <2>1, <2>2, <2>3, <2>4 DEF ServerInv
<1>3. CASE MutationResult
  <2>1. /\ handshake /\ replies # <<>> /\ pipeline # <<>>
        /\ replies' = Tail(replies) /\ RemoveBatch(Head(pipeline))
        /\ FillWritePipeline(queue'[user], Tail(pipeline), state, handshake, wire, idle, fetching)
        /\ UNCHANGED <<user, by, handshake, ended, committed, refused, last>>
    BY <1>3 DEF MutationResult, Acknowledged, serverVars, appVars
  <2>2. /\ queue'[user] \in Seq(Batch) /\ Ordered(queue'[user])
        /\ Tail(pipeline) \in Seq(Batch) /\ Len(Tail(pipeline)) = Len(pipeline) - 1
        /\ FrontOf(Tail(pipeline), queue'[user])
    BY <2>1, RemoveFacts
  <2>3. PICK q \in Seq(Batch) : q = queue'[user]
    BY <2>2, Zenon
  <2>4. PICK p \in Seq(Batch) : p = Tail(pipeline)
    BY <2>2, Zenon
  <2>a. Len(p) <= MaxPending
    BY <2>2, <2>4, PipelineTypes DEF IInv
  <2>5. /\ Ordered(q) /\ FrontOf(p, q) /\ Len(p) <= MaxPending
        /\ FillWritePipeline(q, p, state, handshake, wire, idle, fetching)
    BY <2>1, <2>2, <2>3, <2>4, <2>a
  <2>6. \A i \in 1..Len(replies') : \E j \in 1..Len(replies) : replies'[i] = replies[j]
    <3>1. /\ Len(replies') = Len(replies) - 1
          /\ \A i \in 1..(Len(replies) - 1) : replies'[i] = replies[i + 1]
      BY <1>0, <2>1, TailFacts
    <3>2. \A i \in 1..(Len(replies) - 1) : i + 1 \in 1..Len(replies)
      BY <1>0
    <3> QED
      BY <3>1, <3>2
  <2>7. LastStands'
    <3>1. Acknowledged
      BY <1>3 DEF MutationResult
    <3> QED
      BY <1>3, <2>1, <3>1, ResultCommitted, StandsSettled
  <2> QED
    BY <2>1, <2>5, <2>6, <2>7, ServerRefilled
<1>4. CASE WriteRejected
  <2>1. /\ ended /\ handshake' = FALSE /\ CallEnds /\ pipeline # <<>> /\ RemoveBatch(Head(pipeline))
        /\ by' = by
    BY <1>4 DEF WriteRejected, appVars
  <2>2. committed' = committed /\ last' = last /\ refused' = refused /\ ~ended'
    BY <2>1 DEF CallEnds
  <2>3. LastStands'
    BY <1>4, <2>1, <2>2, RejectionRefused, StandsSettled
  <2> QED
    BY <2>1, <2>2, <2>3, ServerClosed
<1>5. CASE StreamFails
  BY <1>1, <1>5 DEF StreamFails, localVars
<1>6. CASE BackoffElapsed
  <2>1. UNCHANGED <<handshake, replies, ended, wire, user, serverVars, queue, by>>
    BY <1>6 DEF BackoffElapsed, appVars, localVars, callVars
  <2> QED
    BY <2>1, ServerKept
<1>7. CASE IdleTimeout
  BY <1>1, <1>7 DEF IdleTimeout, StopStream, appVars, localVars
<1>8. CASE Launch
  <2>1. handshake' = FALSE /\ CallEnds /\ UNCHANGED <<queue, by>>
    BY <1>8, Zenon DEF Launch
  <2> QED
    BY <1>1, <2>1
<1>9. CASE Greet
  <2>1. ~greeted /\ UNCHANGED <<handshake, ended, wire, queue, by, committed, refused, last>>
    BY <1>9 DEF Greet, appVars, localVars, remoteVars, serverVars
  <2>2. ~handshake /\ ~ended
    BY <1>0, <2>1 DEF StreamInv
  <2>3. LastStands'
    BY <2>1, StandsKept
  <2> QED
    BY <2>1, <2>2, <2>3, ServerClosed
<1>10. CASE Refuse
  <2>1. /\ wire # <<>> /\ refused' = refused \cup {Head(wire)}
        /\ UNCHANGED <<handshake, replies, wire, queue, by, user, committed, last>>
    BY <1>10 DEF Refuse, appVars, localVars, remoteVars
  <2>2. wire[1] \in refused'
    BY <1>0, <2>1, TailFacts
  <2>3. LastStands'
    BY <2>1, StandsKept
  <2>4. handshake' => \A i \in 1..Len(replies') : replies'[i] \in committed' /\ replies'[i] <= last'[user']
    BY <1>0, <2>1 DEF ServerInv
  <2> QED
    BY <2>1, <2>2, <2>3, <2>4 DEF ServerInv
<1>11. CASE Commit
  <2>1. /\ ~ended /\ wire # <<>>
        /\ committed' = committed \cup {Head(wire)}
        /\ last' = [last EXCEPT ![by[Head(wire)]] = Head(wire)]
        /\ replies' = Append(replies, Head(wire))
        /\ UNCHANGED <<handshake, ended, queue, by, user, refused>>
    BY <1>11 DEF Commit, appVars, localVars, remoteVars
  <2>2. Head(wire) = wire[1] /\ 1 \in 1..Len(wire)
    BY <1>0, <2>1, TailFacts
  <2>3. /\ wire[1] \in Writes /\ by[wire[1]] = user /\ handshake
        /\ Len(replies) + 1 \in DOMAIN queue[user]
        /\ wire[1] = queue[user][Len(replies) + 1].write
    BY <2>2, WireFacts
  <2>4. PICK w \in Writes : w = wire[1]
    BY <2>3
  <2>5. /\ committed' = committed \cup {w} /\ last' = [last EXCEPT ![user] = w]
        /\ replies' = Append(replies, w) /\ w \in Nat
    <3>1. Head(wire) = w /\ by[Head(wire)] = user
      BY <2>2, <2>3, <2>4
    <3>2. w \in Nat
      BY DEF Writes
    <3> QED
      BY <2>1, <3>1, <3>2
  <2>6. LastStands'
    <3>1. PICK new \in SUBSET Writes : new = {w}
      OBVIOUS
    <3>2. w \in new /\ \A v \in new : by[v] = user /\ \E i \in DOMAIN queue[user] : queue[user][i].write = v
      BY <2>3, <2>4, <3>1
    <3> QED
      BY <2>1, <2>5, <3>1, <3>2, StandsCommitted
  <2>7. last'[user] = w
    BY <1>0, <2>5, LastTypes
  <2>8. ASSUME NEW i \in 1..(Len(replies) + 1) PROVE replies'[i] \in committed' /\ replies'[i] <= w
    <3>1. /\ Len(replies') = Len(replies) + 1 /\ replies'[Len(replies) + 1] = w
          /\ \A k \in 1..Len(replies) : replies'[k] = replies[k]
      <4>1. w \in Writes \cup {Hello}
        OBVIOUS
      <4> QED
        BY <1>0, <2>5, <4>1, AppendFacts
    <3>2. CASE i = Len(replies) + 1
      BY <2>5, <3>1, <3>2
    <3>3. CASE i # Len(replies) + 1
      <4>1. i \in 1..Len(replies) /\ i < Len(replies) + 1
        BY <1>0, <3>3
      <4>2. replies[i] \in committed /\ i \in DOMAIN queue[user] /\ replies[i] = queue[user][i].write
        BY <1>0, <2>3, <4>1, ReplyFacts DEF ServerInv
      <4>3. queue[user][i].write < queue[user][Len(replies) + 1].write
        BY <1>0, <2>3, <4>1, <4>2 DEF IInv, QueueInv, Ordered
      <4>4. replies[i] \in Nat
        BY <4>2, CommittedFacts
      <4> QED
        BY <2>3, <2>4, <2>5, <3>1, <4>1, <4>2, <4>3, <4>4
    <3> QED
      BY <3>2, <3>3
  <2>9. Len(replies') = Len(replies) + 1
    BY <1>0, <2>4, <2>5, AppendFacts
  <2>10. handshake' => \A i \in 1..Len(replies') : replies'[i] \in committed' /\ replies'[i] <= last'[user']
    BY <2>1, <2>7, <2>8, <2>9
  <2> QED
    BY <2>1, <2>6, <2>10 DEF ServerInv
<1> QED
  BY <1>2, <1>3, <1>4, <1>5, <1>6, <1>7, <1>8, <1>9, <1>10, <1>11 DEF Read, Serve

\* Every step keeps ServerInv.
LEMMA ServerStep ==
  ASSUME IInv, Next
  PROVE  ServerInv'
BY ServerOfAppStep, ServerOfTask, ServerOfStreamStep DEF Next
-----------------------------------------------------------------------------
(* The theorems.                                                            *)

\* The invariant holds at the start.
LEMMA InitiallyIInv == Init => IInv
<1>. SUFFICES ASSUME Init PROVE IInv
  OBVIOUS
<1>1. \A u \in Users : queue[u] = <<>> /\ DOMAIN queue[u] = {} /\ Len(queue[u]) = 0
  <2>1. \A u \in Users : queue[u] = <<>>
    BY DEF Init
  <2>2. DOMAIN <<>> = {} /\ Len(<<>>) = 0
    OBVIOUS
  <2> QED
    BY <2>1, <2>2
<1>2. DOMAIN work = {} /\ Len(work) = 0 /\ Len(wire) = 0 /\ Len(replies) = 0 /\ Len(pipeline) = 0
  BY DEF Init
<1>3. Types
  <2>1. <<>> \in Seq(Task) /\ <<>> \in Seq(Batch) /\ <<>> \in Seq(Writes) /\ <<>> \in Seq(Writes \cup {Hello})
    OBVIOUS
  <2>2. queue \in [Users -> Seq(Batch)] /\ last \in [Users -> Writes \cup {Hello}]
    BY <2>1 DEF Init
  <2>3. Len(pipeline) <= MaxPending
    BY <1>2
  <2>4. by \in [Writes -> Users] /\ reported \in [Writes -> {"none", "committed", "rejected"}]
    BY DEF Init
  <2>5. written \in 0..MaxWrites /\ events \in 0..MaxEvents
    BY DEF Init
  <2>6. pipeline \in Seq(Batch) /\ work \in Seq(Task) /\ wire \in Seq(Writes) /\ replies \in Seq(Writes \cup {Hello})
    BY <2>1 DEF Init
  <2>7. /\ authUser \in Users /\ user \in Users /\ credential \in Users
        /\ fetching = {} /\ callbacks = {} /\ committed = {} /\ refused = {}
        /\ nextId = 1 /\ closes = 0 /\ state = "Initial" /\ enabled = TRUE /\ handshake = FALSE
        /\ idle = FALSE /\ greeted = FALSE /\ ended = FALSE
    BY DEF Init
  <2>8. nextId \in Nat \ {0} /\ closes \in Nat
    BY <2>7
  <2> QED
    BY <2>2, <2>3, <2>4, <2>5, <2>6, <2>7, <2>8 DEF Types
<1>4. WorkInv
  BY <1>2 DEF Init, WorkInv, SignedInAt
<1>5. QueueInv
  BY <1>1 DEF Init, QueueInv, Ordered
<1>6. PipelineInv
  BY <1>1, <1>2 DEF Init, PipelineInv, FrontOf
<1>7. StreamInv
  BY DEF Init, StreamInv, IsOpen, IsStarted
<1>8. TokenInv
  BY <1>2 DEF Init, TokenInv, IsOpen
<1>9. ServerInv
  BY DEF Init, ServerInv, LastStands
<1> QED
  BY <1>3, <1>4, <1>5, <1>6, <1>7, <1>8, <1>9 DEF IInv

\* And when nothing happens.
LEMMA Stutters ==
  ASSUME IInv, UNCHANGED writeVars
  PROVE  IInv'
<1>. USE DEF writeVars, appVars, localVars, remoteVars, callVars, serverVars
<1>1. Types'
  BY DEF IInv, Types
<1>2. WorkInv'
  BY DEF IInv, WorkInv, SignedInAt
<1>3. QueueInv'
  BY DEF IInv, QueueInv, Ordered, Past
<1>4. PipelineInv'
  BY DEF IInv, PipelineInv, FrontOf
<1>5. StreamInv'
  BY DEF IInv, StreamInv, IsOpen, IsStarted
<1>6. TokenInv'
  BY TokenKept
<1>7. ServerInv'
  BY ServerKept
<1> QED
  BY <1>1, <1>2, <1>3, <1>4, <1>5, <1>6, <1>7 DEF IInv

\* It is an invariant.
LEMMA Invariance == Spec => []IInv
<1>1. Init => IInv
  BY InitiallyIInv
<1>2. IInv /\ [Next]_writeVars => IInv'
  BY TypesStep, WorkStep, QueueStep, StreamStep, TokenStep, ServerStep, Stutters DEF IInv
<1> QED
  BY <1>1, <1>2, PTL DEF Spec

\* What the code asserts holds whatever the order of replies, changes of the
\* user, failures and launches: a result or an error finds the write it is
\* about in the pipeline and in the queue of the user, only a stream with
\* nothing to send is stopped as idle, and a token that is used finds the
\* stream starting.
THEOREM TypeCorrect == Spec => []TypeOK
<1>1. ASSUME IInv PROVE TypeOK
  <2>1. /\ replies \in Seq(Writes \cup {Hello}) /\ wire \in Seq(Writes) /\ user \in Users
        /\ StreamInv /\ PipelineInv /\ ServerInv /\ Types
        /\ Len(replies) \in Nat /\ Len(wire) \in Nat /\ Len(pipeline) \in Nat
    BY <1>1, ElementFacts, PipelineTypes DEF IInv, Types
  <2>2. IsOpen /\ handshake /\ replies # <<>> => pipeline # <<>>
    <3>1. replies # <<>> => Len(replies) # 0
      BY <2>1
    <3> QED
      BY <2>1, <3>1 DEF StreamInv
  <2>3. ended => pipeline # <<>>
    <3>1. wire # <<>> => Len(wire) # 0
      BY <2>1
    <3>2. ended => handshake /\ wire # <<>>
      BY <2>1 DEF StreamInv, ServerInv
    <3> QED
      BY <2>1, <3>1, <3>2 DEF StreamInv
  <2>4. idle => IsOpen /\ pipeline = <<>>
    BY <2>1 DEF StreamInv
  <2>5. Members(pipeline) \subseteq Members(queue[user])
    <3>1. DOMAIN pipeline = 1..Len(pipeline) /\ DOMAIN queue[user] = 1..Len(queue[user]) /\ Len(queue[user]) \in Nat
      BY <2>1, PipelineTypes, QueueTypes
    <3>2. \A i \in DOMAIN pipeline : i \in DOMAIN queue[user] /\ pipeline[i] = queue[user][i]
      BY <2>1, <3>1 DEF PipelineInv, FrontOf
    <3> QED
      BY <3>2 DEF Members
  <2>6. \A i \in DOMAIN work :
          work[i].do \in {"token", "noToken"} /\ work[i].closes = closes => state = "Starting"
    BY <1>1 DEF IInv, TokenInv, Awaited
  <2> QED
    BY <2>1, <2>2, <2>3, <2>4, <2>5, <2>6 DEF TypeOK, AssertionsHold
<1> QED
  BY <1>1, Invariance, PTL

\* Every write travels under the credentials of the user who was signed in
\* when the app made it.
THEOREM Credentials == Spec => []OwnCredentials
<1>1. ASSUME IInv PROVE OwnCredentials
  <2>1. ASSUME NEW i \in DOMAIN wire PROVE by[wire[i]] = credential
    <3>1. i \in 1..Len(wire)
      BY <1>1, ElementFacts DEF IInv, Types
    <3> QED
      BY <1>1, <3>1, WireFacts DEF IInv, TokenInv
  <2> QED
    BY <2>1 DEF OwnCredentials
<1> QED
  BY <1>1, Invariance, PTL

\* Once a user's queue is empty, the last of that user's writes that was
\* committed and never refused is the one that stands at the server.
THEOREM LastWriteStands == Spec => []ServerEndsWithLast
<1>1. ASSUME IInv PROVE ServerEndsWithLast
  <2>1. ASSUME NEW u \in Users, queue[u] = <<>>, NEW w \in committed \ refused, by[w] = u
        PROVE  w <= last[u]
    <3>1. w \in Nat /\ last[u] \in Nat
      BY <1>1, CommittedFacts, LastTypes
    <3>2. ~(w > last[u])
      BY <1>1, <2>1 DEF IInv, ServerInv, LastStands
    <3> QED
      BY <3>1, <3>2
  <2> QED
    BY <2>1 DEF ServerEndsWithLast
<1> QED
  BY <1>1, Invariance, PTL

\* Only a result or a rejection reports a write; or a result the process does
\* not outlive.
LEMMA OthersReportNothing ==
  ASSUME Types, Next, ~MutationResult, ~WriteRejected
  PROVE  reported' = reported \/ (Launch /\ Acknowledged /\ Tell(Head(pipeline), "committed"))
<1>1. CASE RunTask
  <2>1. ASSUME work[1].do = "write", WriteMutations(work[1].of) PROVE reported' = reported
    BY <2>1 DEF WriteMutations
  <2> QED
    BY <1>1, <2>1, TaskCases DEF Runs, RunEnable, RunDisable, Reconnect, HandleCredentialChange,
       ResumeStart, StartFails, Skips, localVars
<1>2. CASE ~RunTask
  BY <1>2 DEF Next, SetData, EnableNetwork, DisableNetwork, ConnectivityChanges, AuthStateDidChange,
     Fetched, AuthToken, CredentialsReady, CredentialsFail, Read, HandshakeComplete, StreamFails,
     BackoffElapsed, IdleTimeout, Serve, Greet, Commit, Refuse, Launch, localVars
<1> QED
  BY <1>1, <1>2

\* What was committed or refused stays so.
LEMMA ServerRemembers ==
  ASSUME Types, Next
  PROVE  committed \subseteq committed' /\ refused \subseteq refused'
<1>0. ASSUME CallEnds \/ UNCHANGED serverVars PROVE committed \subseteq committed' /\ refused \subseteq refused'
  BY <1>0 DEF CallEnds, serverVars
<1>1. CASE RunTask
  <2>1. ASSUME work[1].do = "write", WriteMutations(work[1].of) PROVE UNCHANGED serverVars
    BY <2>1 DEF WriteMutations
  <2>2. ASSUME NEW u, RestartNetwork(u) PROVE CallEnds \/ UNCHANGED serverVars
    BY <2>2 DEF RestartNetwork, StopStream
  <2>3. CallEnds \/ UNCHANGED serverVars
    BY <1>1, <2>1, <2>2, TaskCases DEF Runs, RunEnable, RunDisable, StopStream, Reconnect,
       HandleCredentialChange, ResumeStart, StartFails, Skips
  <2> QED
    BY <1>0, <2>3
<1>2. CASE Greet \/ Commit \/ Refuse
  BY <1>2 DEF Greet, Commit, Refuse, serverVars
<1>3. CASE ~RunTask /\ ~Serve
  <2>1. CallEnds \/ UNCHANGED serverVars
    BY <1>3 DEF Next, SetData, EnableNetwork, DisableNetwork, ConnectivityChanges, AuthStateDidChange,
       Fetched, AuthToken, CredentialsReady, CredentialsFail, Read, HandshakeComplete, MutationResult,
       WriteRejected, StreamFails, BackoffElapsed, IdleTimeout, StopStream, Launch
  <2> QED
    BY <1>0, <2>1
<1> QED
  BY <1>1, <1>2, <1>3 DEF Serve

\* What the app is told of a write is what became of that write, although
\* replies are matched with writes by position.
THEOREM Correlation == Spec => []ResultsCorrelate
<1>1. Init => ResultsCorrelate
  BY DEF Init, ResultsCorrelate
<1>2. ASSUME IInv, ResultsCorrelate, Next PROVE ResultsCorrelate'
  <2>1. committed \subseteq committed' /\ refused \subseteq refused'
    BY <1>2, ServerRemembers DEF IInv
  <2>2. CASE MutationResult
    <3>1. /\ pipeline # <<>> /\ RemoveBatch(Head(pipeline)) /\ NotifyUser(Head(pipeline), "committed")
      BY <2>2 DEF MutationResult, Acknowledged
    <3>2. PICK result \in {"committed", "rejected"} : result = "committed"
      OBVIOUS
    <3>3. reported' = reported \/ reported' = [reported EXCEPT ![queue[user][1].write] = result]
      BY <1>2, <3>1, <3>2, ReportedFacts DEF NotifyUser
    <3>4. queue[user][1].write \in committed /\ reported \in [Writes -> {"none", "committed", "rejected"}]
      BY <1>2, <2>2, <3>1, FrontFacts, ResultCommitted DEF IInv, Types, MutationResult
    <3> QED
      BY <1>2, <2>1, <3>2, <3>3, <3>4 DEF ResultsCorrelate
  <2>3. CASE WriteRejected
    <3>1. /\ pipeline # <<>> /\ RemoveBatch(Head(pipeline)) /\ NotifyUser(Head(pipeline), "rejected")
      BY <2>3 DEF WriteRejected
    <3>2. PICK result \in {"committed", "rejected"} : result = "rejected"
      OBVIOUS
    <3>3. reported' = reported \/ reported' = [reported EXCEPT ![queue[user][1].write] = result]
      BY <1>2, <3>1, <3>2, ReportedFacts DEF NotifyUser
    <3>4. queue[user][1].write \in refused /\ reported \in [Writes -> {"none", "committed", "rejected"}]
      BY <1>2, <2>3, <3>1, RemoveFacts, RejectionRefused DEF IInv, Types
    <3> QED
      BY <1>2, <2>1, <3>2, <3>3, <3>4 DEF ResultsCorrelate
  <2>4. CASE ~MutationResult /\ ~WriteRejected
    <3>1. CASE reported' = reported
      BY <1>2, <2>1, <3>1 DEF ResultsCorrelate
    <3>2. CASE Acknowledged /\ Tell(Head(pipeline), "committed")
      <4>1. PICK result \in {"committed", "rejected"} : result = "committed"
        OBVIOUS
      <4>2. reported' = reported \/ reported' = [reported EXCEPT ![queue[user][1].write] = result]
        BY <1>2, <3>2, <4>1, ReportedFacts DEF Acknowledged
      <4>3. queue[user][1].write \in committed /\ reported \in [Writes -> {"none", "committed", "rejected"}]
        BY <1>2, <3>2, FrontFacts, ResultCommitted DEF IInv, Types, Acknowledged
      <4> QED
        BY <1>2, <2>1, <4>1, <4>2, <4>3 DEF ResultsCorrelate
    <3> QED
      BY <1>2, <2>4, <3>1, <3>2, OthersReportNothing DEF IInv
  <2> QED
    BY <2>2, <2>3, <2>4
<1>3. ResultsCorrelate /\ UNCHANGED writeVars => ResultsCorrelate'
  BY DEF ResultsCorrelate, writeVars, localVars, serverVars
<1> QED
  BY <1>1, <1>2, <1>3, Invariance, PTL DEF Spec

\* Only a write that is run, a result and a rejection change the queues.
LEMMA OthersKeepQueues ==
  ASSUME Types, Next, ~MutationResult, ~WriteRejected
  PROVE  \/ queue' = queue
         \/ Runs(work[1].do = "write" /\ WriteMutations(work[1].of))
<1>1. CASE RunTask
  BY <1>1, TaskCases DEF Runs, RunEnable, RunDisable, Reconnect, HandleCredentialChange,
     ResumeStart, StartFails, Skips, localVars
<1>2. CASE ~RunTask
  BY <1>2 DEF Next, SetData, EnableNetwork, DisableNetwork, ConnectivityChanges, AuthStateDidChange,
     Fetched, AuthToken, CredentialsReady, CredentialsFail, Read, HandshakeComplete, StreamFails,
     BackoffElapsed, IdleTimeout, Serve, Greet, Commit, Refuse, Launch, localVars
<1> QED
  BY <1>1, <1>2

\* The writes of a queue that lost its first batch.
LEMMA WritesOfTail ==
  ASSUME NEW q \in Seq(Batch), q # <<>>
  PROVE  /\ WritesOf(q) # <<>> /\ Head(WritesOf(q)) = q[1].write
         /\ WritesOf(Tail(q)) = Tail(WritesOf(q))
<1>1. /\ Tail(q) \in Seq(Batch) /\ Len(Tail(q)) = Len(q) - 1 /\ Len(q) \in Nat \ {0}
      /\ \A i \in 1..(Len(q) - 1) : Tail(q)[i] = q[i + 1]
  BY TailFacts
<1>2. PICK s \in Seq(Writes) : s = WritesOf(q)
  BY WritesOfFacts
<1>a. PICK r \in Seq(Batch) : r = Tail(q)
  BY <1>1, Zenon
<1>3. PICK t \in Seq(Writes) : t = WritesOf(r)
  BY WritesOfFacts
<1>4. Len(s) = Len(q) /\ \A i \in 1..Len(q) : s[i] = q[i].write
  BY <1>2, WritesOfFacts
<1>5. Len(t) = Len(q) - 1 /\ \A i \in 1..(Len(q) - 1) : t[i] = q[i + 1].write
  <2>1. Len(t) = Len(r) /\ \A i \in 1..Len(r) : t[i] = r[i].write
    BY <1>3, WritesOfFacts
  <2> QED
    BY <1>1, <1>a, <2>1
<1>6. s # <<>>
  BY <1>1, <1>4
<1>7. /\ Tail(s) \in Seq(Writes) /\ Len(Tail(s)) = Len(s) - 1 /\ Head(s) = s[1]
      /\ \A i \in 1..(Len(s) - 1) : Tail(s)[i] = s[i + 1]
  BY <1>6, TailFacts
<1>8. \A i \in 1..(Len(q) - 1) : i + 1 \in 1..Len(q)
  BY <1>1
<1>9. \A i \in 1..Len(t) : t[i] = Tail(s)[i]
  BY <1>4, <1>5, <1>7, <1>8
<1>10. t = Tail(s)
  BY <1>4, <1>5, <1>7, <1>9, SeqEqual
<1>11. 1 \in 1..Len(q)
  BY <1>1
<1> QED
  BY <1>a, <1>2, <1>3, <1>4, <1>6, <1>7, <1>10, <1>11

\* The writes of a queue that got a batch more.
LEMMA WritesOfAppend ==
  ASSUME NEW q \in Seq(Batch), NEW b \in Batch
  PROVE  WritesOf(Append(q, b)) = Append(WritesOf(q), b.write)
<1>1. /\ Append(q, b) \in Seq(Batch) /\ Len(Append(q, b)) = Len(q) + 1 /\ Len(q) \in Nat
      /\ \A i \in 1..Len(q) : Append(q, b)[i] = q[i]
      /\ Append(q, b)[Len(q) + 1] = b
  BY AppendFacts, ElementFacts
<1>2. PICK s \in Seq(Writes) : s = WritesOf(q)
  BY WritesOfFacts
<1>3. PICK t \in Seq(Writes) : t = WritesOf(Append(q, b))
  BY <1>1, WritesOfFacts
<1>4. Len(s) = Len(q) /\ \A i \in 1..Len(q) : s[i] = q[i].write
  BY <1>2, WritesOfFacts
<1>5. Len(t) = Len(q) + 1 /\ \A i \in 1..(Len(q) + 1) : t[i] = Append(q, b)[i].write
  BY <1>1, <1>3, WritesOfFacts
<1>6. b.write \in Writes
  BY BatchFacts
<1>7. /\ Append(s, b.write) \in Seq(Writes) /\ Len(Append(s, b.write)) = Len(s) + 1
      /\ \A i \in 1..Len(s) : Append(s, b.write)[i] = s[i]
      /\ Append(s, b.write)[Len(s) + 1] = b.write
  BY <1>6, AppendFacts
<1>8. ASSUME NEW i \in 1..Len(t) PROVE t[i] = Append(s, b.write)[i]
  <2>1. CASE i = Len(q) + 1
    BY <1>1, <1>4, <1>5, <1>7, <2>1
  <2>2. CASE i # Len(q) + 1
    <3>1. i \in 1..Len(q)
      BY <1>1, <1>5, <2>2
    <3> QED
      BY <1>1, <1>4, <1>5, <1>7, <3>1
  <2> QED
    BY <2>1, <2>2
<1>9. t = Append(s, b.write)
  BY <1>4, <1>5, <1>7, <1>8, SeqEqual
<1> QED
  BY <1>2, <1>3, <1>9

\* A write that is run is persisted for its user, and was nowhere before.
LEMMA WritePersists ==
  ASSUME IInv, Runs(work[1].do = "write" /\ WriteMutations(work[1].of))
  PROVE  Promised!Persist(user, work[1].of) /\ user \in Users /\ work[1].of \in Writes
<1>1. /\ work # <<>> /\ work[1].do = "write" /\ work' = Tail(work) /\ UNCHANGED appVars
      /\ WriteMutations(work[1].of) /\ user \in Users /\ queue \in [Users -> Seq(Batch)]
  BY DEF Runs, IInv, Types
<1>2. PICK w : w = work[1].of
  OBVIOUS
<1>3. /\ w \in Writes /\ by[w] = user /\ reported[w] = "none" /\ ~Past(w)
      /\ \A i \in DOMAIN queue[user] : queue[user][i].write < w
  BY <1>1, <1>2, FirstWrite
<1>4. /\ queue' = [queue EXCEPT ![user] = Append(@, [id |-> nextId, write |-> w])]
      /\ reported' = reported
  BY <1>1, <1>2, Zenon DEF WriteMutations
<1>5. /\ [id |-> nextId, write |-> w] \in Batch
      /\ queue'[user] = Append(queue[user], [id |-> nextId, write |-> w])
      /\ \A u \in Users \ {user} : queue'[u] = queue[u]
  BY <1>3, <1>4, PersistFacts
<1>6. PICK q \in Seq(Batch), b \in Batch : q = queue[user] /\ b = [id |-> nextId, write |-> w]
  BY <1>1, <1>5
<1>7. WritesOf(queue'[user]) = Append(WritesOf(queue[user]), w)
  BY <1>5, <1>6, WritesOfAppend
<1>8. [u \in Users |-> WritesOf(queue'[u])]
        = [[u \in Users |-> WritesOf(queue[u])] EXCEPT ![user] = Append(@, w)]
  BY <1>1, <1>5, <1>7
<1>9. \A v \in Users : \A i \in DOMAIN WritesOf(queue[v]) : WritesOf(queue[v])[i] # w
  <2>1. ASSUME NEW v \in Users, NEW i \in DOMAIN WritesOf(queue[v]) PROVE WritesOf(queue[v])[i] # w
    <3>1. i \in DOMAIN queue[v] /\ WritesOf(queue[v])[i] = queue[v][i].write
      BY <2>1 DEF WritesOf
    <3>2. Past(queue[v][i].write)
      BY <3>1 DEF IInv, QueueInv
    <3> QED
      BY <1>3, <3>1, <3>2
  <2> QED
    BY <2>1
<1> QED
  BY <1>1, <1>2, <1>3, <1>4, <1>8, <1>9 DEF Promised!Persist

\* A result or a rejection settles the first write of the user's queue.
LEMMA FrontSettles ==
  ASSUME IInv, pipeline # <<>>, RemoveBatch(Head(pipeline)),
         NEW result \in {"committed", "rejected"}, NotifyUser(Head(pipeline), result)
  PROVE  Promised!Settle(user) /\ user \in Users
<1>1. /\ user \in Users /\ queue \in [Users -> Seq(Batch)]
  BY DEF IInv, Types
<1>2. /\ queue[user] # <<>> /\ queue'[user] = Tail(queue[user])
      /\ \A u \in Users \ {user} : queue'[u] = queue[u]
  BY RemoveFacts
<1>3. PICK q \in Seq(Batch) : q = queue[user]
  BY <1>1
<1>4. /\ WritesOf(queue[user]) # <<>> /\ Head(WritesOf(queue[user])) = queue[user][1].write
      /\ WritesOf(queue'[user]) = Tail(WritesOf(queue[user]))
  BY <1>2, <1>3, WritesOfTail
<1>5. [u \in Users |-> WritesOf(queue'[u])]
        = [[u \in Users |-> WritesOf(queue[u])] EXCEPT ![user] = Tail(@)]
  BY <1>1, <1>2, <1>4
<1>6. \/ \E r \in Promised!Results \ {"none"} : Promised!Report(user, r)
      \/ reported' = reported
  BY <1>1, <1>4, ReportedFacts DEF Promised!Results, Promised!Report, NotifyUser
<1> QED
  BY <1>1, <1>4, <1>5, <1>6 DEF Promised!Settle

\* So may a process that ends tell of the first write, and leave it there.
LEMMA EndTells ==
  ASSUME IInv, Acknowledged, Tell(Head(pipeline), "committed"), queue' = queue
  PROVE  \/ UNCHANGED <<[u \in Users |-> WritesOf(queue[u])], reported>>
         \/ Promised!EndToldOfCommit(user) /\ user \in Users
<1>1. /\ user \in Users /\ queue \in [Users -> Seq(Batch)]
  BY DEF IInv, Types
<1>2. pipeline # <<>> /\ queue[user] # <<>>
  BY FrontFacts DEF Acknowledged
<1>3. PICK q \in Seq(Batch) : q = queue[user]
  BY <1>1
<1>4. /\ WritesOf(queue[user]) # <<>> /\ Head(WritesOf(queue[user])) = queue[user][1].write
  BY <1>2, <1>3, WritesOfTail
<1>5. PICK result \in {"committed", "rejected"} : result = "committed"
  OBVIOUS
<1>6. \/ reported' = reported
      \/ /\ reported' = [reported EXCEPT ![queue[user][1].write] = result]
         /\ reported[queue[user][1].write] = "none"
  BY <1>2, <1>5, ReportedFacts
<1> QED
  BY <1>1, <1>4, <1>5, <1>6 DEF Promised!EndToldOfCommit, Promised!Report

\* The client implements WriteQueue: no write is lost, settled out of turn,
\* or reported twice, whatever fails and whoever signs in.
THEOREM QueueRefinement == Spec => QueueSpec
<1>1. Init => Promised!Init
  <2>1. WritesOf(<<>>) = <<>>
    BY DEF WritesOf
  <2>2. ASSUME Init PROVE [u \in Users |-> WritesOf(queue[u])] = [u \in Users |-> <<>>]
    <3>1. queue = [u \in Users |-> <<>>]
      BY <2>2 DEF Init
    <3> QED
      BY <2>1, <3>1
  <2> QED
    BY <2>2 DEF Init, Promised!Init
<1>2. ASSUME IInv, Next
      PROVE  Promised!Next \/ UNCHANGED <<[u \in Users |-> WritesOf(queue[u])], reported>>
  <2>1. CASE MutationResult
    <3>1. /\ pipeline # <<>> /\ RemoveBatch(Head(pipeline)) /\ NotifyUser(Head(pipeline), "committed")
      BY <2>1 DEF MutationResult, Acknowledged
    <3>2. PICK result \in {"committed", "rejected"} : result = "committed"
      OBVIOUS
    <3> QED
      BY <1>2, <3>1, <3>2, FrontSettles DEF Promised!Next
  <2>2. CASE WriteRejected
    <3>1. /\ pipeline # <<>> /\ RemoveBatch(Head(pipeline)) /\ NotifyUser(Head(pipeline), "rejected")
      BY <2>2 DEF WriteRejected
    <3>2. PICK result \in {"committed", "rejected"} : result = "rejected"
      OBVIOUS
    <3> QED
      BY <1>2, <3>1, <3>2, FrontSettles DEF Promised!Next
  <2>3. CASE Runs(work[1].do = "write" /\ WriteMutations(work[1].of))
    BY <1>2, <2>3, WritePersists DEF Promised!Next
  <2>4. CASE ~MutationResult /\ ~WriteRejected /\ queue' = queue
    <3>1. reported' = reported \/ (Acknowledged /\ Tell(Head(pipeline), "committed"))
      BY <1>2, <2>4, OthersReportNothing DEF IInv
    <3> QED
      BY <1>2, <2>4, <3>1, EndTells DEF Promised!Next
  <2> QED
    BY <1>2, <2>1, <2>2, <2>3, <2>4, OthersKeepQueues DEF IInv
<1>3. UNCHANGED writeVars => UNCHANGED <<[u \in Users |-> WritesOf(queue[u])], reported>>
  BY DEF writeVars, localVars
<1> QED
  BY <1>1, <1>2, <1>3, Invariance, PTL DEF Spec, QueueSpec, Promised!Spec
-----------------------------------------------------------------------------
(***************************************************************************)
(* Nothing is left waiting: the safety half of WritesSettle.  While the    *)
(* network is enabled and the user's queue is not empty, something is      *)
(* under way that brings its first write further: a delay, a token, or     *)
(* something to read or to handle on the stream.                           *)
(***************************************************************************)

\* The pipeline is filled from the queue, and a stream sends it.
ActiveInv == enabled =>
  /\ queue[user] # <<>> => pipeline # <<>>
  /\ pipeline # <<>> => IsStarted

\* The stream that starts will be told of a token, or that there is none.
TokenAwaited == (\E f \in fetching : f.closes = closes) \/ (\E i \in DOMAIN work : Awaited(work[i]))

AwaitedInv == state = "Starting" => TokenAwaited

NeverStranded ==
  (enabled /\ queue[user] # <<>>) =>
    \/ state = "Backoff"
    \/ state = "Starting" /\ TokenAwaited
    \/ IsOpen /\ (~greeted \/ replies # <<>> \/ wire # <<>>)

\* FillWritePipeline leaves nothing in the queue behind an empty pipeline, and
\* starts the stream if there is something to send.
LEMMA FillActive ==
  ASSUME NEW q \in Seq(Batch), NEW p \in Seq(Batch), Ordered(q), FrontOf(p, q),
         Len(p) <= MaxPending, NEW sent \in Seq(Writes),
         NEW s \in States, NEW h, NEW marked, NEW asked, enabled',
         FillWritePipeline(q, p, s, h, sent, marked, asked)
  PROVE  /\ q # <<>> => pipeline' # <<>>
         /\ pipeline' # <<>> => IsStarted'
<1>1. /\ pipeline' \in Seq(Batch) /\ Len(p) <= Len(pipeline')
      /\ state' = IF enabled' /\ pipeline' # <<>> /\ s = "Error" THEN "Backoff"
                  ELSE IF enabled' /\ pipeline' # <<>> /\ s = "Initial" THEN "Starting"
                  ELSE s
  BY FillFacts
<1>2. pipeline' # <<>> => IsStarted'
  BY <1>1 DEF IsStarted, States
<1>3. ASSUME q # <<>> PROVE pipeline' # <<>>
  <2>1. CASE p # <<>>
    <3>1. Len(p) > 0
      BY <2>1
    <3>2. Len(pipeline') > 0
      BY <1>1, <3>1
    <3> QED
      BY <3>2
  <2>2. CASE p = <<>>
    <3> DEFINE most == IF Len(q) < 0 + Room(p) THEN Len(q) ELSE 0 + Room(p)
               new == NextBatches(q, p)
    <3>1. Len(p) = 0 /\ Len(q) \in Nat \ {0} /\ Room(p) = MaxPending
      BY <1>3, <2>2 DEF Room
    <3>2. most \in 1..Len(q)
      BY <3>1
    <3>3. new = SubSeq(q, 0 + 1, most)
      BY <3>1, RetrievedIsFront DEF NextBatches
    <3> HIDE DEF most
    <3>4. new \in Seq(Batch) /\ Len(new) > 0
      BY <3>1, <3>2, <3>3, SubSeqFacts
    <3>5. pipeline' = p \o new
      BY DEF FillWritePipeline
    <3> HIDE DEF new
    <3>6. Len(pipeline') = Len(p) + Len(new)
      BY <3>4, <3>5, ConcatFacts
    <3> QED
      BY <3>1, <3>4, <3>6
  <2> QED
    BY <2>1, <2>2
<1> QED
  BY <1>2, <1>3

\* Filling the pipeline of the user's queue q, with p left of it.
LEMMA ActiveFilled ==
  ASSUME NEW q \in Seq(Batch), NEW p \in Seq(Batch), Ordered(q), FrontOf(p, q),
         Len(p) <= MaxPending, NEW sent \in Seq(Writes),
         NEW s \in States, NEW h, NEW marked, NEW asked,
         FillWritePipeline(q, p, s, h, sent, marked, asked),
         queue'[user'] = q
  PROVE  ActiveInv'
BY FillActive DEF ActiveInv

\* Steps that leave stream and pipeline alone.
LEMMA ActiveKept ==
  ASSUME ActiveInv, UNCHANGED <<enabled, user, queue, pipeline>>, IsStarted => IsStarted'
  PROVE  ActiveInv'
BY DEF ActiveInv

\* Opening the streams anew fills the pipeline.
LEMMA ActiveRestarted ==
  ASSUME IInv, ActiveInv, NEW u \in Users, RestartNetwork(u), user' = u, queue' = queue,
         enabled' = enabled
  PROVE  ActiveInv'
<1>1. CASE enabled
  <2>1. PICK q \in Seq(Batch) : q = queue[u]
    BY QueueTypes DEF IInv
  <2>2. PICK p \in Seq(Batch), sent \in Seq(Writes), s \in States :
          /\ p = <<>> /\ FrontOf(p, q) /\ Len(p) <= MaxPending
          /\ sent = <<>> /\ s = "Initial"
    <3>1. <<>> \in Seq(Writes) /\ "Initial" \in States
      BY DEF States
    <3>2. <<>> \in Seq(Batch) /\ FrontOf(<<>>, q) /\ Len(<<>>) <= MaxPending
      BY EmptyFront
    <3> QED
      BY <3>1, <3>2, Zenon
  <2>3. FillWritePipeline(q, p, s, FALSE, sent, FALSE, fetching)
    BY <1>1, <2>1, <2>2 DEF RestartNetwork
  <2>4. Ordered(q) /\ queue'[user'] = q
    BY <2>1 DEF IInv, QueueInv
  <2> QED
    BY <2>2, <2>3, <2>4, ActiveFilled
<1>2. CASE ~enabled
  BY <1>2 DEF ActiveInv
<1> QED
  BY <1>1, <1>2

\* The tasks of the worker queue keep ActiveInv.
LEMMA ActiveOfTask ==
  ASSUME IInv, ActiveInv, RunTask
  PROVE  ActiveInv'
<1>0. /\ user \in Users /\ state \in States /\ wire \in Seq(Writes) /\ work # <<>>
      /\ pipeline \in Seq(Batch) /\ Len(pipeline) <= MaxPending
      /\ PipelineInv /\ queue[user] \in Seq(Batch) /\ Ordered(queue[user])
  BY QueueTypes DEF IInv, Types, States, RunTask, QueueInv
<1>1. PICK p \in Seq(Batch), sent \in Seq(Writes), s \in States :
        p = pipeline /\ sent = wire /\ s = state
  BY <1>0, Zenon
<1>2. ASSUME work[1].do = "write", WriteMutations(work[1].of) PROVE ActiveInv'
  <2>1. /\ work[1].of \in Writes /\ \A i \in DOMAIN queue[user] : queue[user][i].write < work[1].of
    BY <1>0, <1>2, TaskFrame, FirstWrite DEF IInv
  <2>2. PICK w \in Writes : w = work[1].of
    BY <2>1
  <2>3. /\ queue' = [queue EXCEPT ![user] = Append(@, [id |-> nextId, write |-> w])]
        /\ FillWritePipeline(queue'[user], pipeline, state, handshake, wire, idle, fetching)
        /\ user' = user
    BY <1>2, <2>2, Zenon DEF WriteMutations
  <2>4. queue'[user] \in Seq(Batch) /\ Ordered(queue'[user]) /\ FrontOf(pipeline, queue'[user])
    BY <2>1, <2>2, <2>3, PersistFacts
  <2>5. PICK q \in Seq(Batch) : q = queue'[user]
    BY <2>4, Zenon
  <2>6. FillWritePipeline(q, p, s, handshake, sent, idle, fetching)
    BY <1>1, <2>3, <2>5
  <2>7. Ordered(q) /\ FrontOf(p, q) /\ Len(p) <= MaxPending /\ queue'[user'] = q
    BY <1>0, <1>1, <2>3, <2>4, <2>5
  <2> QED
    BY <2>6, <2>7, ActiveFilled
<1>3. ASSUME RunEnable PROVE ActiveInv'
  <2>1. PICK q \in Seq(Batch) : q = queue[user]
    BY <1>0, Zenon
  <2>2. /\ FillWritePipeline(q, p, s, handshake, sent, idle, fetching)
        /\ queue'[user'] = q
    BY <1>1, <1>3, <2>1 DEF RunEnable, localVars
  <2>3. Ordered(q) /\ FrontOf(p, q) /\ Len(p) <= MaxPending
    BY <1>0, <1>1, <2>1 DEF PipelineInv
  <2> QED
    BY <2>2, <2>3, ActiveFilled
<1>4. ASSUME RunDisable PROVE ActiveInv'
  BY <1>4 DEF RunDisable, ActiveInv
<1>5. ASSUME Reconnect PROVE ActiveInv'
  BY <1>0, <1>5, ActiveRestarted DEF Reconnect, localVars
<1>6. ASSUME work[1].do = "credential", HandleCredentialChange(work[1].of) PROVE ActiveInv'
  BY <1>0, <1>6, HeadOfWork, TaskFields, ActiveRestarted DEF HandleCredentialChange, IInv
<1>7. ASSUME ResumeStart(work[1].of) PROVE ActiveInv'
  BY <1>7, ActiveKept DEF ResumeStart, localVars, IsStarted
<1>8. ASSUME StartFails PROVE ActiveInv'
  BY <1>8 DEF StartFails, localVars, FailedTo, ActiveInv, IsStarted
<1>9. ASSUME Skips PROVE ActiveInv'
  BY <1>9, ActiveKept DEF Skips, localVars, remoteVars, IsStarted
<1> QED
  BY <1>2, <1>3, <1>4, <1>5, <1>6, <1>7, <1>8, <1>9, TaskCases DEF Runs, IInv

\* So does what settles the first write.
LEMMA ActiveOfAnswer ==
  ASSUME IInv, ActiveInv, MutationResult \/ WriteRejected
  PROVE  ActiveInv'
<1>1. pipeline # <<>> /\ RemoveBatch(Head(pipeline)) /\ user' = user
  BY DEF MutationResult, Acknowledged, WriteRejected
<1>2. /\ queue'[user] \in Seq(Batch) /\ Ordered(queue'[user])
      /\ Tail(pipeline) \in Seq(Batch) /\ Len(Tail(pipeline)) = Len(pipeline) - 1
      /\ FrontOf(Tail(pipeline), queue'[user])
  BY <1>1, RemoveFacts
<1>3. PICK q \in Seq(Batch), p \in Seq(Batch) : q = queue'[user] /\ p = Tail(pipeline)
  BY <1>2, Zenon
<1>4. Ordered(q) /\ FrontOf(p, q) /\ Len(p) <= MaxPending /\ queue'[user'] = q
  BY <1>1, <1>2, <1>3, PipelineTypes DEF IInv
<1>5. CASE MutationResult
  <2>1. PICK s \in States, sent \in Seq(Writes) : s = state /\ sent = wire
    BY DEF IInv, Types, States
  <2>2. FillWritePipeline(q, p, s, handshake, sent, idle, fetching)
    BY <1>3, <1>5, <2>1 DEF MutationResult, Acknowledged
  <2> QED
    BY <1>4, <2>2, ActiveFilled
<1>6. CASE WriteRejected
  <2>1. PICK s \in States, sent \in Seq(Writes) : s = "Initial" /\ sent = <<>>
    <3>1. <<>> \in Seq(Writes) /\ "Initial" \in States
      BY DEF States
    <3> QED
      BY <3>1, Zenon
  <2>2. FillWritePipeline(q, p, s, FALSE, sent, FALSE, fetching)
    BY <1>3, <1>6, <2>1 DEF WriteRejected
  <2> QED
    BY <1>4, <2>2, ActiveFilled
<1> QED
  BY <1>5, <1>6

\* Every step keeps ActiveInv.
LEMMA ActiveStep ==
  ASSUME IInv, ActiveInv, [Next]_writeVars
  PROVE  ActiveInv'
<1>1. CASE \/ SetData \/ EnableNetwork \/ DisableNetwork \/ ConnectivityChanges
           \/ (\E u \in Users : AuthStateDidChange(u))
           \/ (\E f \in fetching : Fetched(f))
  <2>1. UNCHANGED <<localVars, remoteVars>>
    BY <1>1 DEF SetData, EnableNetwork, DisableNetwork, ConnectivityChanges, AuthStateDidChange,
      Fetched, AuthToken, CredentialsReady, CredentialsFail
  <2> QED
    BY <2>1, ActiveKept DEF localVars, remoteVars, IsStarted
<1>2. CASE RunTask
  BY <1>2, ActiveOfTask
<1>3. CASE MutationResult \/ WriteRejected
  BY <1>3, ActiveOfAnswer
<1>4. CASE HandshakeComplete
  BY <1>4, ActiveKept DEF HandshakeComplete, localVars, IsStarted
<1>5. CASE StreamFails
  BY <1>5 DEF StreamFails, localVars, FailedTo, ActiveInv, IsStarted
<1>6. CASE BackoffElapsed
  BY <1>6, ActiveKept DEF BackoffElapsed, localVars, IsStarted
<1>7. CASE IdleTimeout
  <2>1. pipeline = <<>>
    BY <1>7 DEF IdleTimeout, IInv, StreamInv
  <2> QED
    BY <1>7, <2>1 DEF IdleTimeout, localVars, ActiveInv
<1>8. CASE Serve
  BY <1>8, ActiveKept DEF Serve, Greet, Commit, Refuse, localVars, remoteVars, IsStarted
<1>9. CASE Launch
  <2>1. authUser \in Users
    BY DEF IInv, Types
  <2>2. PICK q \in Seq(Batch) : q = queue[authUser]
    BY <2>1, QueueTypes DEF IInv
  <2>3. PICK p \in Seq(Batch), sent \in Seq(Writes), s \in States :
          /\ p = <<>> /\ FrontOf(p, q) /\ Len(p) <= MaxPending
          /\ sent = <<>> /\ s = "Initial"
    <3>1. <<>> \in Seq(Writes) /\ "Initial" \in States
      BY DEF States
    <3>2. <<>> \in Seq(Batch) /\ FrontOf(<<>>, q) /\ Len(<<>>) <= MaxPending
      BY EmptyFront
    <3> QED
      BY <3>1, <3>2, Zenon
  <2>4. FillWritePipeline(q, p, s, FALSE, sent, FALSE, {}) /\ queue'[user'] = q
    BY <1>9, <2>2, <2>3, Zenon DEF Launch
  <2>5. Ordered(q)
    BY <2>1, <2>2 DEF IInv, QueueInv
  <2> QED
    BY <2>3, <2>4, <2>5, ActiveFilled
<1>10. CASE UNCHANGED writeVars
  BY <1>10, ActiveKept DEF writeVars, localVars, remoteVars, IsStarted
<1> QED
  BY <1>1, <1>2, <1>3, <1>4, <1>5, <1>6, <1>7, <1>8, <1>9, <1>10 DEF Next, Read

\* A stream that starts now has asked for a token of this life.
LEMMA AwaitedAnew ==
  ASSUME state' = "Starting" => Request(closes') \in fetching'
  PROVE  AwaitedInv'
BY DEF AwaitedInv, TokenAwaited, Request

\* What waits for a token stays.
LEMMA AwaitedKept ==
  ASSUME AwaitedInv, state' = state, closes' = closes, fetching \subseteq fetching',
         \A i \in DOMAIN work : Awaited(work[i]) => \E j \in DOMAIN work' : work'[j] = work[i]
  PROVE  AwaitedInv'
<1>1. ASSUME NEW i \in DOMAIN work, Awaited(work[i])
      PROVE  \E j \in DOMAIN work' : Awaited(work[j])'
  BY <1>1 DEF Awaited
<1> QED
  BY <1>1 DEF AwaitedInv, TokenAwaited

\* The pipeline is filled with the stream closed: one that starts is new.
LEMMA AwaitedReopened ==
  ASSUME NEW q, NEW p, NEW s, NEW h, NEW sent, NEW marked, NEW asked,
         s = "Initial", FillWritePipeline(q, p, s, h, sent, marked, asked)
  PROVE  AwaitedInv'
BY FillStarts, AwaitedAnew

\* The pipeline is filled with the stream as it is.
LEMMA AwaitedFilled ==
  ASSUME AwaitedInv, NEW q, NEW p, NEW s, NEW h, NEW sent, NEW marked, NEW asked,
         FillWritePipeline(q, p, s, h, sent, marked, asked),
         s = state, asked = fetching,
         s # "Initial" => closes' = closes,
         \A i \in DOMAIN work : Awaited(work[i]) => \E j \in DOMAIN work' : work'[j] = work[i]
  PROVE  AwaitedInv'
<1>1. CASE s = "Initial"
  BY <1>1, AwaitedReopened
<1>2. CASE s = "Error"
  <2>1. state' # "Starting"
    BY <1>2, FillStarts
  <2> QED
    BY <2>1, AwaitedAnew
<1>3. CASE s \notin {"Initial", "Error"}
  <2>1. state' = state /\ fetching' = fetching /\ s = state /\ closes' = closes
    BY <1>3, FillStarts
  <2>2. CASE state = "Starting"
    BY <2>1, <2>2, AwaitedKept
  <2>3. CASE state # "Starting"
    BY <2>1, <2>3, AwaitedAnew
  <2> QED
    BY <2>2, <2>3
<1> QED
  BY <1>1, <1>2, <1>3

\* A task appended leaves the others where they are.
LEMMA WorkStays ==
  ASSUME Types, NEW t, work' = Append(work, t)
  PROVE  /\ \A i \in DOMAIN work : i \in DOMAIN work' /\ work'[i] = work[i]
         /\ \E i \in DOMAIN work' : work'[i] = t
<1>1. PICK S : S = Task \cup {t}
  OBVIOUS
<1>2. work \in Seq(S) /\ t \in S
  <2>1. work \in Seq(Task) /\ Task \subseteq S
    BY <1>1 DEF Types
  <2> QED
    BY <1>1, <2>1
<1>3. /\ work' \in Seq(S) /\ Len(work') = Len(work) + 1
      /\ \A i \in 1..Len(work) : work'[i] = work[i]
      /\ work'[Len(work) + 1] = t
  BY <1>2, AppendFacts
<1>4. /\ DOMAIN work = 1..Len(work) /\ Len(work) \in Nat
      /\ DOMAIN work' = 1..Len(work')
  BY <1>2, <1>3, ElementFacts
<1> QED
  BY <1>3, <1>4

\* A task that is run leaves the others.
LEMMA WorkLeft ==
  ASSUME Types, RunTask
  PROVE  \A i \in DOMAIN work : i # 1 => \E j \in DOMAIN work' : work'[j] = work[i]
<1>1. work \in Seq(Task) /\ work # <<>> /\ work' = Tail(work)
  BY DEF Types, RunTask
<1>2. ASSUME NEW i \in DOMAIN work, i # 1
      PROVE  i - 1 \in DOMAIN work' /\ work'[i - 1] = work[i]
  BY <1>1, <1>2
<1> QED
  BY <1>2

\* Opening the streams anew.
LEMMA AwaitedRestarted ==
  ASSUME IInv, AwaitedInv, NEW u, RestartNetwork(u)
  PROVE  AwaitedInv'
<1>1. CASE enabled
  <2>1. PICK s, p, sent : s = "Initial" /\ p = <<>> /\ sent = <<>>
    OBVIOUS
  <2>2. FillWritePipeline(queue[u], p, s, FALSE, sent, FALSE, fetching)
    BY <1>1, <2>1 DEF RestartNetwork
  <2> QED
    BY <2>1, <2>2, AwaitedReopened
<1>2. CASE ~enabled
  <2>1. state # "Starting" /\ state' = state
    BY <1>2 DEF RestartNetwork, IInv, StreamInv, IsStarted
  <2> QED
    BY <2>1, AwaitedAnew
<1> QED
  BY <1>1, <1>2 DEF RestartNetwork

\* Steps of the app and of the token providers keep AwaitedInv: a token that
\* has come waits in the worker queue.
LEMMA AwaitedOfAppStep ==
  ASSUME IInv, AwaitedInv,
         \/ SetData \/ EnableNetwork \/ DisableNetwork \/ ConnectivityChanges
         \/ (\E u \in Users : AuthStateDidChange(u))
         \/ (\E f \in fetching : Fetched(f))
  PROVE  AwaitedInv'
<1>0. state' = state /\ closes' = closes /\ Types
  BY DEF SetData, EnableNetwork, DisableNetwork, ConnectivityChanges, AuthStateDidChange, Fetched,
         AuthToken, CredentialsReady, CredentialsFail, remoteVars, IInv
<1>1. CASE \/ SetData \/ EnableNetwork \/ DisableNetwork \/ ConnectivityChanges
           \/ (\E u \in Users : AuthStateDidChange(u))
  <2>1. fetching' = fetching /\ \E t : work' = Append(work, t)
    BY <1>1 DEF SetData, EnableNetwork, DisableNetwork, ConnectivityChanges, AuthStateDidChange,
      Enqueue
  <2> QED
    BY <1>0, <2>1, WorkStays, AwaitedKept
<1>2. ASSUME NEW f \in fetching, Fetched(f) PROVE AwaitedInv'
  <2>1. CASE AuthToken(f)
    <3> DEFINE g == [f EXCEPT !.got = authUser]
    <3>1. g.closes = f.closes
      BY DEF IInv, Types
    <3>2. fetching' = (fetching \ {f}) \cup {g} /\ work' = work
      BY <2>1 DEF AuthToken
    <3> HIDE DEF g
    <3>3. TokenAwaited => TokenAwaited'
      BY <1>0, <3>1, <3>2 DEF TokenAwaited, Awaited
    <3> QED
      BY <1>0, <3>3 DEF AwaitedInv
  <2>2. CASE CredentialsReady(f) \/ CredentialsFail(f)
    <3>1. PICK t : /\ work' = Append(work, t) /\ fetching' = fetching \ {f}
                   /\ t.do \in {"token", "noToken"} /\ t.closes = f.closes
      BY <2>2 DEF CredentialsReady, CredentialsFail, Enqueue
    <3>2. /\ \A i \in DOMAIN work : i \in DOMAIN work' /\ work'[i] = work[i]
          /\ \E i \in DOMAIN work' : work'[i] = t
      BY <1>0, <3>1, WorkStays
    <3>3. TokenAwaited => TokenAwaited'
      BY <1>0, <3>1, <3>2 DEF TokenAwaited, Awaited
    <3> QED
      BY <1>0, <3>3 DEF AwaitedInv
  <2> QED
    BY <1>2, <2>1, <2>2 DEF Fetched
<1> QED
  BY <1>1, <1>2

\* Tasks keep it: the one that brings the awaited token ends the starting.
LEMMA AwaitedOfTask ==
  ASSUME IInv, AwaitedInv, RunTask
  PROVE  AwaitedInv'
<1>1. \A i \in DOMAIN work : i # 1 => \E j \in DOMAIN work' : work'[j] = work[i]
  BY WorkLeft DEF IInv
<1>2. work[1].do \notin {"token", "noToken"} =>
        \A i \in DOMAIN work : Awaited(work[i]) => \E j \in DOMAIN work' : work'[j] = work[i]
  BY <1>1 DEF Awaited
<1>3. ASSUME work[1].do = "write", WriteMutations(work[1].of) PROVE AwaitedInv'
  <2>1. /\ FillWritePipeline(queue'[user], pipeline, state, handshake, wire, idle, fetching)
        /\ closes' = closes
    BY <1>3, Zenon DEF WriteMutations
  <2> QED
    BY <1>2, <1>3, <2>1, AwaitedFilled
<1>4. ASSUME work[1].do = "enable", RunEnable PROVE AwaitedInv'
  <2>1. /\ FillWritePipeline(queue[user], pipeline, state, handshake, wire, idle, fetching)
        /\ closes' = closes
    BY <1>4 DEF RunEnable
  <2> QED
    BY <1>2, <1>4, <2>1, AwaitedFilled
<1>5. ASSUME RunDisable PROVE AwaitedInv'
  <2>1. state' # "Starting"
    BY <1>5 DEF RunDisable, Stopped, IsStarted
  <2> QED
    BY <2>1, AwaitedAnew
<1>6. ASSUME Reconnect PROVE AwaitedInv'
  BY <1>6, AwaitedRestarted DEF Reconnect
<1>7. ASSUME HandleCredentialChange(work[1].of) PROVE AwaitedInv'
  BY <1>7, AwaitedRestarted DEF HandleCredentialChange
<1>8. ASSUME ResumeStart(work[1].of) \/ StartFails PROVE AwaitedInv'
  <2>1. state' # "Starting"
    BY <1>8 DEF ResumeStart, StartFails, FailedTo
  <2> QED
    BY <2>1, AwaitedAnew
<1>9. ASSUME Skips PROVE AwaitedInv'
  <2>1. UNCHANGED <<state, closes, fetching>> /\ ~Awaited(work[1])
    BY <1>9 DEF Skips, remoteVars, Awaited, SameLife
  <2> QED
    BY <1>1, <2>1, AwaitedKept
<1> QED
  BY <1>3, <1>4, <1>5, <1>6, <1>7, <1>8, <1>9, TaskCases DEF Runs, IInv

\* Every step keeps it.
LEMMA AwaitedStep ==
  ASSUME IInv, AwaitedInv, [Next]_writeVars
  PROVE  AwaitedInv'
<1>1. CASE \/ SetData \/ EnableNetwork \/ DisableNetwork \/ ConnectivityChanges
           \/ (\E u \in Users : AuthStateDidChange(u))
           \/ (\E f \in fetching : Fetched(f))
  BY <1>1, AwaitedOfAppStep
<1>2. CASE RunTask
  BY <1>2, AwaitedOfTask
<1>3. CASE HandshakeComplete \/ Serve \/ UNCHANGED writeVars
  <2>1. UNCHANGED <<state, closes, fetching, work>>
    BY <1>3 DEF HandshakeComplete, Serve, Greet, Commit, Refuse, remoteVars, writeVars
  <2> QED
    BY <2>1, AwaitedKept
<1>4. CASE MutationResult
  <2>1. /\ FillWritePipeline(queue'[user], Tail(pipeline), state, handshake, wire, idle, fetching)
        /\ UNCHANGED <<closes, work>>
    BY <1>4 DEF MutationResult, Acknowledged
  <2> QED
    BY <2>1, AwaitedFilled
<1>5. CASE WriteRejected
  <2>1. PICK s, sent : s = "Initial" /\ sent = <<>>
    OBVIOUS
  <2>2. FillWritePipeline(queue'[user], Tail(pipeline), s, FALSE, sent, FALSE, fetching)
    BY <1>5, <2>1 DEF WriteRejected
  <2> QED
    BY <2>1, <2>2, AwaitedReopened
<1>6. CASE StreamFails \/ IdleTimeout
  <2>1. state' # "Starting"
    BY <1>6 DEF StreamFails, IdleTimeout, FailedTo, Stopped, IsStarted
  <2> QED
    BY <2>1, AwaitedAnew
<1>7. CASE BackoffElapsed
  BY <1>7, AwaitedAnew DEF BackoffElapsed
<1>8. CASE Launch
  <2>1. PICK s, p, sent, asked : s = "Initial" /\ p = <<>> /\ sent = <<>> /\ asked = {}
    OBVIOUS
  <2>2. FillWritePipeline(queue[authUser], p, s, FALSE, sent, FALSE, asked)
    BY <1>8, <2>1, Zenon DEF Launch
  <2> QED
    BY <2>1, <2>2, AwaitedReopened
<1> QED
  BY <1>1, <1>2, <1>3, <1>4, <1>5, <1>6, <1>7, <1>8 DEF Next, Read

\* A user's queue is never stranded: while the network is enabled and it is
\* not empty, a delay, a token or something on the stream is on its way,
\* whatever was disabled, closed, idle, refused or launched again before
\* (remote_store.cc: FillWritePipeline, OnWriteStreamClose).
THEOREM Unstranded == Spec => []NeverStranded
<1>1. Init => ActiveInv /\ AwaitedInv
  BY DEF Init, ActiveInv, AwaitedInv
<1>2. IInv /\ ActiveInv /\ AwaitedInv => NeverStranded
  <2> SUFFICES ASSUME IInv, ActiveInv, AwaitedInv, enabled, queue[user] # <<>>
               PROVE  \/ state = "Backoff"
                      \/ state = "Starting" /\ TokenAwaited
                      \/ IsOpen /\ (~greeted \/ replies # <<>> \/ wire # <<>>)
    BY DEF NeverStranded
  <2>1. pipeline # <<>> /\ IsStarted
    BY DEF ActiveInv
  <2>2. /\ replies \in Seq(Writes \cup {Hello}) /\ wire \in Seq(Writes)
        /\ Len(pipeline) \in Nat \ {0} /\ StreamInv
    BY <2>1, PipelineTypes DEF IInv, Types
  <2>3. IsOpen /\ handshake => replies # <<>> \/ wire # <<>>
    <3>1. (replies = <<>> => Len(replies) = 0) /\ (wire = <<>> => Len(wire) = 0)
      OBVIOUS
    <3> QED
      BY <2>2, <3>1 DEF StreamInv
  <2>4. IsOpen /\ ~handshake => ~greeted \/ replies # <<>>
    <3>1. replies = <<>> => Len(replies) = 0
      OBVIOUS
    <3> QED
      BY <2>2, <3>1 DEF StreamInv
  <2> QED
    BY <2>1, <2>3, <2>4 DEF IsStarted, IsOpen, AwaitedInv
<1> QED
  BY <1>1, <1>2, ActiveStep, AwaitedStep, Invariance, PTL DEF Spec
=============================================================================
