--------------------------- MODULE RegistryProofs ---------------------------
(***************************************************************************)
(* The registries, for any number of names, sessions, owner threads and    *)
(* pages: peers end up knowing what is registered, every request is        *)
(* answered, broadcasts use sessions that exist, and subscriptions are to  *)
(* URIs that are known.                                                    *)
(***************************************************************************)
EXTENDS Registry, SequenceTheorems, FiniteSetTheorems, TLAPS

-----------------------------------------------------------------------------
(* The inductive invariant                                                 *)

States == {"none", "constructed", "attached", "initializing", "operating", "closed", "detached",
           "destroyed"}
Listable == {"tools", "resources", "templates", "prompts", "roots"}
Provided == {"resources", "templates"}      \* by a ResourceProvider
Cursors == 0..Cardinality(Names)
Answers == {"page", "error", "answer", "unsupported"}

\* What may be asked, what is under way and what is answered.
Requests == [what : {"list"}, cursor : Cursors]
            \cup [what : {"call", "subscribe", "unsubscribe"}, name : Names]
            \cup [what : {"setLevel"}, name : Levels]
Responses == [what : {"page"}, items : SUBSET Names, next : Cursors]
             \cup [what : {"error", "answer", "unsupported"}]
Bodies == {NoBody} \cup Requests \cup [what : {"run", "thrown", "terminated"}] \cup Responses
Notes == [what : {"changed", "message"}] \cup [what : {"updated"}, uri : Names]
Jobs == [at : {"idle", "call", "send"}, note : Notes \cup {NoBody}, todo : SUBSET Sessions]
Peers == [at : {"idle", "wait"}, cursor : Cursors, seen : SUBSET Names, view : SUBSET Names,
          stale : BOOLEAN, turn : {0} \cup 0..MaxTurns - 1]

\* The shape of the state: the registry, its owner's threads, its sessions.
ListTypes ==
    /\ kind \in ServerKinds \cup ClientKinds
    /\ list \in Seq(Names) /\ IsInjective(list)
    /\ others \subseteq Names /\ subs \subseteq Names /\ level \in Levels
    /\ kind \in Provided => subs \subseteq Range(list) \cup others

SessionTypes ==
    /\ attached \subseteq Sessions
    /\ declared \in [Sessions -> BOOLEAN]
    /\ state \in [Sessions -> States]

PeerTypes ==
    /\ serve \in [Sessions -> Bodies]
    /\ inbox \in [Sessions -> Seq(Notes \cup Responses)]
    /\ peer \in [Sessions -> Peers]

\* A thread that broadcasts has its notification, and goes through sessions
\* that are attached.
ThreadsBroadcast ==
    /\ thread \in [Threads -> Jobs]
    /\ \A t \in Threads :
          /\ thread[t].at # "idle" => thread[t].note \in Notes
          /\ thread[t].at # "send" => thread[t].todo = {}
          /\ thread[t].todo \subseteq attached

\* A session is attached before it connects and detached after it is closed,
\* with the callbacks set in between; a Client has one session at a time.
SessionsInOrder ==
    /\ callback \in BOOLEAN
    /\ \A s \in attached : state[s] \in {"attached", "initializing", "operating", "closed"}
    /\ \A s \in Sessions : state[s] \in {"initializing", "operating"} => callback
    /\ \A s \in Sessions :
          kind \in ServerKinds /\ state[s] \in {"attached", "initializing", "operating"} => s \in attached
    /\ kind \in ClientKinds =>
          /\ attached = {}
          /\ \A r, s \in Sessions :
                state[r] \notin {"none", "destroyed"} /\ state[s] \notin {"none", "destroyed"} => r = s

\* An answer is on its way.
Coming(s) == \E i \in DOMAIN inbox[s] : inbox[s][i].what \in Answers

\* Unless the session operates there is nothing between it and its peer; then
\* a request is under way, or has its one answer on the way, or there is none.
\* A session with the capability refuses nothing.
OneAnswer(s) ==
    /\ state[s] # "operating" => peer[s] = NewPeer /\ serve[s] = NoBody /\ inbox[s] = <<>>
    /\ peer[s].at = "idle" => serve[s].what = "none" /\ ~Coming(s)
    /\ peer[s].at = "wait" => serve[s].what # "none" \/ Coming(s)
    /\ serve[s].what # "none" => ~Coming(s)
    /\ \A i, j \in DOMAIN inbox[s] :
          inbox[s][i].what \in Answers /\ inbox[s][j].what \in Answers => i = j
    /\ declared[s] => /\ serve[s].what # "unsupported"
                      /\ \A i \in DOMAIN inbox[s] : inbox[s][i].what # "unsupported"
    /\ ~peer[s].stale => kind \in Listable

\* The peer will list again: it knows that it must, or list_changed is on its
\* way to it.
Announced(s) ==
    \E t \in Threads : /\ thread[t].note.what = "changed"
                       /\ thread[t].at = "call" \/ s \in thread[t].todo

Outdated(s) ==
    \/ peer[s].stale
    \/ \E i \in DOMAIN inbox[s] : inbox[s][i].what = "changed"
    \/ Announced(s)

\* The first n entries.
Upto(n) == {list[i] : i \in 1..n}

\* A page that continues what the peer has seen.
Fits(s, m) ==
    /\ m.next <= Len(list)
    /\ peer[s].seen \cup m.items = IF m.next = 0 THEN Range(list) ELSE Upto(m.next)

\* A listing is under way.
Listing(s) ==
    \/ peer[s].cursor # 0
    \/ serve[s].what \in {"list", "page", "error"}
    \/ \E i \in DOMAIN inbox[s] : inbox[s][i].what \in {"page", "error"}

\* Otherwise it has seen what is registered, as far as it has come.
Known(s) ==
    /\ peer[s].cursor <= Len(list) /\ peer[s].seen = Upto(peer[s].cursor)
    /\ serve[s].what = "list" => serve[s].cursor = peer[s].cursor
    /\ serve[s].what = "page" => Fits(s, serve[s])
    /\ \A i \in DOMAIN inbox[s] : inbox[s][i].what = "page" => Fits(s, inbox[s][i])
    /\ ~Listing(s) => peer[s].view = Range(list)

Knows(s) == state[s] = "operating" /\ declared[s] /\ ~Outdated(s) => Known(s)

Inv ==
    /\ ListTypes /\ SessionTypes /\ PeerTypes /\ ThreadsBroadcast /\ SessionsInOrder
    /\ \A s \in Sessions : OneAnswer(s) /\ Knows(s)

-----------------------------------------------------------------------------
(* The list and its pages                                                  *)

\* There are no more entries than names.
LEMMA ListBound ==
  ASSUME NEW q \in Seq(Names), IsInjective(q)
  PROVE  Len(q) \in Nat /\ Cardinality(Names) \in Nat /\ Len(q) <= Cardinality(Names)
  <1>1. Len(q) \in Nat /\ q \in [1..Len(q) -> Names] /\ DOMAIN q = 1..Len(q)
    BY LenProperties
  <1>2. IsFiniteSet(Names) /\ Cardinality(Names) \in Nat
    BY RegistryAssumption, FS_CardinalityType
  <1>3. IsFiniteSet(1..Len(q)) /\ Cardinality(1..Len(q)) = Len(q)
    BY <1>1, FS_Interval
  <1>4. ASSUME Cardinality(1..Len(q)) > Cardinality(Names) PROVE FALSE
    <2>1. \E x, y \in 1..Len(q) : x # y /\ q[x] = q[y]
      BY <1>1, <1>2, <1>3, <1>4, FS_PigeonHole
    <2> QED
      BY <1>1, <2>1 DEF IsInjective
  <1> QED
    BY <1>1, <1>2, <1>3, <1>4

\* A registry may start with all names.
LEMMA AllNames == SetToSeq(Names) \in Seq(Names) /\ IsInjective(SetToSeq(Names))
  <1> DEFINE n == Cardinality(Names)
  <1>1. IsFiniteSet(Names) /\ n \in Nat
    BY RegistryAssumption, FS_CardinalityType
  <1>2. \E f : f \in Bijection(1..n, Names)
    BY <1>1, FS_CardinalityType DEF ExistsBijection
  <1>3. \E f \in [1..n -> Names] : IsInjective(f)
    BY <1>2 DEF Bijection, Injection
  <1>4. SetToSeq(Names) \in [1..n -> Names] /\ IsInjective(SetToSeq(Names))
    BY <1>3 DEF SetToSeq
  <1> QED
    BY <1>1, <1>4, SeqDef

\* A name that was not registered is.
LEMMA Added ==
  ASSUME NEW q \in Seq(Names), IsInjective(q), NEW n \in Names, n \notin Range(q)
  PROVE  /\ Append(q, n) \in Seq(Names) /\ IsInjective(Append(q, n))
         /\ Range(q) \subseteq Range(Append(q, n))
  <1>1. /\ Append(q, n) \in Seq(Names) /\ Len(Append(q, n)) = Len(q) + 1
        /\ DOMAIN Append(q, n) = 1..(Len(q) + 1) /\ DOMAIN q = 1..Len(q) /\ Len(q) \in Nat
        /\ \A i \in 1..Len(q) : Append(q, n)[i] = q[i]
        /\ Append(q, n)[Len(q) + 1] = n
    BY AppendProperties, LenProperties
  <1> DEFINE a == Append(q, n)
  <1> HIDE DEF a
  <1>2. /\ DOMAIN a = 1..(Len(q) + 1) /\ \A i \in 1..Len(q) : a[i] = q[i]
        /\ a[Len(q) + 1] = n
    BY <1>1 DEF a
  <1>3. \A i \in 1..Len(q) : q[i] \in Range(q)
    BY <1>1 DEF Range
  <1>4. IsInjective(a)
    <2> SUFFICES ASSUME NEW i \in DOMAIN a, NEW j \in DOMAIN a, a[i] = a[j] PROVE i = j
      BY DEF IsInjective
    <2>1. i \in 1..Len(q) \/ i = Len(q) + 1
      BY <1>1, <1>2
    <2>2. j \in 1..Len(q) \/ j = Len(q) + 1
      BY <1>1, <1>2
    <2>3. CASE i \in 1..Len(q) /\ j \in 1..Len(q)
      BY <1>1, <1>2, <2>3 DEF IsInjective
    <2>4. CASE i = Len(q) + 1 /\ j \in 1..Len(q)
      BY <1>2, <1>3, <2>4
    <2>5. CASE j = Len(q) + 1 /\ i \in 1..Len(q)
      BY <1>2, <1>3, <2>5
    <2> QED
      BY <2>1, <2>2, <2>3, <2>4, <2>5
  <1>5. Range(q) \subseteq Range(a)
    <2> SUFFICES ASSUME NEW i \in 1..Len(q) PROVE q[i] \in Range(a)
      BY <1>1 DEF Range
    <2>1. i \in DOMAIN a /\ a[i] = q[i]
      BY <1>1, <1>2
    <2> QED
      BY <2>1 DEF Range
  <1> QED
    BY <1>1, <1>4, <1>5 DEF a

\* What RemoveAt leaves.
LEMMA RemovedAt ==
  ASSUME NEW q \in Seq(Names), NEW k \in 1..Len(q)
  PROVE  /\ RemoveAt(q, k) \in Seq(Names) /\ Len(RemoveAt(q, k)) = Len(q) - 1
         /\ \A i \in 1..(Len(q) - 1) :
               RemoveAt(q, k)[i] = IF i < k THEN q[i] ELSE q[i + 1]
  <1>1. Len(q) \in Nat /\ k \in Int /\ 1 <= k /\ k <= Len(q) /\ \A i \in 1..Len(q) : q[i] \in Names
    BY LenProperties, ElementOfSeq
  <1> DEFINE a == SubSeq(q, 1, k - 1)
             b == SubSeq(q, k + 1, Len(q))
  <1>2. /\ \A i \in 1..(k - 1) : q[i] \in Names
        /\ \A i \in (k + 1)..Len(q) : q[i] \in Names
    BY <1>1
  <1>3. a \in Seq(Names) /\ Len(a) = k - 1 /\ \A i \in 1..(k - 1) : a[i] = q[i]
    <2>1. /\ a \in Seq(Names)
          /\ Len(a) = IF 1 <= k - 1 THEN (k - 1) - 1 + 1 ELSE 0
          /\ \A i \in 1..((k - 1) - 1 + 1) : a[i] = q[1 + i - 1]
      BY <1>1, <1>2, SubSeqProperties
    <2> HIDE DEF a
    <2> QED
      BY <1>1, <2>1
  <1>4. b \in Seq(Names) /\ Len(b) = Len(q) - k /\ \A i \in 1..(Len(q) - k) : b[i] = q[k + i]
    <2>1. /\ b \in Seq(Names)
          /\ Len(b) = IF k + 1 <= Len(q) THEN Len(q) - (k + 1) + 1 ELSE 0
          /\ \A i \in 1..(Len(q) - (k + 1) + 1) : b[i] = q[k + 1 + i - 1]
      BY <1>1, <1>2, SubSeqProperties
    <2> HIDE DEF b
    <2> QED
      BY <1>1, <2>1
  <1>5. RemoveAt(q, k) = a \o b
    BY DEF RemoveAt
  <1> HIDE DEF a, b
  <1>6. /\ a \o b \in Seq(Names) /\ Len(a \o b) = Len(a) + Len(b)
        /\ \A i \in 1..(Len(a) + Len(b)) :
              (a \o b)[i] = IF i <= Len(a) THEN a[i] ELSE b[i - Len(a)]
    BY <1>3, <1>4, ConcatProperties
  <1>7. Len(a \o b) = Len(q) - 1
    BY <1>1, <1>3, <1>4, <1>6
  <1>8. ASSUME NEW i \in 1..(Len(q) - 1)
        PROVE  (a \o b)[i] = IF i < k THEN q[i] ELSE q[i + 1]
    <2>1. (a \o b)[i] = IF i <= k - 1 THEN a[i] ELSE b[i - (k - 1)]
      BY <1>1, <1>3, <1>4, <1>6
    <2>2. CASE i < k
      <3>1. i \in 1..(k - 1)
        BY <1>1, <2>2
      <3> QED
        BY <1>1, <1>3, <2>1, <2>2, <3>1
    <2>3. CASE ~(i < k)
      <3>1. i - (k - 1) \in 1..(Len(q) - k) /\ k + (i - (k - 1)) = i + 1 /\ ~(i <= k - 1)
        BY <1>1, <2>3
      <3> QED
        BY <1>4, <2>1, <2>3, <3>1
    <2> QED
      BY <2>2, <2>3
  <1> QED
    BY <1>5, <1>6, <1>7, <1>8

\* A name that was registered is not any more; the others are.
LEMMA Removed ==
  ASSUME list \in Seq(Names), IsInjective(list), NEW n \in Names, n \in Range(list)
  PROVE  /\ Without(n) \in Seq(Names) /\ IsInjective(Without(n))
         /\ Range(list) \ {n} \subseteq Range(Without(n))
  <1> DEFINE k == CHOOSE i \in DOMAIN list : list[i] = n
             r == Without(n)
  <1>1. k \in DOMAIN list /\ list[k] = n
    BY DEF Range
  <1>2. DOMAIN list = 1..Len(list) /\ Len(list) \in Nat
    BY LenProperties
  <1>3. r = RemoveAt(list, k)
    BY DEF Without
  <1> HIDE DEF k, r
  <1>4. k \in 1..Len(list)
    BY <1>1, <1>2
  <1>5. /\ r \in Seq(Names) /\ Len(r) = Len(list) - 1 /\ DOMAIN r = 1..(Len(list) - 1)
        /\ \A i \in 1..(Len(list) - 1) : r[i] = IF i < k THEN list[i] ELSE list[i + 1]
    <2>1. /\ r \in Seq(Names) /\ Len(r) = Len(list) - 1
          /\ \A i \in 1..(Len(list) - 1) : r[i] = IF i < k THEN list[i] ELSE list[i + 1]
      BY <1>3, <1>4, RemovedAt
    <2> QED
      BY <2>1, LenProperties
  <1>6. IsInjective(r)
    <2> SUFFICES ASSUME NEW i \in 1..(Len(list) - 1), NEW j \in 1..(Len(list) - 1), r[i] = r[j]
                 PROVE  i = j
      BY <1>5 DEF IsInjective
    <2> DEFINE f(x) == IF x < k THEN x ELSE x + 1
    <2>1. f(i) \in DOMAIN list /\ f(j) \in DOMAIN list
      BY <1>2, <1>4
    <2>2. r[i] = list[f(i)] /\ r[j] = list[f(j)]
      BY <1>5
    <2>3. f(i) = f(j)
      BY <2>1, <2>2 DEF IsInjective
    <2> QED
      BY <1>2, <1>4, <2>3
  <1>7. Range(list) \ {n} \subseteq Range(r)
    <2> SUFFICES ASSUME NEW j \in 1..Len(list), list[j] # n PROVE list[j] \in Range(r)
      BY <1>2 DEF Range
    <2>1. j # k
      BY <1>1
    <2>2. CASE j < k
      <3>1. j \in 1..(Len(list) - 1)
        BY <1>2, <1>4, <2>2
      <3>2. j \in DOMAIN r /\ r[j] = list[j]
        BY <1>5, <2>2, <3>1
      <3> QED
        BY <3>2 DEF Range
    <2>3. CASE j > k
      <3>1. j - 1 \in 1..(Len(list) - 1) /\ ~(j - 1 < k) /\ (j - 1) + 1 = j
        BY <1>2, <1>4, <2>3
      <3>2. j - 1 \in DOMAIN r /\ r[j - 1] = list[j]
        BY <1>5, <3>1
      <3> QED
        BY <3>2 DEF Range
    <2> QED
      BY <1>2, <1>4, <2>1, <2>2, <2>3
  <1> QED
    BY <1>5, <1>6, <1>7 DEF r

\* A page that is asked for with a cursor the list still has goes on where the
\* cursor is, and the next one goes on where it ends.
LEMMA Page ==
  ASSUME ListTypes, NEW c \in Nat, NEW z \in Nat, z # 0 \/ (z = Len(list) /\ c = 0)
  PROVE  /\ Paginate(list, c, z) \in Responses
         /\ Paginate(list, c, z).what \in {"page", "error"}
         /\ c <= Len(list) =>
               /\ Paginate(list, c, z).what = "page"
               /\ Paginate(list, c, z).next <= Len(list)
               /\ Upto(c) \cup Paginate(list, c, z).items =
                     IF Paginate(list, c, z).next = 0 THEN Range(list)
                                                      ELSE Upto(Paginate(list, c, z).next)
  <1> DEFINE e == IF c + z < Len(list) THEN c + z ELSE Len(list)
             items == Range(SubSeq(list, c + 1, e))
             next == IF e < Len(list) THEN e ELSE 0
  <1>0. /\ list \in Seq(Names) /\ DOMAIN list = 1..Len(list)
        /\ \A i \in 1..Len(list) : list[i] \in Names
    BY LenProperties, ElementOfSeq DEF ListTypes
  <1>b. list \in Seq(Names) /\ \A i \in 1..Len(list) : list[i] \in Names
    BY <1>0
  <1>1. Len(list) \in Nat
    BY <1>0, LenProperties
  <1>a. Cardinality(Names) \in Nat /\ Len(list) <= Cardinality(Names)
    BY <1>0, ListBound DEF ListTypes
  <1>2. CASE c > Len(list)
    <2>1. Paginate(list, c, z) = [what |-> "error"]
      BY <1>2 DEF Paginate
    <2> QED
      BY <1>1, <1>2, <2>1 DEF Responses
  <1>3. CASE c <= Len(list)
    <2>1. Paginate(list, c, z) = [what |-> "page", items |-> items, next |-> next]
      BY <1>1, <1>3 DEF Paginate
    <2>2. e \in Nat /\ e <= Len(list) /\ c <= e /\ (e < Len(list) => e # 0)
      BY <1>1, <1>3
    <2> HIDE DEF e
    <2>a. \A i \in (c + 1)..e : list[i] \in Names
      <3>1. (c + 1)..e \subseteq 1..Len(list)
        BY <1>1, <2>2
      <3> QED
        BY <1>b, <3>1
    <2>3. items = {list[i] : i \in (c + 1)..e}
      <3> DEFINE q == SubSeq(list, c + 1, e)
      <3>1. c + 1 \in Int /\ e \in Int
        BY <2>2
      <3>2. /\ q \in Seq(Names)
            /\ Len(q) = IF c + 1 <= e THEN e - (c + 1) + 1 ELSE 0
            /\ \A i \in 1..(e - (c + 1) + 1) : q[i] = list[c + 1 + i - 1]
        BY <1>b, <2>a, <3>1, SubSeqProperties
      <3>3. DOMAIN q = 1..Len(q)
        BY <3>2, LenProperties
      <3> HIDE DEF q
      <3>4. DOMAIN q = 1..(e - c) /\ \A i \in 1..(e - c) : q[i] = list[c + i]
        BY <1>1, <2>2, <3>2, <3>3
      <3>5. ASSUME NEW i \in 1..(e - c) PROVE q[i] \in {list[j] : j \in (c + 1)..e}
        <4>1. c + i \in (c + 1)..e
          BY <1>1, <2>2
        <4> QED
          BY <3>4, <4>1
      <3>6. ASSUME NEW j \in (c + 1)..e PROVE list[j] \in Range(q)
        <4>1. j - c \in 1..(e - c) /\ c + (j - c) = j
          BY <1>1, <2>2
        <4>2. j - c \in DOMAIN q /\ q[j - c] = list[j]
          BY <3>4, <4>1
        <4> QED
          BY <4>2 DEF Range
      <3>7. Range(q) = {list[i] : i \in (c + 1)..e}
        BY <3>4, <3>5, <3>6 DEF Range
      <3> QED
        BY <3>7 DEF q
    <2>4. items \subseteq Names
      BY <2>3, <2>a
    <2>5. next \in Cursors /\ next <= Len(list)
      BY <1>1, <1>a, <2>2 DEF Cursors
    <2>6. Upto(c) \cup items = Upto(e)
      <3>1. 1..e = (1..c) \cup ((c + 1)..e)
        BY <1>1, <2>2
      <3> HIDE DEF items
      <3> QED
        BY <2>3, <3>1 DEF Upto
    <2>7. Upto(Len(list)) = Range(list)
      BY <1>0 DEF Upto, Range
    <2>8. Upto(c) \cup items = IF next = 0 THEN Range(list) ELSE Upto(next)
      <3> HIDE DEF items
      <3>1. CASE e < Len(list)
        BY <2>2, <2>6, <3>1
      <3>2. CASE e = Len(list)
        BY <1>1, <2>6, <2>7, <3>2
      <3> QED
        BY <1>1, <2>2, <3>1, <3>2
    <2> HIDE DEF items, next
    <2>9. Paginate(list, c, z) \in Responses
      BY <2>1, <2>4, <2>5 DEF Responses
    <2> QED
      BY <2>1, <2>5, <2>8, <2>9
  <1> QED
    BY <1>1, <1>2, <1>3

-----------------------------------------------------------------------------
(* What a step leaves alone                                                *)

\* Nothing changes between a session and its peer.
LEMMA AnswerRest ==
  ASSUME Inv, NEW r \in Sessions, kind' = kind,
         peer'[r] = peer[r], serve'[r] = serve[r], inbox'[r] = inbox[r],
         state[r] = "operating" => state'[r] = "operating" /\ declared'[r] = declared[r]
  PROVE  OneAnswer(r)'
  <1>1. OneAnswer(r)
    BY DEF Inv
  <1>2. state[r] # "operating" => serve[r].what = "none" /\ DOMAIN inbox[r] = {}
    BY <1>1 DEF OneAnswer, NoBody
  <1> QED
    BY <1>1, <1>2 DEF OneAnswer, Coming

\* Nor in the list, and what was announced to the peer still is.
LEMMA KnowRest ==
  ASSUME Inv, NEW r \in Sessions, list' = list,
         peer'[r] = peer[r], serve'[r] = serve[r], inbox'[r] = inbox[r],
         state'[r] = "operating" => state[r] = "operating" /\ declared'[r] = declared[r],
         Announced(r) => Announced(r)'
  PROVE  Knows(r)'
  <1>1. Knows(r)
    BY DEF Inv
  <1>2. Known(r) => Known(r)'
    <2>1. Listing(r)' => Listing(r)
      BY DEF Listing
    <2>2. Listing(r) => Listing(r)'
      BY DEF Listing
    <2>3. Fits(r, serve[r]) => Fits(r, serve[r])'
      BY DEF Fits, Upto
    <2>4. ASSUME NEW i \in DOMAIN inbox[r], Fits(r, inbox[r][i]) PROVE Fits(r, inbox[r][i])'
      BY <2>4 DEF Fits, Upto
    <2>5. peer[r].seen = Upto(peer[r].cursor) => peer'[r].seen = Upto(peer[r].cursor)'
      BY DEF Upto
    <2> QED
      BY <2>1, <2>2, <2>3, <2>4, <2>5 DEF Known
  <1>3. Outdated(r) => Outdated(r)'
    BY DEF Outdated
  <1> QED
    BY <1>1, <1>2, <1>3 DEF Knows

\* The owner's threads do not move.
LEMMA AnnouncedRest == ASSUME NEW r \in Sessions, thread' = thread, Announced(r) PROVE Announced(r)'
  BY DEF Announced

\* The sessions do not change.
LEMMA SessionsRest ==
  ASSUME Inv, UNCHANGED sessionVars, kind' = kind
  PROVE  SessionTypes' /\ SessionsInOrder'
  <1>1. callback' = callback /\ attached' = attached /\ declared' = declared /\ state' = state
    BY DEF sessionVars
  <1>2. SessionTypes'
    BY <1>1 DEF Inv, SessionTypes
  <1>3. SessionsInOrder'
    BY <1>1 DEF Inv, SessionsInOrder
  <1> QED
    BY <1>2, <1>3

\* Only the owner and its list do.
LEMMA OwnerRest ==
  ASSUME Inv, UNCHANGED <<kind, sessionVars, peerVars, inbox>>
  PROVE  /\ SessionTypes' /\ SessionsInOrder' /\ PeerTypes'
         /\ \A r \in Sessions : OneAnswer(r)'
  <1>1. /\ kind' = kind /\ serve' = serve /\ peer' = peer /\ inbox' = inbox
        /\ declared' = declared /\ state' = state
    BY DEF peerVars, sessionVars
  <1>2. SessionTypes' /\ SessionsInOrder'
    BY SessionsRest
  <1>3. PeerTypes'
    BY <1>1 DEF Inv, PeerTypes
  <1>4. ASSUME NEW r \in Sessions PROVE OneAnswer(r)'
    BY <1>1, AnswerRest
  <1> QED
    BY <1>2, <1>3, <1>4

\* The registry and its owner do not change.
LEMMA ListRest ==
  ASSUME Inv, UNCHANGED <<kind, ownerVars>>
  PROVE  ListTypes' /\ list' = list /\ thread' = thread /\ kind' = kind
  BY DEF Inv, ListTypes, ownerVars

-----------------------------------------------------------------------------
(* The owner                                                               *)

\* The calling thread is idle, and no session that it has to go to.
LEMMA ThreadCalls ==
  ASSUME Inv, NEW t \in Threads, NEW note \in Notes \cup {NoBody}, OwnerCall(t, note)
  PROVE  /\ ThreadsBroadcast'
         /\ \A r \in Sessions : Announced(r) => Announced(r)'
         /\ note # NoBody /\ note.what = "changed" => \A r \in Sessions : Announced(r)'
  <1>1. /\ thread[t].at = "idle" /\ attached' = attached
        /\ thread' = IF note = NoBody THEN thread
                     ELSE [thread EXCEPT ![t] = [at |-> "call", note |-> note, todo |-> {}]]
    BY DEF OwnerCall, sessionVars
  <1>2. thread[t].todo = {} /\ thread \in [Threads -> Jobs]
    BY <1>1 DEF Inv, ThreadsBroadcast
  <1>3. CASE note = NoBody
    BY <1>1, <1>3, AnnouncedRest DEF Inv, ThreadsBroadcast
  <1>4. CASE note # NoBody
    <2> DEFINE j == [at |-> "call", note |-> note, todo |-> {}]
    <2>1. j \in Jobs /\ j.at = "call" /\ j.note = note /\ j.todo = {}
      BY <1>4 DEF Jobs
    <2> HIDE DEF j
    <2>2. /\ thread' \in [Threads -> Jobs] /\ thread'[t] = j
          /\ \A u \in Threads \ {t} : thread'[u] = thread[u]
      BY <1>1, <1>2, <1>4, <2>1 DEF j
    <2>3. ThreadsBroadcast'
      BY <1>1, <1>4, <2>1, <2>2 DEF Inv, ThreadsBroadcast
    <2>4. ASSUME NEW r \in Sessions, Announced(r) PROVE Announced(r)'
      <3>1. PICK u \in Threads : /\ thread[u].note.what = "changed"
                                 /\ thread[u].at = "call" \/ r \in thread[u].todo
        BY <2>4 DEF Announced
      <3>2. u # t
        BY <1>1, <1>2, <3>1
      <3> QED
        BY <2>2, <3>1, <3>2 DEF Announced
    <2>5. ASSUME NEW r \in Sessions, note.what = "changed" PROVE Announced(r)'
      BY <2>1, <2>2, <2>5 DEF Announced
    <2> QED
      BY <2>3, <2>4, <2>5
  <1> QED
    BY <1>3, <1>4

\* A change of the list is announced to every session that operates.
LEMMA ChangedInv ==
  ASSUME Inv, NEW t \in Threads, NEW q \in Seq(Names), IsInjective(q), NEW u \in SUBSET Names,
         NEW o \in SUBSET Names, kind \in Provided => u \subseteq Range(q) \cup o, Changed(t, q, o, u)
  PROVE  Inv'
  <1>1. OwnerCall(t, IfSet([what |-> "changed"])) /\ list' = q /\ others' = o /\ subs' = u /\ level' = level
    BY DEF Changed
  <1>2. UNCHANGED <<kind, sessionVars, peerVars, inbox>>
    BY <1>1 DEF OwnerCall
  <1>3. [what |-> "changed"] \in Notes /\ [what |-> "changed"] # NoBody
    BY DEF Notes, NoBody
  <1>4. IfSet([what |-> "changed"]) \in Notes \cup {NoBody}
    BY <1>3 DEF IfSet
  <1>5. ThreadsBroadcast'
    BY <1>1, <1>4, ThreadCalls
  <1>6. ListTypes'
    BY <1>1, <1>2 DEF Inv, ListTypes
  <1>7. ASSUME NEW r \in Sessions PROVE Knows(r)'
    <2>1. CASE callback
      <3>1. IfSet([what |-> "changed"]) = [what |-> "changed"]
        BY <2>1 DEF IfSet
      <3>2. Announced(r)'
        BY <1>1, <1>3, <3>1, ThreadCalls
      <3> QED
        BY <3>2 DEF Knows, Outdated
    <2>2. CASE ~callback
      <3>1. state[r] # "operating" /\ state' = state
        BY <1>2, <2>2 DEF Inv, SessionsInOrder, sessionVars
      <3> QED
        BY <3>1 DEF Knows
    <2> QED
      BY <2>1, <2>2
  <1> QED
    BY <1>2, <1>5, <1>6, <1>7, OwnerRest DEF Inv

\* A call that does not change the list.
LEMMA CallInv ==
  ASSUME Inv, NEW t \in Threads, NEW note \in Notes \cup {NoBody}, OwnerCall(t, note),
         UNCHANGED <<list, others, subs, level>>
  PROVE  Inv'
  <1>1. UNCHANGED <<kind, sessionVars, peerVars, inbox>>
    BY DEF OwnerCall
  <1>2. ListTypes'
    BY <1>1 DEF Inv, ListTypes
  <1>3. ThreadsBroadcast' /\ \A r \in Sessions : Announced(r) => Announced(r)'
    BY ThreadCalls
  <1>4. ASSUME NEW r \in Sessions PROVE Knows(r)'
    <2>1. /\ peer' = peer /\ serve' = serve /\ inbox' = inbox /\ list' = list
          /\ state' = state /\ declared' = declared
      BY <1>1 DEF sessionVars, peerVars
    <2> QED
      BY <1>3, <2>1, KnowRest
  <1> QED
    BY <1>1, <1>2, <1>3, <1>4, OwnerRest DEF Inv

\* add_* refuse a name that is registered.
LEMMA AddInv ==
  ASSUME Inv, NEW t \in Threads, NEW n \in Names, Add(t, n) PROVE Inv'
  <1>1. list \in Seq(Names) /\ IsInjective(list) /\ subs \in SUBSET Names /\ others \in SUBSET Names
    BY DEF Inv, ListTypes
  <1>2. n \notin Range(list) /\ Changed(t, Append(list, n), others, subs)
    BY DEF Add
  <1>3. /\ Append(list, n) \in Seq(Names) /\ IsInjective(Append(list, n))
        /\ Range(list) \subseteq Range(Append(list, n))
    BY <1>1, <1>2, Added
  <1>4. kind \in Provided => subs \subseteq Range(Append(list, n)) \cup others
    BY <1>3 DEF Inv, ListTypes
  <1> QED
    BY <1>1, <1>2, <1>3, <1>4, ChangedInv

\* remove_* remove it, and a resource with its subscription.
LEMMA RemoveInv ==
  ASSUME Inv, NEW t \in Threads, NEW n \in Names, n \in Range(list), NEW u \in SUBSET subs,
         kind \in Provided => u = subs \ {n}, Changed(t, Without(n), others, u)
  PROVE  Inv'
  <1>1. list \in Seq(Names) /\ IsInjective(list) /\ u \in SUBSET Names /\ others \in SUBSET Names
    BY DEF Inv, ListTypes
  <1>2. /\ Without(n) \in Seq(Names) /\ IsInjective(Without(n))
        /\ Range(list) \ {n} \subseteq Range(Without(n))
    BY <1>1, Removed
  <1>3. kind \in Provided => u \subseteq Range(Without(n)) \cup others
    BY <1>2 DEF Inv, ListTypes
  <1> QED
    BY <1>1, <1>2, <1>3, ChangedInv

\* The list that the peers do not look at gains an entry, or loses it with its
\* subscription; they are told for nothing.
LEMMA OtherInv ==
  ASSUME Inv, NEW t \in Threads, NEW n \in Names,
         \/ AddOther(t, n)
         \/ Changed(t, list, others \ {n}, subs \ {n})
  PROVE  Inv'
  <1>1. /\ list \in Seq(Names) /\ IsInjective(list) /\ subs \subseteq Names /\ others \subseteq Names
        /\ kind \in Provided => subs \subseteq Range(list) \cup others
    BY DEF Inv, ListTypes
  <1>2. CASE AddOther(t, n)
    <2> DEFINE o == others \cup {n}
    <2>1. Changed(t, list, o, subs)
      BY <1>2 DEF AddOther
    <2>2. /\ o \in SUBSET Names /\ subs \in SUBSET Names
          /\ kind \in Provided => subs \subseteq Range(list) \cup o
      BY <1>1
    <2> HIDE DEF o
    <2> QED
      BY <1>1, <2>1, <2>2, ChangedInv
  <1>3. CASE Changed(t, list, others \ {n}, subs \ {n})
    <2> DEFINE o == others \ {n}
               u == subs \ {n}
    <2>1. Changed(t, list, o, u)
      BY <1>3
    <2>2. /\ o \in SUBSET Names /\ u \in SUBSET Names
          /\ kind \in Provided => u \subseteq Range(list) \cup o
      BY <1>1
    <2> HIDE DEF o, u
    <2> QED
      BY <1>1, <2>1, <2>2, ChangedInv
  <1> QED
    BY <1>2, <1>3

\* The completions are not listed, so that nobody has to be told.
LEMMA SetCompletionInv ==
  ASSUME Inv, NEW t \in Threads, NEW n \in Names, set_completion(t, n) PROVE Inv'
  <1>1. /\ kind = "completions" /\ OwnerCall(t, NoBody) /\ UNCHANGED <<others, subs, level>>
        /\ list' = IF n \in Range(list) THEN list ELSE Append(list, n)
    BY DEF set_completion
  <1>2. UNCHANGED <<kind, sessionVars, peerVars, inbox>>
    BY <1>1 DEF OwnerCall
  <1>3. list \in Seq(Names) /\ IsInjective(list)
    BY DEF Inv, ListTypes
  <1>4. list' \in Seq(Names) /\ IsInjective(list')
    BY <1>1, <1>3, Added
  <1>5. ListTypes'
    BY <1>1, <1>2, <1>4 DEF Inv, ListTypes, Provided
  <1>6. ThreadsBroadcast'
    BY <1>1, ThreadCalls
  <1>7. ASSUME NEW r \in Sessions PROVE Knows(r)'
    <2>1. peer[r].stale /\ peer' = peer
      BY <1>1, <1>2 DEF Inv, OneAnswer, Listable, peerVars
    <2> QED
      BY <2>1 DEF Knows, Outdated
  <1> QED
    BY <1>2, <1>5, <1>6, <1>7, OwnerRest DEF Inv

\* One thread moves on in its broadcast.
LEMMA JobMoves ==
  ASSUME Inv, NEW t \in Threads, NEW j \in Jobs, thread' = [thread EXCEPT ![t] = j],
         attached' = attached, j.at # "idle" => j.note \in Notes,
         j.at # "send" => j.todo = {}, j.todo \subseteq attached
  PROVE  /\ ThreadsBroadcast' /\ thread'[t] = j
         /\ \A u \in Threads \ {t} : thread'[u] = thread[u]
  <1>1. thread \in [Threads -> Jobs]
    BY DEF Inv, ThreadsBroadcast
  <1>2. /\ thread' \in [Threads -> Jobs] /\ thread'[t] = j
        /\ \A u \in Threads \ {t} : thread'[u] = thread[u]
    BY <1>1
  <1> QED
    BY <1>2 DEF Inv, ThreadsBroadcast

\* The broadcast goes to the sessions that are attached now.
LEMMA BroadcastInv ==
  ASSUME Inv, NEW t \in Threads, Broadcast(t) PROVE Inv'
  <1>1. /\ kind \in ServerKinds /\ thread[t].at = "call"
        /\ UNCHANGED <<kind, list, others, subs, level, sessionVars, peerVars, inbox>>
    BY DEF Broadcast
  <1> DEFINE j == [thread[t] EXCEPT !.at = "send", !.todo = attached]
  <1>2. thread[t] \in Jobs /\ thread[t].note \in Notes /\ attached \subseteq Sessions
    BY <1>1 DEF Inv, ThreadsBroadcast, SessionTypes
  <1>3. j \in Jobs /\ j.at = "send" /\ j.note = thread[t].note /\ j.todo = attached
    BY <1>2 DEF Jobs
  <1>4. thread' = [thread EXCEPT ![t] = j]
    BY <1>2 DEF Broadcast, Jobs, Inv, ThreadsBroadcast
  <1> HIDE DEF j
  <1>5. /\ ThreadsBroadcast' /\ thread'[t] = j
        /\ \A u \in Threads \ {t} : thread'[u] = thread[u]
    BY <1>1, <1>2, <1>3, <1>4, JobMoves DEF sessionVars
  <1>6. ListTypes'
    BY <1>1 DEF Inv, ListTypes
  <1>7. ASSUME NEW r \in Sessions PROVE Knows(r)'
    <2>1. /\ peer' = peer /\ serve' = serve /\ inbox' = inbox /\ list' = list
          /\ state' = state /\ declared' = declared
      BY <1>1 DEF sessionVars, peerVars
    <2>2. CASE state[r] # "operating"
      BY <2>1, <2>2 DEF Knows
    <2>3. CASE state[r] = "operating"
      <3>1. r \in attached
        BY <1>1, <2>3 DEF Inv, SessionsInOrder
      <3>2. Announced(r) => Announced(r)'
        BY <1>3, <1>5, <3>1 DEF Announced
      <3> QED
        BY <2>1, <3>2, KnowRest
    <2> QED
      BY <2>2, <2>3
  <1> QED
    BY <1>1, <1>5, <1>6, <1>7, OwnerRest DEF Inv

\* A broadcast that is over was not for anybody.
LEMMA BroadcastDoneInv ==
  ASSUME Inv, NEW t \in Threads, BroadcastDone(t) PROVE Inv'
  <1>1. /\ thread[t].at = "send" /\ thread[t].todo = {} /\ thread' = [thread EXCEPT ![t] = IdleThread]
        /\ UNCHANGED <<kind, list, others, subs, level, sessionVars, peerVars, inbox>>
    BY DEF BroadcastDone
  <1>2. IdleThread \in Jobs /\ IdleThread.at = "idle" /\ IdleThread.todo = {}
    BY DEF IdleThread, Jobs
  <1>3. /\ ThreadsBroadcast' /\ \A u \in Threads \ {t} : thread'[u] = thread[u]
    BY <1>1, <1>2, JobMoves DEF sessionVars
  <1>4. ListTypes'
    BY <1>1 DEF Inv, ListTypes
  <1>5. ASSUME NEW r \in Sessions PROVE Knows(r)'
    <2>1. /\ peer' = peer /\ serve' = serve /\ inbox' = inbox /\ list' = list
          /\ state' = state /\ declared' = declared
      BY <1>1 DEF sessionVars, peerVars
    <2>2. Announced(r) => Announced(r)'
      BY <1>1, <1>3 DEF Announced
    <2> QED
      BY <2>1, <2>2, KnowRest
  <1> QED
    BY <1>1, <1>3, <1>4, <1>5, OwnerRest DEF Inv

\* What is sent is told apart by what it is.
LEMMA Whats ==
  /\ \A m \in Notes : m.what \in {"changed", "message", "updated"}
  /\ \A m \in Responses : m.what \in Answers
  /\ \A m \in Bodies : m.what \in {"none", "list", "call", "subscribe", "unsubscribe", "setLevel",
                                   "run", "thrown", "terminated", "page", "error", "answer", "unsupported"}
  /\ NoBody \in Bodies /\ NoBody.what = "none"
  BY DEF Notes, Responses, Requests, Bodies, NoBody, Answers

\* A message is put at the end of what is on its way.
LEMMA Posted ==
  ASSUME Inv, NEW s \in Sessions, NEW m \in Notes \cup Responses,
         inbox' = [inbox EXCEPT ![s] = Append(@, m)]
  PROVE  /\ inbox' \in [Sessions -> Seq(Notes \cup Responses)]
         /\ \A r \in Sessions \ {s} : inbox'[r] = inbox[r]
         /\ \E n \in Nat : /\ DOMAIN inbox[s] = 1..n /\ DOMAIN inbox'[s] = 1..(n + 1)
                           /\ \A i \in 1..n : inbox'[s][i] = inbox[s][i]
                           /\ inbox'[s][n + 1] = m
  <1> DEFINE M == Notes \cup Responses
  <1> HIDE DEF M
  <1>1. inbox \in [Sessions -> Seq(M)] /\ inbox[s] \in Seq(M) /\ m \in M
    BY DEF Inv, PeerTypes, M
  <1>2. /\ Append(inbox[s], m) \in Seq(M) /\ Len(Append(inbox[s], m)) = Len(inbox[s]) + 1
        /\ \A i \in 1..Len(inbox[s]) : Append(inbox[s], m)[i] = inbox[s][i]
        /\ Append(inbox[s], m)[Len(inbox[s]) + 1] = m
    BY <1>1, AppendProperties
  <1>3. /\ inbox'[s] = Append(inbox[s], m) /\ inbox' \in [Sessions -> Seq(M)]
        /\ \A r \in Sessions \ {s} : inbox'[r] = inbox[r]
    BY <1>1, <1>2
  <1>4. /\ Len(inbox[s]) \in Nat /\ DOMAIN inbox[s] = 1..Len(inbox[s])
        /\ DOMAIN Append(inbox[s], m) = 1..Len(Append(inbox[s], m))
    BY <1>1, <1>2, LenProperties
  <1>5. /\ DOMAIN inbox'[s] = 1..(Len(inbox[s]) + 1)
        /\ \A i \in 1..Len(inbox[s]) : inbox'[s][i] = inbox[s][i]
        /\ inbox'[s][Len(inbox[s]) + 1] = m
    BY <1>2, <1>3, <1>4
  <1> QED
    BY <1>3, <1>4, <1>5 DEF M

\* A notification changes nothing of what the peer waits for, nor of its
\* listing.
LEMMA NotePosted ==
  ASSUME Inv, NEW s \in Sessions, NEW m \in Notes,
         inbox' = [inbox EXCEPT ![s] = Append(@, m)], state[s] = "operating",
         UNCHANGED <<kind, list, sessionVars, peerVars>>
  PROVE  /\ OneAnswer(s)' /\ (Known(s) => Known(s)')
         /\ \A i \in DOMAIN inbox[s] : inbox[s][i].what = "changed" =>
               \E j \in DOMAIN inbox'[s] : inbox'[s][j].what = "changed"
         /\ m.what = "changed" => \E j \in DOMAIN inbox'[s] : inbox'[s][j].what = "changed"
  <1>1. PICK n \in Nat : /\ DOMAIN inbox[s] = 1..n /\ DOMAIN inbox'[s] = 1..(n + 1)
                         /\ \A i \in 1..n : inbox'[s][i] = inbox[s][i]
                         /\ inbox'[s][n + 1] = m
    BY Posted
  <1>2. /\ kind' = kind /\ list' = list /\ peer' = peer /\ serve' = serve
        /\ state' = state /\ declared' = declared
    BY DEF sessionVars, peerVars
  <1>3. m.what \in {"changed", "message", "updated"}
    BY Whats
  <1>4. /\ \A i \in DOMAIN inbox'[s] : \/ i \in DOMAIN inbox[s] /\ inbox'[s][i] = inbox[s][i]
                                       \/ inbox'[s][i] = m
        /\ \A i \in DOMAIN inbox[s] : i \in DOMAIN inbox'[s] /\ inbox'[s][i] = inbox[s][i]
        /\ \E i \in DOMAIN inbox'[s] : inbox'[s][i] = m
    <2>1. n + 1 \in 1..(n + 1) /\ \A i \in 1..(n + 1) : i \in 1..n \/ i = n + 1
      OBVIOUS
    <2>2. 1..n \subseteq 1..(n + 1)
      OBVIOUS
    <2> QED
      BY <1>1, <2>1, <2>2
  <1>5. m.what \notin Answers /\ m.what \notin {"page", "error", "unsupported"}
    BY <1>3 DEF Answers
  <1>6. Coming(s)' <=> Coming(s)
    BY <1>4, <1>5 DEF Coming
  <1>7. OneAnswer(s)'
    <2>1. OneAnswer(s)
      BY DEF Inv
    <2>2. \A i, j \in DOMAIN inbox'[s] :
             inbox'[s][i].what \in Answers /\ inbox'[s][j].what \in Answers => i = j
      BY <1>4, <1>5, <2>1 DEF OneAnswer
    <2>3. declared[s] => \A i \in DOMAIN inbox'[s] : inbox'[s][i].what # "unsupported"
      BY <1>4, <1>5, <2>1 DEF OneAnswer
    <2> QED
      BY <1>2, <1>6, <2>1, <2>2, <2>3 DEF OneAnswer
  <1>8. ASSUME Known(s) PROVE Known(s)'
    <2>1. Listing(s) => Listing(s)'
      BY <1>2, <1>4 DEF Listing
    <2>2. Fits(s, serve[s]) => Fits(s, serve[s])'
      BY <1>2 DEF Fits, Upto
    <2>3. ASSUME NEW i \in DOMAIN inbox'[s], inbox'[s][i].what = "page" PROVE Fits(s, inbox[s][i])'
      <3>1. i \in DOMAIN inbox[s] /\ inbox'[s][i] = inbox[s][i]
        BY <1>4, <1>5, <2>3
      <3>2. Fits(s, inbox[s][i])
        BY <1>8, <2>3, <3>1 DEF Known
      <3> QED
        BY <1>2, <3>1, <3>2 DEF Fits, Upto
    <2>4. peer[s].seen = Upto(peer[s].cursor) => peer'[s].seen = Upto(peer[s].cursor)'
      BY <1>2 DEF Upto
    <2> QED
      BY <1>2, <1>8, <2>1, <2>2, <2>3, <2>4 DEF Known
  <1> QED
    BY <1>4, <1>7, <1>8

\* A thread tells a session and moves on; no other session that operates loses
\* its announcement by this.
LEMMA TellInv ==
  ASSUME Inv, NEW s \in Sessions, NEW t \in Threads, thread[t].at # "idle",
         NEW j \in Jobs, thread' = [thread EXCEPT ![t] = j],
         j.at # "idle" => j.note \in Notes, j.at # "send" => j.todo = {}, j.todo \subseteq attached,
         inbox' = Notified(s, thread[t].note),
         UNCHANGED <<kind, list, others, subs, level, sessionVars, peerVars>>,
         \A r \in Sessions \ {s} :
             \/ state[r] # "operating"
             \/ j.note = thread[t].note /\ (thread[t].at = "call" \/ r \in thread[t].todo =>
                                               j.at = "call" \/ r \in j.todo)
  PROVE  Inv'
  <1>0. /\ kind' = kind /\ list' = list /\ peer' = peer /\ serve' = serve
        /\ state' = state /\ declared' = declared /\ attached' = attached
        /\ others' = others /\ subs' = subs /\ level' = level
    BY DEF sessionVars, peerVars
  <1>1. thread[t].note \in Notes
    BY DEF Inv, ThreadsBroadcast
  <1>2. ThreadsBroadcast' /\ thread'[t] = j /\ \A u \in Threads \ {t} : thread'[u] = thread[u]
    BY <1>0, JobMoves
  <1>3. ListTypes'
    BY <1>0 DEF Inv, ListTypes
  <1>4. SessionTypes' /\ SessionsInOrder'
    BY SessionsRest
  <1>5. inbox \in [Sessions -> Seq(Notes \cup Responses)]
    BY DEF Inv, PeerTypes
  <1>6. /\ inbox' \in [Sessions -> Seq(Notes \cup Responses)]
        /\ \A r \in Sessions \ {s} : inbox'[r] = inbox[r]
        /\ state[s] # "operating" => inbox' = inbox
    <2>1. CASE state[s] = "operating"
      <3>1. inbox' = [inbox EXCEPT ![s] = Append(@, thread[t].note)]
        BY <2>1 DEF Notified
      <3> QED
        BY <1>1, <2>1, <3>1, Posted
    <2>2. CASE state[s] # "operating"
      BY <1>5, <2>2 DEF Notified
    <2> QED
      BY <2>1, <2>2
  <1>7. PeerTypes'
    BY <1>0, <1>6 DEF Inv, PeerTypes
  <1>8. ASSUME NEW r \in Sessions, r # s PROVE OneAnswer(r)' /\ Knows(r)'
    <2>1. inbox'[r] = inbox[r]
      BY <1>6, <1>8
    <2>2. OneAnswer(r)'
      BY <1>0, <2>1, AnswerRest
    <2>3. CASE state[r] # "operating"
      BY <1>0, <2>2, <2>3 DEF Knows
    <2>4. CASE state[r] = "operating"
      <3>1. /\ j.note = thread[t].note
            /\ thread[t].at = "call" \/ r \in thread[t].todo => j.at = "call" \/ r \in j.todo
        BY <1>8, <2>4
      <3>2. Announced(r) => Announced(r)'
        BY <1>2, <3>1 DEF Announced
      <3>3. Knows(r)'
        BY <1>0, <2>1, <3>2, KnowRest
      <3> QED
        BY <2>2, <3>3
    <2> QED
      BY <2>3, <2>4
  <1>9. OneAnswer(s)' /\ Knows(s)'
    <2>1. CASE state[s] # "operating"
      <3>1. inbox' = inbox
        BY <1>6, <2>1
      <3>2. OneAnswer(s)'
        BY <1>0, <3>1, AnswerRest
      <3> QED
        BY <1>0, <2>1, <3>2 DEF Knows
    <2>2. CASE state[s] = "operating"
      <3>1. inbox' = [inbox EXCEPT ![s] = Append(@, thread[t].note)]
        BY <2>2 DEF Notified
      <3>2. /\ OneAnswer(s)' /\ (Known(s) => Known(s)')
            /\ \A i \in DOMAIN inbox[s] : inbox[s][i].what = "changed" =>
                  \E k \in DOMAIN inbox'[s] : inbox'[s][k].what = "changed"
            /\ thread[t].note.what = "changed" =>
                  \E k \in DOMAIN inbox'[s] : inbox'[s][k].what = "changed"
        BY <1>1, <2>2, <3>1, NotePosted
      <3>3. CASE thread[t].note.what = "changed"
        BY <3>2, <3>3 DEF Knows, Outdated
      <3>4. CASE thread[t].note.what # "changed"
        <4>1. Announced(s) => Announced(s)'
          BY <1>2, <3>4 DEF Announced
        <4>2. Outdated(s) => Outdated(s)'
          BY <1>0, <3>2, <4>1 DEF Outdated
        <4>3. Knows(s)
          BY DEF Inv
        <4> QED
          BY <1>0, <3>2, <4>2, <4>3 DEF Knows
      <3> QED
        BY <3>2, <3>3, <3>4
    <2> QED
      BY <2>1, <2>2
  <1> QED
    BY <1>2, <1>3, <1>4, <1>7, <1>8, <1>9 DEF Inv

\* A broadcast reaches one of its sessions.
LEMMA SendToInv ==
  ASSUME Inv, NEW t \in Threads, NEW s \in Sessions, SendTo(t, s) PROVE Inv'
  <1> DEFINE j == [thread[t] EXCEPT !.todo = @ \ {s}]
  <1>1. /\ thread[t].at = "send" /\ s \in thread[t].todo /\ inbox' = Notified(s, thread[t].note)
        /\ UNCHANGED <<kind, list, others, subs, level, sessionVars, peerVars>>
    BY DEF SendTo
  <1>2. thread[t] \in Jobs /\ thread[t].note \in Notes /\ thread[t].todo \subseteq attached
    BY <1>1 DEF Inv, ThreadsBroadcast
  <1>3. /\ j \in Jobs /\ j.at = "send" /\ j.note = thread[t].note /\ j.todo = thread[t].todo \ {s}
    BY <1>1, <1>2 DEF Jobs
  <1>4. thread' = [thread EXCEPT ![t] = j]
    BY <1>2 DEF SendTo, Inv, ThreadsBroadcast, Jobs
  <1> HIDE DEF j
  <1>5. \A r \in Sessions \ {s} : thread[t].at = "call" \/ r \in thread[t].todo =>
                                     j.at = "call" \/ r \in j.todo
    BY <1>1, <1>3
  <1>6. /\ thread[t].at # "idle" /\ (j.at # "idle" => j.note \in Notes)
        /\ (j.at # "send" => j.todo = {}) /\ j.todo \subseteq attached
    BY <1>1, <1>2, <1>3
  <1> QED
    BY <1>1, <1>3, <1>4, <1>5, <1>6, TellInv

\* A Client tells the session that it has.
LEMMA RootsChangedInv ==
  ASSUME Inv, NEW t \in Threads, NEW s \in Sessions, RootsChanged(t, s) PROVE Inv'
  <1>1. /\ kind = "roots" /\ thread[t].at = "call" /\ NoOtherSession(s)
        /\ thread' = [thread EXCEPT ![t] = IdleThread] /\ inbox' = Notified(s, thread[t].note)
        /\ UNCHANGED <<kind, list, others, subs, level, sessionVars, peerVars>>
    BY DEF RootsChanged
  <1>2. IdleThread \in Jobs /\ IdleThread.at = "idle" /\ IdleThread.todo = {}
    BY DEF IdleThread, Jobs
  <1>3. \A r \in Sessions \ {s} : state[r] # "operating"
    BY <1>1 DEF NoOtherSession
  <1>4. /\ thread[t].at # "idle" /\ IdleThread.todo \subseteq attached
    BY <1>1, <1>2
  <1> QED
    BY <1>1, <1>2, <1>3, <1>4, TellInv

-----------------------------------------------------------------------------
(* Sessions                                                                *)

\* A session that does not operate moves on, and its peer is not told.
LEMMA SessionMoves ==
  ASSUME Inv, NEW s \in Sessions, NEW new \in States, state[s] # "operating",
         state' = [state EXCEPT ![s] = new],
         UNCHANGED <<kind, ownerVars, peerVars, inbox>>,
         declared' \in [Sessions -> BOOLEAN], attached' \subseteq Sessions,
         \A r \in Sessions \ {s} : declared'[r] = declared[r]
  PROVE  /\ ListTypes' /\ SessionTypes' /\ PeerTypes' /\ thread' = thread /\ kind' = kind
         /\ state'[s] = new /\ \A r \in Sessions \ {s} : state'[r] = state[r]
         /\ \A r \in Sessions : OneAnswer(r)' /\ Knows(r)'
  <1>0. /\ ListTypes' /\ list' = list /\ thread' = thread /\ kind' = kind
    BY ListRest
  <1>1. peer' = peer /\ serve' = serve /\ inbox' = inbox
    BY DEF peerVars
  <1>2. state \in [Sessions -> States]
    BY DEF Inv, SessionTypes
  <1>3. /\ state' \in [Sessions -> States] /\ state'[s] = new
        /\ \A r \in Sessions \ {s} : state'[r] = state[r]
    BY <1>2
  <1>4. SessionTypes'
    BY <1>3 DEF SessionTypes
  <1>5. PeerTypes'
    BY <1>1 DEF Inv, PeerTypes
  <1>6. ASSUME NEW r \in Sessions PROVE OneAnswer(r)'
    <2>1. state[r] = "operating" => state'[r] = "operating" /\ declared'[r] = declared[r]
      BY <1>3
    <2> QED
      BY <1>0, <1>1, <2>1, AnswerRest
  <1>7. ASSUME NEW r \in Sessions PROVE Knows(r)'
    <2>1. CASE r = s
      <3>1. peer[s] = NewPeer
        BY DEF Inv, OneAnswer
      <3>2. peer'[r].stale
        BY <1>1, <2>1, <3>1 DEF NewPeer
      <3> QED
        BY <3>2 DEF Knows, Outdated
    <2>2. CASE r # s
      <3>1. state'[r] = "operating" => state[r] = "operating" /\ declared'[r] = declared[r]
        BY <1>3, <2>2
      <3>2. Announced(r) => Announced(r)'
        BY <1>0, AnnouncedRest
      <3> QED
        BY <1>0, <1>1, <3>1, <3>2, KnowRest
    <2> QED
      BY <2>1, <2>2
  <1> QED
    BY <1>0, <1>3, <1>4, <1>5, <1>6, <1>7

\* A session is constructed; a Client has no other.
LEMMA ConstructInv == ASSUME Inv, NEW s \in Sessions, Construct(s) PROVE Inv'
  <1>1. /\ state[s] = "none" /\ state' = [state EXCEPT ![s] = "constructed"]
        /\ kind \in ClientKinds => \A r \in Sessions \ {s} : state[r] \in {"none", "destroyed"}
        /\ UNCHANGED <<kind, callback, attached, ownerVars, peerVars, inbox>>
    BY DEF Construct, Becomes, NoOtherSession
  <1>2. PICK enabled \in BOOLEAN : declared' = [declared EXCEPT ![s] = capabilities(enabled)]
    BY DEF Construct
  <1>3. capabilities(enabled) \in BOOLEAN
    BY DEF capabilities
  <1>4. declared \in [Sessions -> BOOLEAN] /\ attached \subseteq Sessions
    BY DEF Inv, SessionTypes
  <1>5. declared' \in [Sessions -> BOOLEAN] /\ \A r \in Sessions \ {s} : declared'[r] = declared[r]
    BY <1>2, <1>3, <1>4, Zenon
  <1>6. "constructed" \in States /\ state[s] # "operating" /\ attached' \subseteq Sessions
        /\ UNCHANGED <<kind, ownerVars, peerVars, inbox>>
    BY <1>1, <1>4 DEF States
  <1>7. /\ ListTypes' /\ SessionTypes' /\ PeerTypes' /\ thread' = thread /\ kind' = kind
        /\ state'[s] = "constructed" /\ \A r \in Sessions \ {s} : state'[r] = state[r]
        /\ \A r \in Sessions : OneAnswer(r)' /\ Knows(r)'
    BY <1>1, <1>5, <1>6, SessionMoves
  <1>8. ThreadsBroadcast'
    BY <1>1, <1>7 DEF Inv, ThreadsBroadcast
  <1>9. SessionsInOrder'
    <2>1. callback' = callback /\ attached' = attached
      BY <1>1
    <2> QED
      BY <1>1, <1>7, <2>1 DEF Inv, SessionsInOrder
  <1> QED
    BY <1>7, <1>8, <1>9 DEF Inv

\* attach lists it while nobody broadcasts.
LEMMA AttachInv == ASSUME Inv, NEW s \in Sessions, Attach(s) PROVE Inv'
  <1>1. /\ kind \in ServerKinds /\ session_mutex_free /\ attached' = attached \cup {s}
        /\ state[s] = "constructed" /\ state' = [state EXCEPT ![s] = "attached"]
        /\ UNCHANGED <<kind, callback, declared, ownerVars, peerVars, inbox>>
    BY DEF Attach, Becomes
  <1>2. declared' \in [Sessions -> BOOLEAN] /\ attached' \subseteq Sessions
    BY <1>1 DEF Inv, SessionTypes
  <1>3. "attached" \in States /\ state[s] # "operating"
        /\ UNCHANGED <<kind, ownerVars, peerVars, inbox>>
    BY <1>1 DEF States
  <1>4. /\ ListTypes' /\ SessionTypes' /\ PeerTypes' /\ thread' = thread /\ kind' = kind
        /\ state'[s] = "attached" /\ \A r \in Sessions \ {s} : state'[r] = state[r]
        /\ \A r \in Sessions : OneAnswer(r)' /\ Knows(r)'
    BY <1>1, <1>2, <1>3, SessionMoves
  <1>5. ThreadsBroadcast'
    BY <1>1, <1>4 DEF Inv, ThreadsBroadcast
  <1>6. SessionsInOrder'
    <2>1. callback' = callback /\ kind \notin ClientKinds
      BY <1>1 DEF ServerKinds, ClientKinds
    <2> QED
      BY <1>1, <1>4, <2>1 DEF Inv, SessionsInOrder, SessionTypes
  <1> QED
    BY <1>4, <1>5, <1>6 DEF Inv

\* From then on a change is announced.
LEMMA WiredInv ==
  ASSUME Inv, NEW s \in Sessions, state[s] \in {"attached", "constructed"},
         kind \in ServerKinds => state[s] = "attached" /\ s \in attached,
         state' = [state EXCEPT ![s] = "initializing"],
         callback' = TRUE, UNCHANGED <<kind, attached, declared, ownerVars, peerVars, inbox>>
  PROVE  Inv'
  <1>1. declared' \in [Sessions -> BOOLEAN] /\ attached' \subseteq Sessions
    BY DEF Inv, SessionTypes
  <1>2. "initializing" \in States /\ state[s] # "operating"
        /\ UNCHANGED <<kind, ownerVars, peerVars, inbox>>
    BY DEF States
  <1>3. /\ ListTypes' /\ SessionTypes' /\ PeerTypes' /\ thread' = thread /\ kind' = kind
        /\ state'[s] = "initializing" /\ \A r \in Sessions \ {s} : state'[r] = state[r]
        /\ \A r \in Sessions : OneAnswer(r)' /\ Knows(r)'
    BY <1>1, <1>2, SessionMoves
  <1>4. ThreadsBroadcast'
    BY <1>3 DEF Inv, ThreadsBroadcast
  <1>5. SessionsInOrder'
    <2>1. callback' \in BOOLEAN
      BY Zenon
    <2> QED
      BY <1>3, <2>1 DEF Inv, SessionsInOrder
  <1> QED
    BY <1>3, <1>4, <1>5 DEF Inv

\* The handshake is over; the peer has not listed yet.
LEMMA OperateInv == ASSUME Inv, NEW s \in Sessions, Operate(s) PROVE Inv'
  <1>1. /\ state[s] = "initializing" /\ state' = [state EXCEPT ![s] = "operating"]
        /\ UNCHANGED <<kind, callback, attached, declared, ownerVars, peerVars, inbox>>
    BY DEF Operate, Becomes
  <1>2. declared' \in [Sessions -> BOOLEAN] /\ attached' \subseteq Sessions
    BY <1>1 DEF Inv, SessionTypes
  <1>3. "operating" \in States /\ state[s] # "operating"
        /\ UNCHANGED <<kind, ownerVars, peerVars, inbox>>
    BY <1>1 DEF States
  <1>4. /\ ListTypes' /\ SessionTypes' /\ PeerTypes' /\ thread' = thread /\ kind' = kind
        /\ state'[s] = "operating" /\ \A r \in Sessions \ {s} : state'[r] = state[r]
        /\ \A r \in Sessions : OneAnswer(r)' /\ Knows(r)'
    BY <1>1, <1>2, <1>3, SessionMoves
  <1>5. ThreadsBroadcast'
    BY <1>1, <1>4 DEF Inv, ThreadsBroadcast
  <1>6. SessionsInOrder'
    <2>1. callback' = callback /\ attached' = attached
      BY <1>1
    <2> QED
      BY <1>1, <1>4, <2>1 DEF Inv, SessionsInOrder
  <1> QED
    BY <1>4, <1>5, <1>6 DEF Inv

\* detach waits for a broadcast to end; what is destroyed then is in no list.
LEMMA DetachInv == ASSUME Inv, NEW s \in Sessions, Detach(s) PROVE Inv'
  <1>1. /\ kind \in ServerKinds /\ session_mutex_free /\ attached' = attached \ {s}
        /\ state[s] = "closed" /\ state' = [state EXCEPT ![s] = "detached"]
        /\ UNCHANGED <<kind, callback, declared, ownerVars, peerVars, inbox>>
    BY DEF Detach, Becomes
  <1>2. declared' \in [Sessions -> BOOLEAN] /\ attached' \subseteq Sessions
    BY <1>1 DEF Inv, SessionTypes
  <1>3. "detached" \in States /\ state[s] # "operating"
        /\ UNCHANGED <<kind, ownerVars, peerVars, inbox>>
    BY <1>1 DEF States
  <1>4. /\ ListTypes' /\ SessionTypes' /\ PeerTypes' /\ thread' = thread /\ kind' = kind
        /\ state'[s] = "detached" /\ \A r \in Sessions \ {s} : state'[r] = state[r]
        /\ \A r \in Sessions : OneAnswer(r)' /\ Knows(r)'
    BY <1>1, <1>2, <1>3, SessionMoves
  <1>5. ThreadsBroadcast'
    <2>1. \A t \in Threads : thread[t].todo = {}
      BY <1>1 DEF Inv, ThreadsBroadcast, session_mutex_free
    <2> QED
      BY <1>1, <1>4, <2>1 DEF Inv, ThreadsBroadcast
  <1>6. SessionsInOrder'
    <2>1. callback' = callback /\ kind \notin ClientKinds
      BY <1>1 DEF ServerKinds, ClientKinds
    <2> QED
      BY <1>1, <1>4, <2>1 DEF Inv, SessionsInOrder, SessionTypes
  <1> QED
    BY <1>4, <1>5, <1>6 DEF Inv

\* A session that is detached is destroyed, and one that a Client failed to
\* initialize, which was never attached.
LEMMA DestroyInv == ASSUME Inv, NEW s \in Sessions, Destroy(s) \/ ConnectFails(s) PROVE Inv'
  <1>1. /\ state[s] = "detached" \/ (kind \in ClientKinds /\ state[s] = "initializing")
        /\ state' = [state EXCEPT ![s] = "destroyed"]
        /\ UNCHANGED <<kind, callback, attached, declared, ownerVars, peerVars, inbox>>
    BY DEF Destroy, ConnectFails, Becomes
  <1>2. declared' \in [Sessions -> BOOLEAN] /\ attached' \subseteq Sessions
    BY <1>1 DEF Inv, SessionTypes
  <1>3. "destroyed" \in States /\ state[s] # "operating"
        /\ UNCHANGED <<kind, ownerVars, peerVars, inbox>>
    BY <1>1 DEF States
  <1>4. /\ ListTypes' /\ SessionTypes' /\ PeerTypes' /\ thread' = thread /\ kind' = kind
        /\ state'[s] = "destroyed" /\ \A r \in Sessions \ {s} : state'[r] = state[r]
        /\ \A r \in Sessions : OneAnswer(r)' /\ Knows(r)'
    BY <1>1, <1>2, <1>3, SessionMoves
  <1>5. ThreadsBroadcast'
    BY <1>1, <1>4 DEF Inv, ThreadsBroadcast
  <1>6. SessionsInOrder'
    <2>1. callback' = callback /\ attached' = attached
      BY <1>1
    <2> QED
      BY <1>1, <1>4, <2>1 DEF Inv, SessionsInOrder
  <1> QED
    BY <1>4, <1>5, <1>6 DEF Inv

\* A peer that has not asked for anything.
LEMMA NewPeerIsPeer == NewPeer \in Peers /\ NewPeer.stale /\ NewPeer.at = "idle"
  <1>1. Cardinality(Names) \in Nat
    BY RegistryAssumption, FS_CardinalityType
  <1>2. 0 \in Cursors
    BY <1>1 DEF Cursors
  <1> QED
    BY <1>2 DEF NewPeer, Peers

\* The connection closes: the peer starts over, should it connect again.
LEMMA CloseInv == ASSUME Inv, NEW s \in Sessions, Close(s) PROVE Inv'
  <1>1. /\ state[s] \in {"initializing", "operating"} /\ state' = [state EXCEPT ![s] = "closed"]
        /\ serve' = [serve EXCEPT ![s] = NoBody] /\ inbox' = [inbox EXCEPT ![s] = <<>>]
        /\ peer' = [peer EXCEPT ![s] = NewPeer]
        /\ UNCHANGED <<kind, ownerVars>>
    BY DEF Close
  <1>a. callback' = callback /\ attached' = attached /\ declared' = declared
    BY DEF Close
  <1>2. ListTypes' /\ list' = list /\ thread' = thread /\ kind' = kind
    BY <1>1, ListRest
  <1>3. /\ serve \in [Sessions -> Bodies] /\ peer \in [Sessions -> Peers]
        /\ inbox \in [Sessions -> Seq(Notes \cup Responses)] /\ state \in [Sessions -> States]
    BY DEF Inv, PeerTypes, SessionTypes
  <1>4. "closed" \in States /\ NoBody \in Bodies /\ <<>> \in Seq(Notes \cup Responses)
    BY Whats DEF States
  <1>5. /\ serve' \in [Sessions -> Bodies] /\ peer' \in [Sessions -> Peers]
        /\ inbox' \in [Sessions -> Seq(Notes \cup Responses)] /\ state' \in [Sessions -> States]
    BY <1>1, <1>3, <1>4, NewPeerIsPeer
  <1>6. /\ serve'[s] = NoBody /\ peer'[s] = NewPeer /\ inbox'[s] = <<>> /\ state'[s] = "closed"
        /\ \A r \in Sessions \ {s} : /\ serve'[r] = serve[r] /\ peer'[r] = peer[r]
                                     /\ inbox'[r] = inbox[r] /\ state'[r] = state[r]
    BY <1>1, <1>3
  <1>7. SessionTypes' /\ PeerTypes'
    BY <1>5, <1>a DEF Inv, SessionTypes, PeerTypes
  <1>8. ThreadsBroadcast'
    BY <1>2, <1>a DEF Inv, ThreadsBroadcast
  <1>9. SessionsInOrder'
    BY <1>1, <1>2, <1>6, <1>a DEF Inv, SessionsInOrder
  <1>10. ASSUME NEW r \in Sessions PROVE OneAnswer(r)' /\ Knows(r)'
    <2>1. CASE r = s
      <3>1. OneAnswer(s)'
        BY <1>6, NewPeerIsPeer, Whats DEF OneAnswer, Coming
      <3>2. Knows(s)'
        BY <1>6 DEF Knows
      <3> QED
        BY <2>1, <3>1, <3>2
    <2>2. CASE r # s
      <3>1. OneAnswer(r)'
        BY <1>2, <1>6, <1>a, <2>2, AnswerRest
      <3>2. Announced(r) => Announced(r)'
        BY <1>2, AnnouncedRest
      <3>3. Knows(r)'
        BY <1>2, <1>6, <1>a, <2>2, <3>2, KnowRest
      <3> QED
        BY <3>1, <3>3
    <2> QED
      BY <2>1, <2>2
  <1> QED
    BY <1>2, <1>7, <1>8, <1>9, <1>10 DEF Inv

-----------------------------------------------------------------------------
(* The peers, and what serves them                                         *)

\* A step between one session and its peer.
LEMMA OneSession ==
  ASSUME Inv, NEW s \in Sessions, UNCHANGED <<kind, list, thread, sessionVars>>,
         ListTypes', PeerTypes', OneAnswer(s)', Knows(s)',
         \A r \in Sessions \ {s} : peer'[r] = peer[r] /\ serve'[r] = serve[r] /\ inbox'[r] = inbox[r]
  PROVE  Inv'
  <1>1. attached' = attached /\ declared' = declared /\ state' = state
    BY DEF sessionVars
  <1>2. SessionTypes' /\ SessionsInOrder'
    BY SessionsRest
  <1>3. ThreadsBroadcast'
    BY <1>1 DEF Inv, ThreadsBroadcast
  <1>4. ASSUME NEW r \in Sessions, r # s PROVE OneAnswer(r)' /\ Knows(r)'
    <2>1. peer'[r] = peer[r] /\ serve'[r] = serve[r] /\ inbox'[r] = inbox[r]
      BY <1>4
    <2>2. OneAnswer(r)'
      BY <1>1, <2>1, AnswerRest
    <2>3. Announced(r) => Announced(r)'
      BY AnnouncedRest
    <2>4. Knows(r)'
      BY <1>1, <2>1, <2>3, KnowRest
    <2> QED
      BY <2>2, <2>4
  <1> QED
    BY <1>2, <1>3, <1>4 DEF Inv

\* Nothing is new of what makes a listing outdated.
LEMMA OutdatedRest ==
  ASSUME Inv, NEW s \in Sessions, thread' = thread, inbox'[s] = inbox[s],
         peer'[s].stale = peer[s].stale
  PROVE  Outdated(s) <=> Outdated(s)'
  BY DEF Outdated, Announced

\* What a peer that asks has before it.
LEMMA Asking ==
  ASSUME Inv, NEW s \in Sessions, NEW m \in Requests, Ask(s, m)
  PROVE  /\ ListTypes' /\ list' = list /\ thread' = thread /\ kind' = kind /\ inbox' = inbox
         /\ UNCHANGED sessionVars /\ state[s] = "operating" /\ peer[s].at = "idle"
         /\ serve' \in [Sessions -> Bodies] /\ serve'[s] = m
         /\ \A r \in Sessions \ {s} : serve'[r] = serve[r]
         /\ serve[s].what = "none" /\ ~Coming(s)
         /\ \A i \in DOMAIN inbox[s] : inbox[s][i].what \notin Answers
  <1>1. /\ state[s] = "operating" /\ peer[s].at = "idle" /\ serve' = [serve EXCEPT ![s] = m]
        /\ UNCHANGED <<kind, sessionVars, ownerVars, inbox>>
    BY DEF Ask
  <1>2. ListTypes' /\ list' = list /\ thread' = thread /\ kind' = kind
    BY <1>1, ListRest
  <1>3. serve \in [Sessions -> Bodies] /\ m \in Bodies
    BY DEF Inv, PeerTypes, Bodies
  <1>4. /\ serve' \in [Sessions -> Bodies] /\ serve'[s] = m
        /\ \A r \in Sessions \ {s} : serve'[r] = serve[r]
    BY <1>1, <1>3
  <1>5. serve[s].what = "none" /\ ~Coming(s)
    BY <1>1 DEF Inv, OneAnswer
  <1>6. \A i \in DOMAIN inbox[s] : inbox[s][i].what \notin Answers
    BY <1>5 DEF Coming
  <1> QED
    BY <1>1, <1>2, <1>4, <1>5, <1>6

\* A peer that waits for its request, which is served.
LEMMA Asked ==
  ASSUME Inv, NEW s \in Sessions, NEW m \in Requests, Ask(s, m),
         peer'[s].at = "wait", peer'[s].stale = peer[s].stale \/ kind \in Listable
  PROVE  OneAnswer(s)'
  <1>1. /\ kind' = kind /\ inbox' = inbox /\ UNCHANGED sessionVars /\ state[s] = "operating"
        /\ serve'[s] = m /\ ~Coming(s)
    BY Asking
  <1>2. state' = state /\ declared' = declared
    BY <1>1 DEF sessionVars
  <1>3. m.what \notin {"none", "unsupported"}
    BY DEF Requests
  <1>4. OneAnswer(s)
    BY DEF Inv
  <1>5. ~Coming(s)'
    BY <1>1 DEF Coming
  <1> QED
    BY <1>1, <1>2, <1>3, <1>4, <1>5 DEF OneAnswer

\* A listing begins, and from here on the peer is to be told of changes; or
\* it goes on.
LEMMA AskPageInv ==
  ASSUME Inv, NEW s \in Sessions, kind \in Listable, AskPage(s) PROVE Inv'
  <1> DEFINE c == peer[s].cursor
             m == [what |-> "list", cursor |-> c]
             p == IF c = 0 THEN [peer[s] EXCEPT !.at = "wait", !.seen = {}, !.stale = FALSE]
                           ELSE [peer[s] EXCEPT !.at = "wait"]
  <1>1. peer \in [Sessions -> Peers] /\ peer[s] \in Peers
    BY DEF Inv, PeerTypes
  <1>2. Ask(s, m) /\ peer' = [peer EXCEPT ![s] = p]
    BY DEF AskPage
  <1>3. m \in Requests /\ m.what = "list" /\ m.cursor = c
    BY <1>1 DEF Requests, Peers
  <1>4. /\ p \in Peers /\ p.at = "wait" /\ p.cursor = c /\ p.view = peer[s].view
        /\ c = 0 => p.seen = {} /\ p.stale = FALSE
        /\ c # 0 => p.seen = peer[s].seen /\ p.stale = peer[s].stale
    <2>1. CASE c = 0
      BY <1>1, <2>1 DEF Peers
    <2>2. CASE c # 0
      BY <1>1, <2>2 DEF Peers
    <2> QED
      BY <2>1, <2>2
  <1> HIDE DEF m, p
  <1>5. /\ peer' \in [Sessions -> Peers] /\ peer'[s] = p
        /\ \A r \in Sessions \ {s} : peer'[r] = peer[r]
    BY <1>1, <1>2, <1>4
  <1>6. /\ ListTypes' /\ list' = list /\ thread' = thread /\ kind' = kind /\ inbox' = inbox
        /\ UNCHANGED sessionVars /\ state[s] = "operating" /\ peer[s].at = "idle"
        /\ serve' \in [Sessions -> Bodies] /\ serve'[s] = m
        /\ \A r \in Sessions \ {s} : serve'[r] = serve[r]
        /\ serve[s].what = "none" /\ ~Coming(s)
        /\ \A i \in DOMAIN inbox[s] : inbox[s][i].what \notin Answers
    BY <1>2, <1>3, Asking
  <1>7. PeerTypes'
    BY <1>5, <1>6 DEF Inv, PeerTypes
  <1>8. OneAnswer(s)'
    BY <1>2, <1>3, <1>4, <1>5, Asked
  <1>9. /\ serve'[s].what = "list" /\ serve'[s].cursor = peer'[s].cursor
        /\ \A i \in DOMAIN inbox'[s] : inbox'[s][i].what # "page"
        /\ Listing(s)'
    BY <1>3, <1>4, <1>5, <1>6 DEF Answers, Listing
  <1>10. Knows(s)'
    <2>1. CASE c = 0
      <3>1. Len(list) \in Nat
        BY LenProperties DEF Inv, ListTypes
      <3>2. peer'[s].cursor <= Len(list')
        BY <1>4, <1>5, <1>6, <2>1, <3>1
      <3>3. peer'[s].seen = Upto(peer[s].cursor)'
        BY <1>4, <1>5, <2>1 DEF Upto
      <3>4. Known(s)'
        BY <1>9, <3>2, <3>3 DEF Known
      <3> QED
        BY <3>4 DEF Knows
    <2>2. CASE c # 0
      <3>1. Outdated(s) <=> Outdated(s)'
        BY <1>4, <1>5, <1>6, <2>2, OutdatedRest
      <3>2. Known(s) => /\ peer'[s].cursor <= Len(list')
                        /\ peer'[s].seen = Upto(peer[s].cursor)'
        BY <1>4, <1>5, <1>6, <2>2 DEF Known, Upto
      <3>3. Known(s) => Known(s)'
        BY <1>9, <3>2 DEF Known
      <3>4. Knows(s) /\ state' = state /\ declared' = declared
        BY <1>6 DEF Inv, sessionVars
      <3> QED
        BY <3>1, <3>3, <3>4 DEF Knows
    <2> QED
      BY <2>1, <2>2
  <1>11. UNCHANGED <<kind, list, thread, sessionVars>>
    BY <1>6
  <1>12. \A r \in Sessions \ {s} : peer'[r] = peer[r] /\ serve'[r] = serve[r] /\ inbox'[r] = inbox[r]
    BY <1>5, <1>6
  <1>13. ListTypes'
    BY <1>6
  <1> QED
    BY <1>7, <1>8, <1>10, <1>11, <1>12, <1>13, OneSession

\* Any other request has nothing to do with the listing.
LEMMA AskForInv ==
  ASSUME Inv, NEW s \in Sessions, NEW what, NEW n, [what |-> what, name |-> n] \in Requests,
         what # "list", AskFor(s, what, n)
  PROVE  Inv'
  <1> DEFINE m == [what |-> what, name |-> n]
             p == [peer[s] EXCEPT !.at = "wait"]
  <1>1. peer \in [Sessions -> Peers] /\ peer[s] \in Peers
    BY DEF Inv, PeerTypes
  <1>2. Ask(s, m) /\ peer' = [peer EXCEPT ![s] = p]
    BY DEF AskFor
  <1>3. m \in Requests /\ m.what \notin {"list", "page", "error", "none"}
    BY DEF Requests
  <1>4. /\ p \in Peers /\ p.at = "wait" /\ p.cursor = peer[s].cursor /\ p.view = peer[s].view
        /\ p.seen = peer[s].seen /\ p.stale = peer[s].stale
    BY <1>1 DEF Peers
  <1> HIDE DEF m, p
  <1>5. /\ peer' \in [Sessions -> Peers] /\ peer'[s] = p
        /\ \A r \in Sessions \ {s} : peer'[r] = peer[r]
    BY <1>1, <1>2, <1>4
  <1>6. /\ ListTypes' /\ list' = list /\ thread' = thread /\ kind' = kind /\ inbox' = inbox
        /\ UNCHANGED sessionVars /\ state[s] = "operating" /\ peer[s].at = "idle"
        /\ serve' \in [Sessions -> Bodies] /\ serve'[s] = m
        /\ \A r \in Sessions \ {s} : serve'[r] = serve[r]
        /\ serve[s].what = "none" /\ ~Coming(s)
        /\ \A i \in DOMAIN inbox[s] : inbox[s][i].what \notin Answers
    BY <1>2, <1>3, Asking
  <1>7. PeerTypes'
    BY <1>5, <1>6 DEF Inv, PeerTypes
  <1>8. OneAnswer(s)'
    BY <1>2, <1>3, <1>4, <1>5, Asked
  <1>9. Outdated(s) <=> Outdated(s)'
    BY <1>4, <1>5, <1>6, OutdatedRest
  <1>10. Known(s) => Known(s)'
    <2>1. Listing(s) => Listing(s)'
      BY <1>4, <1>5, <1>6 DEF Listing
    <2>2. \A i \in DOMAIN inbox'[s] : inbox'[s][i].what # "page"
      BY <1>6 DEF Answers
    <2>3. peer[s].seen = Upto(peer[s].cursor) => peer'[s].seen = Upto(peer[s].cursor)'
      BY <1>4, <1>5, <1>6 DEF Upto
    <2> QED
      BY <1>3, <1>4, <1>5, <1>6, <2>1, <2>2, <2>3 DEF Known
  <1>11. Knows(s)'
    <2>1. Knows(s) /\ state' = state /\ declared' = declared
      BY <1>6 DEF Inv, sessionVars
    <2> QED
      BY <1>9, <1>10, <2>1 DEF Knows
  <1>12. UNCHANGED <<kind, list, thread, sessionVars>> /\ ListTypes'
    BY <1>6
  <1>13. \A r \in Sessions \ {s} : peer'[r] = peer[r] /\ serve'[r] = serve[r] /\ inbox'[r] = inbox[r]
    BY <1>5, <1>6
  <1> QED
    BY <1>7, <1>8, <1>11, <1>12, <1>13, OneSession

\* The read thread takes a request further: to a page that continues the
\* listing, or to something that is not of a listing at all.
LEMMA ServeMoves ==
  ASSUME Inv, NEW s \in Sessions, NEW b \in Bodies, serve' = [serve EXCEPT ![s] = b],
         UNCHANGED <<kind, list, thread, sessionVars, peer, inbox>>, ListTypes',
         serve[s].what # "none", b.what # "none", declared[s] => b.what # "unsupported",
         declared[s] => \/ /\ serve[s].what \notin {"list", "page", "error"}
                           /\ b.what \notin {"list", "page", "error"}
                        \/ /\ b.what \in {"page", "error"}
                           /\ Known(s) /\ b.what = "page" => Fits(s, b)
  PROVE  Inv'
  <1>1. serve \in [Sessions -> Bodies]
    BY DEF Inv, PeerTypes
  <1>2. /\ serve' \in [Sessions -> Bodies] /\ serve'[s] = b
        /\ \A r \in Sessions \ {s} : serve'[r] = serve[r]
    BY <1>1
  <1>3. state' = state /\ declared' = declared
    BY DEF sessionVars
  <1>4. PeerTypes'
    BY <1>2 DEF Inv, PeerTypes
  <1>5. OneAnswer(s)'
    <2>1. OneAnswer(s)
      BY DEF Inv
    <2>2. Coming(s)' <=> Coming(s)
      BY DEF Coming
    <2>3. serve[s] # NoBody
      BY Whats
    <2> QED
      BY <1>2, <1>3, <2>1, <2>2, <2>3 DEF OneAnswer
  <1>6. Outdated(s) <=> Outdated(s)'
    BY OutdatedRest
  <1>7. ASSUME declared[s], Known(s) PROVE Known(s)'
    <2>1. Listing(s) => Listing(s)'
      BY <1>2, <1>7 DEF Listing
    <2>2. ASSUME b.what = "page" PROVE Fits(s, serve[s])'
      <3>1. Fits(s, b)
        BY <1>7, <2>2
      <3> QED
        BY <1>2, <3>1 DEF Fits, Upto
    <2>3. ASSUME NEW i \in DOMAIN inbox[s], Fits(s, inbox[s][i]) PROVE Fits(s, inbox[s][i])'
      BY <2>3 DEF Fits, Upto
    <2>4. peer[s].seen = Upto(peer[s].cursor) => peer'[s].seen = Upto(peer[s].cursor)'
      BY DEF Upto
    <2>5. b.what # "list"
      BY <1>7
    <2> QED
      BY <1>2, <1>7, <2>1, <2>2, <2>3, <2>4, <2>5 DEF Known
  <1>8. Knows(s)'
    <2>1. Knows(s)
      BY DEF Inv
    <2> QED
      BY <1>3, <1>6, <1>7, <2>1 DEF Knows
  <1>9. \A r \in Sessions \ {s} : peer'[r] = peer[r] /\ serve'[r] = serve[r] /\ inbox'[r] = inbox[r]
    BY <1>2
  <1>10. UNCHANGED <<kind, list, thread, sessionVars>>
    OBVIOUS
  <1> QED
    BY <1>4, <1>5, <1>8, <1>9, <1>10, OneSession

\* A request of a capability that was not declared.
LEMMA RefuseInv == ASSUME Inv, NEW s \in Sessions, Refuse(s) PROVE Inv'
  <1> DEFINE b == Response("unsupported")
  <1>1. /\ serve[s].what # "none" /\ ~declared[s] /\ serve' = [serve EXCEPT ![s] = b]
        /\ UNCHANGED <<kind, sessionVars, ownerVars, peer, inbox>>
    BY DEF Refuse
  <1>2. b \in Bodies /\ b.what = "unsupported"
    BY DEF Bodies, Responses, Response
  <1> HIDE DEF b
  <1>3. ListTypes' /\ UNCHANGED <<kind, list, thread, sessionVars, peer, inbox>>
    BY <1>1, ListRest
  <1> QED
    BY <1>1, <1>2, <1>3, ServeMoves

\* What a handler makes of a request that is not for a list.
Outcomes == [what : {"run", "thrown", "terminated", "answer"}]

LEMMA HandleInv ==
  ASSUME Inv, NEW s \in Sessions, NEW k, NEW what, NEW next \in SUBSET Outcomes,
         what \notin {"none", "list", "page", "error"}, Handle(s, k, what, next), ListTypes'
  PROVE  Inv'
  <1>1. /\ serve[s].what = what
        /\ UNCHANGED <<kind, list, thread, sessionVars, peer, inbox>>
    BY DEF Handle
  <1>2. PICK b \in next : serve' = [serve EXCEPT ![s] = b]
    BY DEF Handle
  <1>3. b \in Bodies /\ b.what \in {"run", "thrown", "terminated", "answer"}
    BY DEF Bodies, Responses, Outcomes
  <1>4. /\ serve[s].what # "none" /\ serve[s].what \notin {"list", "page", "error"}
        /\ b.what # "none" /\ b.what # "unsupported" /\ b.what \notin {"list", "page", "error"}
    BY <1>1, <1>3
  <1> QED
    BY <1>1, <1>2, <1>3, <1>4, ServeMoves

\* Calls of a handler, which change nothing else.
LEMMA ServeInv ==
  ASSUME Inv, NEW s \in Sessions, NEW k, NEW what, NEW next \in SUBSET Outcomes,
         what \notin {"none", "list", "page", "error"}, Serve(s, k, what, next)
  PROVE  Inv'
  <1>1. Handle(s, k, what, next) /\ UNCHANGED <<subs, level>>
    BY DEF Serve
  <1>2. kind' = kind /\ list' = list /\ others' = others
    BY <1>1 DEF Handle
  <1>3. ListTypes'
    BY <1>1, <1>2 DEF Inv, ListTypes
  <1> QED
    BY <1>1, <1>3, HandleInv

LEMMA UseInv ==
  ASSUME Inv, NEW s \in Sessions,
         \/ tools_call(s) \/ prompts_get(s) \/ completion_complete(s) \/ create_message(s)
         \/ run_tool(s) \/ run_prompt(s) \/ run_completion(s) \/ run_sampling(s)
         \/ \E k \in {"resources", "templates"} : resources_read(s, k) \/ run_read(s, k)
         \/ \E k \in {"completions", "sampling"} : Dispatch(s, k)
  PROVE  Inv'
  <1>1. \A n, entries : Lookup(n, entries) \in SUBSET Outcomes
    BY DEF Lookup, Response, Outcomes
  <1>2. /\ {Response("run"), Response("answer")} \in SUBSET Outcomes
        /\ {Response("answer")} \in SUBSET Outcomes
        /\ {Response("answer"), Response("terminated")} \in SUBSET Outcomes
        /\ {Response("answer"), Response("thrown"), Response("terminated")} \in SUBSET Outcomes
    BY DEF Response, Outcomes
  <1>3. CASE tools_call(s)
    <2>1. Serve(s, "tools", "call", Lookup(serve[s].name, Range(list)))
      BY <1>3 DEF tools_call, call_tool
    <2> QED
      BY <1>1, <2>1, ServeInv
  <1>4. CASE prompts_get(s)
    <2>1. Serve(s, "prompts", "call", Lookup(serve[s].name, Range(list)))
      BY <1>4 DEF prompts_get, get_prompt
    <2> QED
      BY <1>1, <2>1, ServeInv
  <1>5. CASE completion_complete(s)
    <2>1. Serve(s, "completions", "call", Lookup(serve[s].name, Range(list)))
      BY <1>5 DEF completion_complete, complete
    <2> QED
      BY <1>1, <2>1, ServeInv
  <1>6. CASE create_message(s)
    BY <1>2, <1>6, ServeInv DEF create_message
  <1>7. CASE run_tool(s)
    BY <1>2, <1>7, ServeInv DEF run_tool
  <1>8. CASE run_prompt(s)
    BY <1>2, <1>8, ServeInv DEF run_prompt
  <1>9. CASE run_completion(s)
    BY <1>2, <1>9, ServeInv DEF run_completion
  <1>10. CASE run_sampling(s)
    BY <1>2, <1>10, ServeInv DEF run_sampling
  <1>11. ASSUME NEW k, resources_read(s, k) PROVE Inv'
    <2>1. Serve(s, k, "call", Lookup(serve[s].name, Range(list) \cup others))
      BY <1>11 DEF resources_read, read_resource
    <2> QED
      BY <1>1, <2>1, ServeInv
  <1>12. ASSUME NEW k, run_read(s, k) PROVE Inv'
    BY <1>2, <1>12, ServeInv DEF run_read
  <1>13. ASSUME NEW k, Dispatch(s, k) PROVE Inv'
    BY <1>2, <1>13, ServeInv DEF Dispatch
  <1> QED
    BY <1>3, <1>4, <1>5, <1>6, <1>7, <1>8, <1>9, <1>10, <1>11, <1>12, <1>13

\* A page of the list as it is now: if the peer knows the list so far, the
\* page continues what it has seen.
LEMMA ListedInv ==
  ASSUME Inv, NEW s \in Sessions, NEW k, NEW c \in Nat, NEW z \in Nat,
         z # 0 \/ (z = Len(list) /\ c = 0), c = serve[s].cursor \/ c = 0,
         Serve(s, k, "list", {Paginate(list, c, z)}),
         c = serve[s].cursor \/ z = Len(list)
  PROVE  Inv'
  <1> DEFINE b == Paginate(list, c, z)
  <1>1. /\ serve[s].what = "list" /\ declared[s] /\ serve' = [serve EXCEPT ![s] = b]
        /\ UNCHANGED <<kind, list, thread, sessionVars, peer, inbox, others, subs, level>>
    BY DEF Serve, Handle
  <1>2. ListTypes /\ ListTypes'
    BY <1>1 DEF Inv, ListTypes
  <1>3. Len(list) \in Nat
    BY <1>2, LenProperties DEF ListTypes
  <1>4. /\ b \in Responses /\ b.what \in {"page", "error"}
        /\ c <= Len(list) =>
              /\ b.what = "page" /\ b.next <= Len(list)
              /\ Upto(c) \cup b.items = IF b.next = 0 THEN Range(list) ELSE Upto(b.next)
    BY <1>2, Page
  <1>a. z = Len(list) /\ c = 0 => b.next = 0
    BY <1>3 DEF Paginate
  <1> HIDE DEF b
  <1>5. b \in Bodies
    BY <1>4 DEF Bodies
  <1>6. ASSUME Known(s), b.what = "page" PROVE Fits(s, b)
    <2>1. /\ serve[s].cursor = peer[s].cursor /\ peer[s].cursor <= Len(list)
          /\ peer[s].seen = Upto(peer[s].cursor)
      BY <1>1, <1>6 DEF Known
    <2>2. CASE c = serve[s].cursor
      BY <1>4, <2>1, <2>2 DEF Fits
    <2>3. CASE c # serve[s].cursor
      <3>1. c = 0 /\ z = Len(list) /\ b.next = 0
        BY <1>a, <2>3
      <3>2. b.items = Range(list)
        <4>1. Upto(c) = {}
          BY <3>1 DEF Upto
        <4>2. c <= Len(list)
          BY <1>3, <3>1
        <4>3. Upto(c) \cup b.items = Range(list)
          BY <1>4, <3>1, <4>2
        <4> QED
          BY <4>1, <4>3
      <3>3. peer[s].seen \subseteq Range(list)
        <4>1. DOMAIN list = 1..Len(list) /\ peer[s].cursor \in Nat
          <5>1. peer[s].cursor \in Cursors
            BY DEF Inv, PeerTypes, Peers
          <5> QED
            BY <1>2, <5>1, LenProperties, RegistryAssumption, FS_CardinalityType DEF ListTypes, Cursors
        <4>2. 1..peer[s].cursor \subseteq DOMAIN list
          <5>1. peer[s].cursor <= Len(list) /\ peer[s].cursor \in Nat
            BY <2>1, <4>1
          <5>2. 1..peer[s].cursor \subseteq 1..Len(list)
            BY <1>3, <5>1
          <5> QED
            BY <4>1, <5>2
        <4> QED
          BY <2>1, <4>2 DEF Upto, Range
      <3> QED
        BY <1>3, <3>1, <3>2, <3>3 DEF Fits
    <2> QED
      BY <2>2, <2>3
  <1>7. UNCHANGED <<kind, list, thread, sessionVars, peer, inbox>>
    BY <1>1
  <1>8. serve[s].what # "none" /\ b.what # "none" /\ b.what # "unsupported"
    BY <1>1, <1>4
  <1> QED
    BY <1>1, <1>2, <1>4, <1>5, <1>6, <1>7, <1>8, ServeMoves

LEMMA ListInv ==
  ASSUME Inv, NEW s \in Sessions,
         \/ tools_list(s) \/ resources_list(s) \/ templates_list(s) \/ prompts_list(s)
         \/ roots_list(s)
  PROVE  Inv'
  <1>1. serve[s].what = "list"
    BY DEF tools_list, resources_list, templates_list, prompts_list, roots_list, Serve, Handle
  <1>2. serve[s].cursor \in Nat
    <2> DEFINE b == serve[s]
    <2>1. b \in Bodies /\ b.what = "list"
      BY <1>1 DEF Inv, PeerTypes
    <2> HIDE DEF b
    <2>2. b \in [what : {"list"}, cursor : Cursors]
      BY <2>1 DEF Bodies, Requests, Responses, NoBody
    <2>3. b.cursor \in Cursors
      BY <2>2
    <2> QED
      BY <2>3, RegistryAssumption, FS_CardinalityType DEF Cursors, b
  <1>3. PageSize \in Nat /\ PageSize # 0 /\ 0 \in Nat
    BY RegistryAssumption
  <1>4. Len(list) \in Nat
    BY LenProperties DEF Inv, ListTypes
  <1>5. ASSUME NEW k, Serve(s, k, "list", {Paginate(list, serve[s].cursor, PageSize)}) PROVE Inv'
    BY <1>2, <1>3, <1>5, ListedInv
  <1>6. CASE roots_list(s)
    <2>1. Serve(s, "roots", "list", {Paginate(list, 0, Len(list))})
      BY <1>6 DEF roots_list, list_roots
    <2> QED
      BY <1>3, <1>4, <2>1, ListedInv
  <1>7. CASE tools_list(s)
    BY <1>5, <1>7 DEF tools_list, list_tools
  <1>8. CASE resources_list(s)
    BY <1>5, <1>8 DEF resources_list, list_resources
  <1>9. CASE templates_list(s)
    BY <1>5, <1>9 DEF templates_list, list_resource_templates
  <1>10. CASE prompts_list(s)
    BY <1>5, <1>10 DEF prompts_list, list_prompts
  <1> QED
    BY <1>6, <1>7, <1>8, <1>9, <1>10

\* A subscription is to what is known; the level is one of the levels.
LEMMA SetInv ==
  ASSUME Inv, NEW s \in Sessions,
         \/ \E k \in {"resources", "templates"} :
               resources_subscribe(s, k) \/ resources_unsubscribe(s, k)
         \/ logging_setLevel(s)
  PROVE  Inv'
  <1>1. {Response("answer")} \in SUBSET Outcomes
    BY DEF Response, Outcomes
  <1>2. serve[s] \in Bodies /\ ListTypes
    BY DEF Inv, PeerTypes
  <1>3. /\ serve[s].what \in {"subscribe", "unsubscribe"} => serve[s].name \in Names
        /\ serve[s].what = "setLevel" => serve[s].name \in Levels
    BY <1>2 DEF Bodies, Requests, Responses, NoBody
  <1>4. ASSUME NEW k, resources_subscribe(s, k) PROVE Inv'
    <2>1. /\ Handle(s, k, "subscribe", {Response("answer")}) /\ level' = level
          /\ subs' = IF serve[s].name \in Range(list) \cup others THEN subs \cup {serve[s].name} ELSE subs
      BY <1>4 DEF resources_subscribe, subscribe, uri_known_locked
    <2>2. serve[s].what = "subscribe" /\ kind' = kind /\ list' = list /\ others' = others
      BY <2>1 DEF Handle
    <2>3. ListTypes'
      BY <1>2, <1>3, <2>1, <2>2 DEF ListTypes
    <2> QED
      BY <1>1, <2>1, <2>3, HandleInv
  <1>5. ASSUME NEW k, resources_unsubscribe(s, k) PROVE Inv'
    <2>1. /\ Handle(s, k, "unsubscribe", {Response("answer")}) /\ level' = level
          /\ subs' = subs \ {serve[s].name}
      BY <1>5 DEF resources_unsubscribe, unsubscribe
    <2>2. kind' = kind /\ list' = list /\ others' = others
      BY <2>1 DEF Handle
    <2>3. ListTypes'
      BY <1>2, <2>1, <2>2 DEF ListTypes
    <2> QED
      BY <1>1, <2>1, <2>3, HandleInv
  <1>6. CASE logging_setLevel(s)
    <2>1. /\ Handle(s, "logging", "setLevel", {Response("answer")}) /\ subs' = subs
          /\ level' = serve[s].name
      BY <1>6 DEF logging_setLevel
    <2>2. serve[s].what = "setLevel" /\ kind' = kind /\ list' = list /\ others' = others
      BY <2>1 DEF Handle
    <2>3. ListTypes'
      BY <1>2, <1>3, <2>1, <2>2 DEF ListTypes
    <2> QED
      BY <1>1, <2>1, <2>3, HandleInv
  <1> QED
    BY <1>4, <1>5, <1>6

\* The answer is sent, once.
LEMMA RespondInv == ASSUME Inv, NEW s \in Sessions, Respond(s) PROVE Inv'
  <1> DEFINE m == serve[s]
  <1>1. /\ m.what \in Answers /\ inbox' = [inbox EXCEPT ![s] = Append(@, m)]
        /\ serve' = [serve EXCEPT ![s] = NoBody]
        /\ UNCHANGED <<kind, sessionVars, ownerVars, peer>>
    BY DEF Respond, Answers
  <1>2. serve \in [Sessions -> Bodies] /\ NoBody \in Bodies /\ NoBody.what = "none"
    BY Whats DEF Inv, PeerTypes
  <1>3. m \in Responses
    BY <1>1, <1>2 DEF Bodies, Requests, NoBody, Answers
  <1>4. /\ serve' \in [Sessions -> Bodies] /\ serve'[s] = NoBody
        /\ \A r \in Sessions \ {s} : serve'[r] = serve[r]
    BY <1>1, <1>2
  <1> HIDE DEF m
  <1>5. ListTypes' /\ list' = list /\ thread' = thread /\ kind' = kind
    BY <1>1, ListRest
  <1>6. /\ inbox' \in [Sessions -> Seq(Notes \cup Responses)]
        /\ \A r \in Sessions \ {s} : inbox'[r] = inbox[r]
    BY <1>1, <1>3, Posted
  <1>7. PICK n \in Nat : /\ DOMAIN inbox[s] = 1..n /\ DOMAIN inbox'[s] = 1..(n + 1)
                         /\ \A i \in 1..n : inbox'[s][i] = inbox[s][i]
                         /\ inbox'[s][n + 1] = m
    BY <1>1, <1>3, Posted
  <1>8. /\ \A i \in DOMAIN inbox'[s] : \/ i \in DOMAIN inbox[s] /\ inbox'[s][i] = inbox[s][i]
                                       \/ i = n + 1
        /\ \A i \in DOMAIN inbox[s] : i \in DOMAIN inbox'[s] /\ inbox'[s][i] = inbox[s][i]
        /\ n + 1 \in DOMAIN inbox'[s] /\ inbox'[s][n + 1] = m
    <2>1. n + 1 \in 1..(n + 1) /\ \A i \in 1..(n + 1) : i \in 1..n \/ i = n + 1
      OBVIOUS
    <2>2. 1..n \subseteq 1..(n + 1)
      OBVIOUS
    <2> QED
      BY <1>7, <2>1, <2>2
  <1>9. PeerTypes'
    BY <1>1, <1>4, <1>6 DEF Inv, PeerTypes
  <1>10. state' = state /\ declared' = declared /\ peer' = peer
    BY <1>1 DEF sessionVars
  <1>11. OneAnswer(s) /\ m.what # "none" /\ serve[s] = m /\ m # NoBody
    BY <1>1, <1>2 DEF Inv, Answers, m
  <1>12. ~Coming(s) /\ Coming(s)' /\ peer[s].at = "wait" /\ state[s] = "operating"
    <2>1. ~Coming(s) /\ peer[s].at # "idle" /\ state[s] = "operating"
      BY <1>11 DEF OneAnswer
    <2>2. Coming(s)'
      BY <1>1, <1>8 DEF Coming
    <2>3. peer[s].at \in {"idle", "wait"}
      BY DEF Inv, PeerTypes, Peers
    <2> QED
      BY <2>1, <2>2, <2>3
  <1>13. OneAnswer(s)'
    <2>1. \A i \in DOMAIN inbox'[s] : inbox'[s][i].what \in Answers => i = n + 1
      BY <1>8, <1>12 DEF Coming
    <2>2. declared[s] => \A i \in DOMAIN inbox'[s] : inbox'[s][i].what # "unsupported"
      BY <1>8, <1>11 DEF OneAnswer
    <2>3. \A i, j \in DOMAIN inbox'[s] :
             inbox'[s][i].what \in Answers /\ inbox'[s][j].what \in Answers => i = j
      BY <2>1
    <2>4. peer[s].stale \/ kind \in Listable
      BY <1>11 DEF OneAnswer
    <2> QED
      BY <1>2, <1>4, <1>5, <1>10, <1>12, <2>2, <2>3, <2>4 DEF OneAnswer
  <1>14. Outdated(s) => Outdated(s)'
    <2>1. Announced(s) => Announced(s)'
      BY <1>5, AnnouncedRest
    <2> QED
      BY <1>8, <1>10, <2>1 DEF Outdated
  <1>15. ASSUME Known(s) PROVE Known(s)'
    <2>1. Listing(s) => Listing(s)'
      BY <1>1, <1>8, <1>10, <1>11 DEF Listing, Answers
    <2>2. ASSUME NEW i \in DOMAIN inbox'[s], inbox'[s][i].what = "page" PROVE Fits(s, inbox[s][i])'
      <3>1. i = n + 1
        BY <1>8, <1>12, <2>2 DEF Coming, Answers
      <3>2. Fits(s, m)
        BY <1>8, <1>11, <1>15, <2>2, <3>1 DEF Known
      <3> QED
        BY <1>5, <1>8, <1>10, <3>1, <3>2 DEF Fits, Upto
    <2>3. peer[s].seen = Upto(peer[s].cursor) => peer'[s].seen = Upto(peer[s].cursor)'
      BY <1>5, <1>10 DEF Upto
    <2> QED
      BY <1>2, <1>4, <1>5, <1>10, <1>15, <2>1, <2>2, <2>3 DEF Known
  <1>16. Knows(s)'
    <2>1. Knows(s)
      BY DEF Inv
    <2> QED
      BY <1>10, <1>14, <1>15, <2>1 DEF Knows
  <1>17. UNCHANGED <<kind, list, thread, sessionVars>>
    BY <1>1, <1>5
  <1>18. \A r \in Sessions \ {s} : peer'[r] = peer[r] /\ serve'[r] = serve[r] /\ inbox'[r] = inbox[r]
    BY <1>4, <1>6, <1>10
  <1>19. ListTypes'
    BY <1>5
  <1> QED
    BY <1>9, <1>13, <1>16, <1>17, <1>18, <1>19, OneSession

\* The first message is taken off; the others stay as they are.
LEMMA Taken ==
  ASSUME Inv, NEW s \in Sessions, inbox[s] # <<>>, inbox' = [inbox EXCEPT ![s] = Tail(@)]
  PROVE  /\ inbox' \in [Sessions -> Seq(Notes \cup Responses)]
         /\ \A r \in Sessions \ {s} : inbox'[r] = inbox[r]
         /\ 1 \in DOMAIN inbox[s] /\ inbox[s][1] = Head(inbox[s])
         /\ Head(inbox[s]) \in Notes \cup Responses
         /\ \A i \in DOMAIN inbox'[s] : /\ i + 1 \in DOMAIN inbox[s] /\ i + 1 # 1
                                        /\ inbox'[s][i] = inbox[s][i + 1]
         /\ \A j \in DOMAIN inbox[s] : j # 1 =>
               \E i \in DOMAIN inbox'[s] : inbox'[s][i] = inbox[s][j]
         /\ \A i, j \in DOMAIN inbox'[s] : i + 1 = j + 1 => i = j
  <1> DEFINE M == Notes \cup Responses
             q == inbox[s]
  <1> HIDE DEF M
  <1>1. inbox \in [Sessions -> Seq(M)] /\ q \in Seq(M) /\ q # <<>>
    BY DEF Inv, PeerTypes, M
  <1>2. /\ inbox'[s] = Tail(q) /\ \A r \in Sessions \ {s} : inbox'[r] = inbox[r]
    BY <1>1
  <1> HIDE DEF q
  <1>3. /\ Head(q) \in M /\ Tail(q) \in Seq(M) /\ Len(Tail(q)) = Len(q) - 1
        /\ \A i \in 1..Len(Tail(q)) : Tail(q)[i] = q[i + 1]
    BY <1>1, HeadTailProperties
  <1>4. /\ Len(q) \in Nat /\ DOMAIN q = 1..Len(q) /\ DOMAIN Tail(q) = 1..(Len(q) - 1)
        /\ Len(q) # 0 /\ Head(q) = q[1]
    BY <1>1, <1>3, LenProperties, EmptySeq
  <1>5. inbox' \in [Sessions -> Seq(M)]
    BY <1>1, <1>3 DEF q
  <1>6. 1 \in DOMAIN q
    BY <1>4
  <1>7. ASSUME NEW i \in 1..(Len(q) - 1)
        PROVE  i + 1 \in 1..Len(q) /\ i + 1 # 1 /\ Tail(q)[i] = q[i + 1]
    BY <1>3, <1>4
  <1>8. ASSUME NEW j \in 1..Len(q), j # 1
        PROVE  \E i \in 1..(Len(q) - 1) : Tail(q)[i] = q[j]
    <2>1. j - 1 \in 1..(Len(q) - 1) /\ (j - 1) + 1 = j
      BY <1>4, <1>8
    <2> QED
      BY <1>7, <2>1
  <1>9. \A i, j \in 1..(Len(q) - 1) : i + 1 = j + 1 => i = j
    BY <1>4
  <1> QED
    BY <1>2, <1>3, <1>4, <1>5, <1>6, <1>7, <1>8, <1>9 DEF q, M

\* What a peer becomes, by what it receives.
LEMMA Becoming ==
  ASSUME Inv, NEW s \in Sessions, NEW m \in Notes \cup Responses,
         NEW p \in Received(peer[s], m)
  PROVE  /\ p \in Peers
         /\ m.what \in Answers => p.at = "idle"
         /\ m.what \notin Answers => p.at = peer[s].at
         /\ m.what \in {"changed", "error"} => p.stale
         /\ m.what \notin {"changed", "error"} => p.stale = peer[s].stale
         /\ m.what \notin {"page", "error"} =>
               p.cursor = peer[s].cursor /\ p.seen = peer[s].seen /\ p.view = peer[s].view
         /\ m.what = "page" /\ m.next # 0 => /\ p.cursor = m.next
                                             /\ p.seen = peer[s].seen \cup m.items
         /\ m.what = "page" /\ m.next = 0 => /\ p.cursor = 0 /\ p.seen = {}
                                             /\ p.view = peer[s].seen \cup m.items
  <1> DEFINE o == peer[s]
  <1>1. o \in Peers
    BY DEF Inv, PeerTypes
  <1>2. m.what \in {"changed", "message", "updated"} \/ m.what \in Answers
    BY Whats
  <1>3. m.what = "page" => m.next \in Cursors /\ m.items \subseteq Names
    BY DEF Notes, Responses
  <1>a. p \in Received(o, m)
    OBVIOUS
  <1> HIDE DEF o
  <1>4. CASE m.what = "changed"
    <2>1. p = [o EXCEPT !.stale = TRUE]
      BY <1>a, <1>4 DEF Received
    <2>2. p \in Peers /\ p.stale /\ p.at = o.at /\ p.cursor = o.cursor /\ p.seen = o.seen /\ p.view = o.view
      BY <1>1, <2>1 DEF Peers
    <2> QED
      BY <1>4, <2>2 DEF Answers, o
  <1>5. CASE m.what \in {"updated", "message"}
    <2>1. p = o
      BY <1>a, <1>5 DEF Received
    <2> QED
      BY <1>1, <1>5, <2>1 DEF Answers, o
  <1>6. CASE m.what = "page" /\ m.next # 0
    <2>1. p = [o EXCEPT !.at = "idle", !.cursor = m.next, !.seen = @ \cup m.items]
      BY <1>a, <1>6 DEF Received
    <2>2. /\ p \in Peers /\ p.stale = o.stale /\ p.at = "idle" /\ p.cursor = m.next
          /\ p.seen = o.seen \cup m.items
      BY <1>1, <1>3, <1>6, <2>1 DEF Peers
    <2> QED
      BY <1>6, <2>2 DEF Answers, o
  <1>7. CASE m.what = "page" /\ m.next = 0
    <2>1. p = [o EXCEPT !.at = "idle", !.cursor = 0, !.seen = {}, !.view = o.seen \cup m.items]
      BY <1>a, <1>7 DEF Received
    <2>2. 0 \in Cursors
      BY <1>3, <1>7
    <2>3. /\ p \in Peers /\ p.stale = o.stale /\ p.at = "idle" /\ p.cursor = 0
          /\ p.seen = {} /\ p.view = o.seen \cup m.items
      BY <1>1, <1>3, <1>7, <2>1, <2>2 DEF Peers
    <2> QED
      BY <1>7, <2>3 DEF Answers, o
  <1>8. CASE m.what = "error"
    <2>1. p = [o EXCEPT !.at = "idle", !.cursor = 0, !.stale = TRUE]
      BY <1>a, <1>8 DEF Received
    <2>2. 0 \in Cursors
      BY RegistryAssumption, FS_CardinalityType DEF Cursors
    <2>3. p \in Peers /\ p.stale /\ p.at = "idle"
      BY <1>1, <2>1, <2>2 DEF Peers
    <2> QED
      BY <1>8, <2>3 DEF Answers, o
  <1>9. CASE m.what = "unsupported"
    <2>1. p = [o EXCEPT !.at = "idle"]
      BY <1>a, <1>9 DEF Received
    <2>2. /\ p \in Peers /\ p.stale = o.stale /\ p.at = "idle" /\ p.cursor = o.cursor
          /\ p.seen = o.seen /\ p.view = o.view
      BY <1>1, <2>1 DEF Peers
    <2> QED
      BY <1>9, <2>2 DEF Answers, o
  <1>10. CASE m.what = "answer"
    <2>1. Received(o, m) = {[o EXCEPT !.at = "idle", !.turn = u] : u \in NextTurn(o)}
      BY <1>10 DEF Received
    <2>2. PICK u \in NextTurn(o) : p = [o EXCEPT !.at = "idle", !.turn = u]
      BY <1>a, <2>1
    <2>3. u \in {0} \cup 0..MaxTurns - 1
      <3>1. o.turn \in {0} \cup 0..MaxTurns - 1
        BY <1>1 DEF Peers
      <3>2. MaxTurns \in Int /\ (u = 0 \/ (o.turn + 1 < MaxTurns /\ u = o.turn + 1))
        BY <2>2, RegistryAssumption DEF NextTurn
      <3> QED
        BY <3>1, <3>2
    <2>4. /\ p \in Peers /\ p.stale = o.stale /\ p.at = "idle" /\ p.cursor = o.cursor
          /\ p.seen = o.seen /\ p.view = o.view
      BY <1>1, <2>2, <2>3 DEF Peers
    <2> QED
      BY <1>10, <2>4 DEF Answers, o
  <1> QED
    BY <1>2, <1>4, <1>5, <1>6, <1>7, <1>8, <1>9, <1>10 DEF Answers

\* The peer reads a notification or its answer.
LEMMA ReceiveInv == ASSUME Inv, NEW s \in Sessions, Receive(s) PROVE Inv'
  <1> DEFINE m == Head(inbox[s])
  <1>1. /\ inbox[s] # <<>> /\ inbox' = [inbox EXCEPT ![s] = Tail(@)]
        /\ UNCHANGED <<kind, serve, sessionVars, ownerVars>>
    BY DEF Receive
  <1>2. PICK p \in Received(peer[s], m) : peer' = [peer EXCEPT ![s] = p]
    BY DEF Receive
  <1>3. /\ inbox' \in [Sessions -> Seq(Notes \cup Responses)]
        /\ \A r \in Sessions \ {s} : inbox'[r] = inbox[r]
        /\ 1 \in DOMAIN inbox[s] /\ inbox[s][1] = m /\ m \in Notes \cup Responses
        /\ \A i \in DOMAIN inbox'[s] : /\ i + 1 \in DOMAIN inbox[s] /\ i + 1 # 1
                                       /\ inbox'[s][i] = inbox[s][i + 1]
        /\ \A j \in DOMAIN inbox[s] : j # 1 =>
              \E i \in DOMAIN inbox'[s] : inbox'[s][i] = inbox[s][j]
        /\ \A i, j \in DOMAIN inbox'[s] : i + 1 = j + 1 => i = j
    BY <1>1, Taken
  <1>4. /\ p \in Peers
        /\ m.what \in Answers => p.at = "idle"
        /\ m.what \notin Answers => p.at = peer[s].at
        /\ m.what \in {"changed", "error"} => p.stale
        /\ m.what \notin {"changed", "error"} => p.stale = peer[s].stale
        /\ m.what \notin {"page", "error"} =>
              p.cursor = peer[s].cursor /\ p.seen = peer[s].seen /\ p.view = peer[s].view
        /\ m.what = "page" /\ m.next # 0 => /\ p.cursor = m.next
                                            /\ p.seen = peer[s].seen \cup m.items
        /\ m.what = "page" /\ m.next = 0 => /\ p.cursor = 0 /\ p.seen = {}
                                            /\ p.view = peer[s].seen \cup m.items
    BY <1>2, <1>3, Becoming
  <1> HIDE DEF m
  <1>5. /\ peer' \in [Sessions -> Peers] /\ peer'[s] = p
        /\ \A r \in Sessions \ {s} : peer'[r] = peer[r]
    BY <1>2, <1>4 DEF Inv, PeerTypes
  <1>6. ListTypes' /\ list' = list /\ thread' = thread /\ kind' = kind
    BY <1>1, ListRest
  <1>7. PeerTypes'
    BY <1>1, <1>3, <1>5 DEF Inv, PeerTypes
  <1>8. state' = state /\ declared' = declared /\ serve' = serve
    BY <1>1 DEF sessionVars
  <1>9. OneAnswer(s) /\ state[s] = "operating"
    BY <1>1 DEF Inv, OneAnswer
  <1>10. ASSUME m.what \in Answers
         PROVE  /\ ~Coming(s)' /\ serve[s].what = "none"
                /\ \A i \in DOMAIN inbox'[s] : inbox'[s][i].what \notin Answers
    <2>1. Coming(s)
      BY <1>3, <1>10 DEF Coming
    <2>2. \A i \in DOMAIN inbox'[s] : inbox'[s][i].what \notin Answers
      BY <1>3, <1>9, <1>10 DEF OneAnswer
    <2> QED
      BY <1>9, <2>1, <2>2 DEF OneAnswer, Coming
  <1>11. ASSUME m.what \notin Answers PROVE Coming(s)' <=> Coming(s)
    <2>1. Coming(s)' => Coming(s)
      BY <1>3 DEF Coming
    <2>2. Coming(s) => Coming(s)'
      BY <1>3, <1>11 DEF Coming
    <2> QED
      BY <2>1, <2>2
  <1>12. OneAnswer(s)'
    <2>1. \A i, j \in DOMAIN inbox'[s] :
             inbox'[s][i].what \in Answers /\ inbox'[s][j].what \in Answers => i = j
      BY <1>3, <1>9 DEF OneAnswer
    <2>2. declared[s] => \A i \in DOMAIN inbox'[s] : inbox'[s][i].what # "unsupported"
      BY <1>3, <1>9 DEF OneAnswer
    <2>3. ~p.stale => kind \in Listable
      BY <1>4, <1>9 DEF OneAnswer
    <2>4. CASE m.what \in Answers
      BY <1>4, <1>5, <1>6, <1>8, <1>9, <1>10, <2>1, <2>2, <2>3, <2>4 DEF OneAnswer
    <2>5. CASE m.what \notin Answers
      BY <1>4, <1>5, <1>6, <1>8, <1>9, <1>11, <2>1, <2>2, <2>3, <2>5 DEF OneAnswer
    <2> QED
      BY <2>4, <2>5
  <1>13. Knows(s)'
    <2>1. CASE m.what \in {"changed", "error"}
      BY <1>4, <1>5, <2>1 DEF Knows, Outdated
    <2>2. CASE m.what = "unsupported"
      <3>1. ~declared[s]
        BY <1>3, <1>9, <2>2 DEF OneAnswer
      <3> QED
        BY <1>8, <3>1 DEF Knows
    <2>3. ASSUME m.what \notin {"changed", "error"}, Outdated(s) PROVE Outdated(s)'
      <3>1. Announced(s) => Announced(s)'
        BY <1>6, AnnouncedRest
      <3>2. ASSUME NEW j \in DOMAIN inbox[s], inbox[s][j].what = "changed"
            PROVE  \E i \in DOMAIN inbox'[s] : inbox'[s][i].what = "changed"
        <4>1. j # 1
          BY <1>3, <2>3, <3>2
        <4>2. PICK i \in DOMAIN inbox'[s] : inbox'[s][i] = inbox[s][j]
          BY <1>3, <4>1
        <4> QED
          BY <3>2, <4>2
      <3> QED
        BY <1>4, <1>5, <2>3, <3>1, <3>2 DEF Outdated
    <2>4. Knows(s)
      BY DEF Inv
    <2>5. ASSUME m.what = "page", Known(s) PROVE Known(s)'
      <3>1. m.what \in Answers
        BY <2>5 DEF Answers
      <3>2. /\ serve'[s].what = "none"
            /\ \A i \in DOMAIN inbox'[s] : inbox'[s][i].what # "page"
        BY <1>8, <1>10, <3>1 DEF Answers
      <3>3. Fits(s, m)
        BY <1>3, <2>5 DEF Known
      <3>4. CASE m.next # 0
        <4>1. peer'[s].cursor = m.next /\ peer'[s].seen = Upto(m.next) /\ m.next <= Len(list)
          BY <1>4, <1>5, <2>5, <3>3, <3>4 DEF Fits
        <4>2. peer'[s].seen = Upto(peer[s].cursor)'
          BY <1>6, <4>1 DEF Upto
        <4>3. Listing(s)'
          BY <3>4, <4>1 DEF Listing
        <4> QED
          BY <1>6, <3>2, <4>1, <4>2, <4>3 DEF Known
      <3>5. CASE m.next = 0
        <4>1. /\ peer'[s].cursor = 0 /\ peer'[s].seen = {} /\ peer'[s].view = Range(list')
          BY <1>4, <1>5, <1>6, <2>5, <3>3, <3>5 DEF Fits
        <4>2. peer'[s].seen = Upto(peer[s].cursor)'
          BY <4>1 DEF Upto
        <4>3. Len(list) \in Nat
          BY LenProperties DEF Inv, ListTypes
        <4>4. peer'[s].cursor <= Len(list')
          BY <1>6, <4>1, <4>3
        <4> QED
          BY <3>2, <4>1, <4>2, <4>4 DEF Known
      <3> QED
        BY <3>4, <3>5
    <2>6. ASSUME m.what \notin {"changed", "error", "page"}, Known(s) PROVE Known(s)'
      <3>1. /\ peer'[s].cursor = peer[s].cursor /\ peer'[s].seen = peer[s].seen
            /\ peer'[s].view = peer[s].view
        BY <1>4, <1>5, <2>6
      <3>2. Listing(s) => Listing(s)'
        BY <1>3, <1>8, <2>6, <3>1 DEF Listing
      <3>3. Fits(s, serve[s]) => Fits(s, serve[s])'
        BY <1>6, <1>8, <3>1 DEF Fits, Upto
      <3>4. ASSUME NEW i \in DOMAIN inbox'[s], inbox'[s][i].what = "page" PROVE Fits(s, inbox[s][i])'
        <4>1. Fits(s, inbox[s][i + 1]) /\ inbox'[s][i] = inbox[s][i + 1]
          BY <1>3, <2>6, <3>4 DEF Known
        <4> QED
          BY <1>6, <3>1, <4>1 DEF Fits, Upto
      <3>5. peer[s].seen = Upto(peer[s].cursor) => peer'[s].seen = Upto(peer[s].cursor)'
        BY <1>6, <3>1 DEF Upto
      <3> QED
        BY <1>6, <1>8, <2>6, <3>1, <3>2, <3>3, <3>4, <3>5 DEF Known
    <2> QED
      BY <1>8, <2>1, <2>2, <2>3, <2>4, <2>5, <2>6 DEF Knows
  <1>14. UNCHANGED <<kind, list, thread, sessionVars>>
    BY <1>1, <1>6
  <1>15. \A r \in Sessions \ {s} : peer'[r] = peer[r] /\ serve'[r] = serve[r] /\ inbox'[r] = inbox[r]
    BY <1>3, <1>5, <1>8
  <1>16. ListTypes'
    BY <1>6
  <1> QED
    BY <1>7, <1>12, <1>13, <1>14, <1>15, <1>16, OneSession

-----------------------------------------------------------------------------
(* The theorems                                                            *)

LEMMA InitInv == Init => Inv
  <1> SUFFICES ASSUME Init PROVE Inv
    OBVIOUS
  <1>1. ListTypes
    <2>1. <<>> \in Seq(Names) /\ IsInjective(<<>>)
      BY DEF IsInjective
    <2>2. list \in Seq(Names) /\ IsInjective(list)
      BY <2>1, AllNames DEF Init
    <2> QED
      BY <2>2 DEF Init, ListTypes, Levels
  <1>2. SessionTypes
    <2>1. declared \in [Sessions -> BOOLEAN]
      BY Zenon DEF Init
    <2> QED
      BY <2>1 DEF Init, SessionTypes, States
  <1>3. PeerTypes
    <2>1. NoBody \in Bodies /\ <<>> \in Seq(Notes \cup Responses)
      BY Whats
    <2> QED
      BY <2>1, NewPeerIsPeer DEF Init, PeerTypes
  <1>4. ThreadsBroadcast
    BY DEF Init, ThreadsBroadcast, IdleThread, Jobs
  <1>5. SessionsInOrder
    <2>1. callback \in BOOLEAN
      BY Zenon DEF Init
    <2>2. attached = {} /\ \A s \in Sessions : state[s] = "none"
      BY DEF Init
    <2> QED
      BY <2>1, <2>2 DEF SessionsInOrder
  <1>6. ASSUME NEW s \in Sessions PROVE OneAnswer(s) /\ Knows(s)
    <2>1. /\ state[s] = "none" /\ peer[s] = NewPeer /\ serve[s] = NoBody /\ inbox[s] = <<>>
      BY DEF Init
    <2>2. OneAnswer(s)
      BY <2>1, NewPeerIsPeer, Whats DEF OneAnswer, Coming
    <2> QED
      BY <2>1, <2>2 DEF Knows
  <1> QED
    BY <1>1, <1>2, <1>3, <1>4, <1>5, <1>6 DEF Inv

LEMMA OwnerInv == ASSUME Inv, NEW t \in Threads, OwnerStep(t) PROVE Inv'
  <1>1. ASSUME NEW n \in Names,
               \/ register_tool(t, n) \/ add_prompt(t, n) \/ add_root(t, n)
               \/ add_resource(t, n) \/ add_resource_template(t, n)
        PROVE  Inv'
    <2>1. Add(t, n) \/ AddOther(t, n)
      BY <1>1 DEF register_tool, add_prompt, add_root, add_resource, add_resource_template
    <2> QED
      BY <2>1, AddInv, OtherInv
  <1>2. ASSUME NEW n \in Names, remove_tool(t, n) \/ remove_prompt(t, n) \/ remove_root(t, n)
        PROVE  Inv'
    <2>1. kind \notin Provided /\ n \in Range(list) /\ Changed(t, Without(n), others, subs)
      BY <1>2 DEF remove_tool, remove_prompt, remove_root, Withdraw, Provided
    <2> QED
      BY <2>1, RemoveInv
  <1>3. ASSUME NEW n \in Names, remove_resource(t, n) PROVE Inv'
    <2>1. \/ n \in Range(list) /\ Changed(t, Without(n), others, subs \ {n})
          \/ Changed(t, list, others \ {n}, subs \ {n})
      BY <1>3 DEF remove_resource
    <2>2. subs \ {n} \in SUBSET subs
      OBVIOUS
    <2> QED
      BY <2>1, <2>2, RemoveInv, OtherInv
  <1>4. ASSUME NEW n \in Names, notify_resource_updated(t, n) PROVE Inv'
    <2>1. [what |-> "updated", uri |-> n] \in Notes \cup {NoBody}
      BY DEF Notes
    <2>2. OwnerCall(t, [what |-> "updated", uri |-> n]) /\ UNCHANGED <<list, others, subs, level>>
      BY <1>4 DEF notify_resource_updated
    <2> QED
      BY <2>1, <2>2, CallInv
  <1>5. ASSUME NEW l \in Levels, log(t, l) PROVE Inv'
    <2>1. IfSet([what |-> "message"]) \in Notes \cup {NoBody}
      BY DEF Notes, IfSet
    <2>2. OwnerCall(t, IfSet([what |-> "message"])) /\ UNCHANGED <<list, others, subs, level>>
      BY <1>5 DEF log
    <2> QED
      BY <2>1, <2>2, CallInv
  <1> QED
    BY <1>1, <1>2, <1>3, <1>4, <1>5, SetCompletionInv, BroadcastInv, BroadcastDoneInv, SendToInv,
       RootsChangedInv DEF OwnerStep

LEMMA SessionInv == ASSUME Inv, NEW s \in Sessions, SessionStep(s) PROVE Inv'
  <1>1. ASSUME Wire(s) PROVE Inv'
    <2>1. /\ state[s] = "attached" /\ state' = [state EXCEPT ![s] = "initializing"]
          /\ callback' = TRUE /\ UNCHANGED <<kind, attached, declared, ownerVars, peerVars, inbox>>
      BY <1>1 DEF Wire, Becomes
    <2>2. kind \in ServerKinds => s \in attached
      BY <2>1 DEF Inv, SessionsInOrder
    <2> QED
      BY <2>1, <2>2, WiredInv
  <1>2. ASSUME wire_session(s) PROVE Inv'
    <2>1. /\ state[s] = "constructed" /\ state' = [state EXCEPT ![s] = "initializing"]
          /\ callback' = TRUE /\ UNCHANGED <<kind, attached, declared, ownerVars, peerVars, inbox>>
      BY <1>2 DEF wire_session, Becomes
    <2>2. kind \notin ServerKinds
      BY <1>2 DEF wire_session, ClientKinds, ServerKinds
    <2> QED
      BY <2>1, <2>2, WiredInv
  <1> QED
    BY <1>1, <1>2, ConstructInv, AttachInv, OperateInv, CloseInv, DetachInv, DestroyInv
       DEF SessionStep

LEMMA PeerInv == ASSUME Inv, NEW s \in Sessions, PeerStep(s) PROVE Inv'
  <1>1. ASSUME \/ ListTools(s) \/ ListResources(s) \/ ListResourceTemplates(s) \/ ListPrompts(s)
               \/ ListRoots(s)
        PROVE  Inv'
    <2>1. kind \in Listable /\ AskPage(s)
      BY <1>1 DEF ListTools, ListResources, ListResourceTemplates, ListPrompts, ListRoots, Listable
    <2> QED
      BY <2>1, AskPageInv
  <1>2. ASSUME NEW n \in Names,
               \/ CallTool(s, n) \/ ReadResource(s, n) \/ GetPrompt(s, n) \/ Complete(s, n)
               \/ CreateMessage(s, n)
        PROVE  Inv'
    <2>1. AskFor(s, "call", n)
      BY <1>2 DEF CallTool, ReadResource, GetPrompt, Complete, CreateMessage, Use
    <2>2. [what |-> "call", name |-> n] \in Requests
      BY DEF Requests
    <2> QED
      BY <2>1, <2>2, AskForInv
  <1>3. ASSUME NEW n \in Names, SubscribeResource(s, n) PROVE Inv'
    <2>1. AskFor(s, "subscribe", n)
      BY <1>3 DEF SubscribeResource
    <2>2. [what |-> "subscribe", name |-> n] \in Requests
      BY DEF Requests
    <2> QED
      BY <2>1, <2>2, AskForInv
  <1>4. ASSUME NEW n \in Names, UnsubscribeResource(s, n) PROVE Inv'
    <2>1. AskFor(s, "unsubscribe", n)
      BY <1>4 DEF UnsubscribeResource
    <2>2. [what |-> "unsubscribe", name |-> n] \in Requests
      BY DEF Requests
    <2> QED
      BY <2>1, <2>2, AskForInv
  <1>5. ASSUME NEW l \in Levels, SetLoggingLevel(s, l) PROVE Inv'
    <2>1. AskFor(s, "setLevel", l)
      BY <1>5 DEF SetLoggingLevel
    <2>2. [what |-> "setLevel", name |-> l] \in Requests
      BY DEF Requests
    <2> QED
      BY <2>1, <2>2, AskForInv
  <1> QED
    BY <1>1, <1>2, <1>3, <1>4, <1>5, ReceiveInv DEF PeerStep

LEMMA ServingInv == ASSUME Inv, NEW s \in Sessions, ServeStep(s) PROVE Inv'
  BY RefuseInv, RespondInv, ListInv, UseInv, SetInv DEF ServeStep

LEMMA StutterInv == ASSUME Inv, UNCHANGED registryVars PROVE Inv'
  <1>1. UNCHANGED <<kind, sessionVars, peerVars, inbox>> /\ list' = list /\ thread' = thread
        /\ others' = others /\ subs' = subs /\ level' = level
    BY DEF registryVars, sessionVars, peerVars
  <1>2. ListTypes'
    BY <1>1 DEF Inv, ListTypes
  <1>3. attached' = attached /\ declared' = declared /\ state' = state /\ peer' = peer
        /\ serve' = serve /\ inbox' = inbox
    BY <1>1 DEF sessionVars, peerVars
  <1>4. ThreadsBroadcast'
    BY <1>1, <1>3 DEF Inv, ThreadsBroadcast
  <1>5. ASSUME NEW r \in Sessions PROVE Knows(r)'
    <2>1. Announced(r) => Announced(r)'
      BY <1>1, AnnouncedRest
    <2> QED
      BY <1>1, <1>3, <2>1, KnowRest
  <1> QED
    BY <1>1, <1>2, <1>4, <1>5, OwnerRest DEF Inv

\* The invariant holds in every state: what a peer has seen is what is
\* registered, as far as its listing has come, unless it is going to be told
\* to list again.
THEOREM InvHolds == Spec => []Inv
  <1>1. Inv /\ [Next]_registryVars => Inv'
    BY OwnerInv, SessionInv, PeerInv, ServingInv, StutterInv DEF Next
  <1> QED
    BY <1>1, InitInv, PTL DEF Spec

\* Type correctness: no name is registered twice, no cursor lies beyond what
\* there are names for, whatever is added and removed during a listing.
THEOREM RegistryTypeCorrect == Spec => []TypeOK
  <1>1. Inv => TypeOK
    <2> SUFFICES ASSUME Inv PROVE TypeOK
      OBVIOUS
    <2>1. /\ list \in Seq(Names) /\ IsInjective(list) /\ others \cup subs \subseteq Names
          /\ callback \in BOOLEAN /\ attached \subseteq Sessions /\ level \in Levels
      BY DEF Inv, ListTypes, SessionTypes, SessionsInOrder
    <2>2. ASSUME NEW t \in Threads
          PROVE  thread[t].at \in {"idle", "call", "send"} /\ thread[t].todo \subseteq Sessions
      BY DEF Inv, ThreadsBroadcast, Jobs
    <2>3. ASSUME NEW s \in Sessions
          PROVE  /\ state[s] \in States /\ declared[s] \in BOOLEAN /\ serve[s] \in Bodies
                 /\ peer[s] \in Peers
      BY DEF Inv, SessionTypes, PeerTypes
    <2>4. ASSUME NEW p \in Peers
          PROVE  /\ p.at \in {"idle", "wait"} /\ p.stale \in BOOLEAN
                 /\ p.cursor \in 0..Cardinality(Names) /\ p.turn \in {0} \cup 0..MaxTurns - 1
                 /\ p.seen \cup p.view \subseteq Names
      BY DEF Peers, Cursors
    <2> QED
      BY <2>1, <2>2, <2>3, <2>4, Whats DEF TypeOK, States
  <1> QED
    BY <1>1, InvHolds, PTL

\* A peer that lists again on list_changed ends up with what is registered,
\* although its pages are taken from different snapshots of a list that
\* changes between them, and the capability was declared before.
THEOREM PeersEndUpKnowing == Spec => []ViewsConverge
  <1>1. Inv => ViewsConverge
    <2> SUFFICES ASSUME Inv, NEW s \in Sessions,
                        state[s] = "operating", declared[s], inbox[s] = <<>>,
                        peer[s].at = "idle", peer[s].cursor = 0, ~peer[s].stale,
                        \A t \in Threads : thread[t].at = "idle"
                 PROVE  peer[s].view = Range(list)
      BY DEF ViewsConverge
    <2>1. ~Announced(s)
      BY DEF Inv, ThreadsBroadcast, Announced
    <2>2. ~Outdated(s)
      BY <2>1 DEF Outdated
    <2>3. Known(s)
      BY <2>2 DEF Inv, Knows
    <2>4. serve[s].what = "none"
      BY DEF Inv, OneAnswer
    <2> QED
      BY <2>3, <2>4 DEF Known, Listing
  <1> QED
    BY <1>1, InvHolds, PTL

\* A request is being served or its answer is on the way until the peer has
\* it, whatever the registry and the broadcasts do meanwhile, and whatever its
\* handler does but throw something else than a std::exception.
THEOREM RequestsAreAnswered == Spec => []NoRequestIsForgotten
  <1>1. Inv => NoRequestIsForgotten
    <2> SUFFICES ASSUME Inv, NEW s \in Sessions, peer[s].at = "wait"
                 PROVE  serve[s] # NoBody \/ Coming(s)
      BY DEF NoRequestIsForgotten, Coming, Answers
    <2> QED
      BY Whats DEF Inv, OneAnswer
  <1> QED
    BY <1>1, InvHolds, PTL

\* A broadcast never reaches for a session that is destroyed, with any number
\* of threads that broadcast and sessions that come and go.
THEOREM BroadcastsUseLiveSessions == Spec => []NoDanglingSession
  <1>1. Inv => NoDanglingSession
    <2> SUFFICES ASSUME Inv, NEW s \in Sessions, state[s] = "destroyed"
                 PROVE  s \notin attached /\ \A t \in Threads : s \notin thread[t].todo
      BY DEF NoDanglingSession
    <2>1. s \notin attached
      BY DEF Inv, SessionsInOrder
    <2> QED
      BY <2>1 DEF Inv, ThreadsBroadcast
  <1> QED
    BY <1>1, InvHolds, PTL

\* A subscription is to a URI that a resource has or a template matches: the
\* provider's two lists and its subscriptions agree, in any order of additions,
\* removals and the requests of any number of sessions.
THEOREM NoSubscriptionOutlives == Spec => []SubscriptionsAreKnown
  <1>1. Inv => SubscriptionsAreKnown
    BY DEF Inv, ListTypes, Provided, SubscriptionsAreKnown, uri_known_locked
  <1> QED
    BY <1>1, InvHolds, PTL
=============================================================================
