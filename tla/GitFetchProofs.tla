--------------------------- MODULE GitFetchProofs ----------------------------
(***************************************************************************)
(* Proof that tar is given what the packets carry, for any reply of whole  *)
(* packets, with the last byte of each as zero and no other, however it    *)
(* arrives and is read; and that an answer is all of the content of the    *)
(* archive's first entry.                                                  *)
(*                                                                         *)
(* The invariant has the place in the reply that the readers have come to: *)
(* what is left of the packet there is what the SideBandReader takes to be *)
(* left of it, and of what is carried as much is before the place as has   *)
(* been given.                                                             *)
(***************************************************************************)
EXTENDS GitFetch, TLAPS, FiniteSetTheorems, SequenceTheorems, WellFoundedInduction

Cell == (Kinds \cup {"zeroed"}) \X Nat

(* The cells that have been read.                                          *)
Place == Len(reply.cells) - Len(wire) - Len(pipe)

CarriedTo(p) == {i \in Carried : i <= p}
Counted(p) == Cardinality(CarriedTo(p))

AtPacket(p) == p = Len(reply.cells) \/ reply.cells[p + 1][1] = "size"

(* The reply is what has been read, the pipe and the wire.                 *)
CellsInv ==
  /\ reply \in Replies
  /\ wire \in Seq(Cell) /\ pipe \in Seq(Cell) /\ given \in Seq(Cell) /\ block \in Seq(Cell)
  /\ Len(wire) + Len(pipe) <= Len(reply.cells)
  /\ \A i \in 1..Len(pipe) : pipe[i] = reply.cells[Place + i]
  /\ \A i \in 1..Len(wire) : wire[i] = reply.cells[Place + Len(pipe) + i]

(* What has been given is the first of what is carried.                    *)
GivenInv ==
  /\ Len(given) <= Len(Payload)
  /\ \A i \in DOMAIN given : given[i] = Payload[i]

(* Before the archive, at a packet.                                        *)
Before ==
  /\ given = <<>> /\ rest = 0
  /\ AtPacket(Place) /\ \A i \in 1..Place : reply.cells[i][1] # "band"

(* In the archive, before the rest of a packet.                            *)
Within ==
  /\ rest \in Nat /\ Place + rest <= Len(reply.cells) /\ AtPacket(Place + rest)
  /\ \A i \in (Place + 1)..(Place + rest) : i \in Carried
  /\ \E i \in 1..Place : reply.cells[i] = Size(0)
  /\ Len(given) = Counted(Place)

Opening == {"start", "ack", "flush"}
Archived == {"first", "read", "next", "wait", "answered"}

(* An error is kept, and nothing is read after it.                         *)
PlaceInv == (pc \in Opening => Before) /\ (pc \in Archived /\ result # "invalid" => Within)

(* What the cache has of the first entry, and what is left of it: it has   *)
(* content if what was given begins with the header of a file.             *)
HeaderFirst == given[1] = <<"header", 1>> /\ given[2] = <<"header", 2>>

EntryInv ==
  /\ Len(given) >= 2
  /\ HeaderFirst => /\ Len(content) + 2 <= Len(given)
                    /\ \A i \in 1..Len(content) : content[i] = given[2 + i]
                    /\ pc = "read" => /\ Len(given) = Len(content) + 2 /\ Len(content) + left = reply.size
                                      /\ result = "nil"
                    /\ pc # "read" => Len(content) = reply.size
  /\ ~HeaderFirst => content = <<>> /\ (pc = "read" => left = 0)

ContentInv ==
  /\ left \in Nat /\ pad \in Nat /\ content \in Seq(Cell)
  /\ pc \in Opening => block = <<>> /\ result = "nil"
  /\ pc \in Opening \cup {"first"} => left = 0 /\ pad = 0 /\ content = <<>>
  /\ pc = "first" => block = given /\ result \in {"nil", "invalid"}
  /\ pc \in {"wait", "answered"} => result = "EOF"
  /\ pc \in {"read", "next", "wait", "answered"} /\ result # "invalid" => EntryInv

StreamInv == pc \in Opening \cup Archived \cup {"failed", "panicked"} /\ CellsInv /\ GivenInv /\ PlaceInv /\ ContentInv

-----------------------------------------------------------------------------
(***************************************************************************)
(* Sequences                                                               *)
(***************************************************************************)

(* A set of numbers that is not empty has a least one.                     *)
LEMMA LeastNumber ==
  ASSUME NEW S \in SUBSET Nat, S # {}
  PROVE  \E n \in S : \A m \in S : n <= m
<1>1. PICK n \in S : \A m \in S : ~(<<m, n>> \in OpToRel(<, Nat))
  BY NatLessThanWellFounded, WFMin
<1>2. \A m \in S : ~(m < n)
  BY <1>1 DEF OpToRel
<1> QED
  BY <1>2

(* The end of a sequence.                                                  *)
LEMMA Ends ==
  ASSUME NEW S, NEW s \in Seq(S), NEW i \in 1..(Len(s) + 1)
  PROVE  /\ From(s, i) \in Seq(S) /\ Len(From(s, i)) = Len(s) - i + 1
         /\ \A j \in 1..(Len(s) - i + 1) : From(s, i)[j] = s[i + j - 1]
<1>1. Len(s) \in Nat
  OBVIOUS
<1>2. CASE i = Len(s) + 1
  <2>1. From(s, i) = <<>>
    BY <1>1, <1>2, SubSeqProperties DEF From
  <2>2. Len(s) - i + 1 = 0 /\ 1..0 = {}
    BY <1>1, <1>2
  <2>3. <<>> \in Seq(S) /\ Len(<<>>) = 0
    OBVIOUS
  <2> QED
    BY <2>1, <2>2, <2>3
<1>3. CASE i <= Len(s)
  BY <1>1, <1>3, SubSeqProperties DEF From
<1> QED
  BY <1>1, <1>2, <1>3

(* What is read of a pipe: all of its packets that are a flush are skipped.*)
LEMMA Skipped ==
  ASSUME pipe \in Seq(Cell)
  PROVE  /\ Unflushed \in Seq(Cell)
         /\ Unflushed # <<>> =>
              \E m \in 0..(Len(pipe) - 1) :
                /\ \A i \in 1..m : pipe[i] = Size(0)
                /\ pipe[m + 1] # Size(0)
                /\ Len(Unflushed) = Len(pipe) - m
                /\ \A i \in 1..(Len(pipe) - m) : Unflushed[i] = pipe[m + i]
<1> DEFINE n == {i \in DOMAIN pipe : pipe[i] # Size(0)}
<1>1. Unflushed = IF n = {} THEN <<>> ELSE From(pipe, CHOOSE i \in n : \A j \in n : i <= j)
  BY DEF Unflushed, From
<1>2. n \in SUBSET Nat /\ DOMAIN pipe = 1..Len(pipe) /\ Len(pipe) \in Nat
  BY LenProperties
<1>3. CASE n = {}
  BY <1>1, <1>3
<1>4. CASE n # {}
  <2> DEFINE c == CHOOSE i \in n : \A j \in n : i <= j
  <2>1. c \in n /\ \A j \in n : c <= j
    <3> HIDE DEF n
    <3>1. \E i \in n : \A j \in n : i <= j
      BY <1>2, <1>4, LeastNumber
    <3> QED
      BY <3>1
  <2>2. Unflushed = From(pipe, c) /\ c \in 1..Len(pipe) /\ pipe[c] # Size(0)
    BY <1>1, <1>2, <1>4, <2>1
  <2>3. \A i \in 1..(c - 1) : pipe[i] = Size(0)
    <3>1. ASSUME NEW i \in 1..(c - 1) PROVE i \in DOMAIN pipe /\ ~(c <= i)
      BY <1>2, <2>2
    <3> QED
      BY <2>1, <3>1
  <2> HIDE DEF n, c
  <2>4. /\ Unflushed \in Seq(Cell) /\ Len(Unflushed) = Len(pipe) - (c - 1)
        /\ \A i \in 1..(Len(pipe) - (c - 1)) : Unflushed[i] = pipe[(c - 1) + i]
    <3>1. c \in 1..(Len(pipe) + 1)
      BY <1>2, <2>2
    <3>2. Len(pipe) - c + 1 = Len(pipe) - (c - 1) /\ \A i \in 1..(Len(pipe) - (c - 1)) : c + i - 1 = (c - 1) + i
      BY <1>2, <2>2
    <3>3. /\ From(pipe, c) \in Seq(Cell) /\ Len(From(pipe, c)) = Len(pipe) - c + 1
          /\ \A j \in 1..(Len(pipe) - c + 1) : From(pipe, c)[j] = pipe[c + j - 1]
      BY <3>1, Ends
    <3> QED
      BY <2>2, <3>2, <3>3
  <2>5. c - 1 \in 0..(Len(pipe) - 1) /\ (c - 1) + 1 = c
    BY <1>2, <2>2
  <2> QED
    BY <2>2, <2>3, <2>4, <2>5
<1> QED
  BY <1>3, <1>4

-----------------------------------------------------------------------------
(***************************************************************************)
(* What is carried                                                         *)
(***************************************************************************)

(* What is carried before a place is counted.                              *)
LEMMA CountedTyped ==
  ASSUME reply.cells \in Seq(Cell)
  PROVE  /\ IsFiniteSet(Carried) /\ Cardinality(Carried) \in Nat
         /\ Carried \subseteq 1..Len(reply.cells) /\ DOMAIN reply.cells = 1..Len(reply.cells)
         /\ Len(reply.cells) \in Nat
         /\ \A p : IsFiniteSet(CarriedTo(p)) /\ Counted(p) \in Nat /\ Counted(p) <= Cardinality(Carried)
<1>1. Len(reply.cells) \in Nat /\ DOMAIN reply.cells = 1..Len(reply.cells)
  BY LenProperties
<1>2. Carried \subseteq 1..Len(reply.cells)
  BY <1>1 DEF Carried
<1>3. IsFiniteSet(1..Len(reply.cells))
  BY <1>1, FS_Interval
<1>4. IsFiniteSet(Carried)
  BY <1>2, <1>3, FS_Subset
<1>5. ASSUME NEW p PROVE IsFiniteSet(CarriedTo(p)) /\ Counted(p) \in Nat /\ Counted(p) <= Cardinality(Carried)
  <2>1. CarriedTo(p) \in SUBSET Carried
    BY DEF CarriedTo
  <2>2. IsFiniteSet(CarriedTo(p)) /\ Cardinality(CarriedTo(p)) <= Cardinality(Carried)
    BY <1>4, <2>1, FS_Subset
  <2> QED
    BY <2>2, FS_CardinalityType DEF Counted
<1>6. Cardinality(Carried) \in Nat
  BY <1>4, FS_CardinalityType
<1> QED
  BY <1>1, <1>2, <1>4, <1>5, <1>6

(* A carried cell is where it is counted in the payload.                   *)
LEMMA PayloadAt ==
  ASSUME reply.cells \in Seq(Cell)
  PROVE  /\ Len(Payload) = Cardinality(Carried) /\ DOMAIN Payload = 1..Cardinality(Carried)
         /\ \A i \in Carried : Counted(i) \in 1..Len(Payload) /\ Payload[Counted(i)] = Given(i)
<1> DEFINE n == Cardinality(Carried)
           f == [k \in 1..n |-> Given(CHOOSE i \in Carried : Counted(i) = k)]
<1>1. Payload = f
  BY DEF Payload, Counted, CarriedTo
<1>2. n \in Nat
  BY CountedTyped
<1>3. Len(f) = n /\ DOMAIN f = 1..n
  <2> HIDE DEF n
  <2>1. DOMAIN f = 1..n
    OBVIOUS
  <2> QED
    BY <1>2, <2>1
<1>4. ASSUME NEW i \in Carried PROVE Counted(i) \in 1..n /\ \A j \in Carried : Counted(j) = Counted(i) => j = i
  <2>1. i \in Nat /\ Carried \subseteq Nat /\ \A p : IsFiniteSet(CarriedTo(p)) /\ Counted(p) \in Nat /\ Counted(p) <= n
    BY CountedTyped
  <2>2. i \in CarriedTo(i)
    BY <2>1 DEF CarriedTo
  <2>3. Counted(i) # 0
    BY <2>1, <2>2, FS_EmptySet DEF Counted
  <2>4. ASSUME NEW x \in Carried, NEW y \in Carried, x < y PROVE Counted(x) # Counted(y)
    <3>1. CarriedTo(x) \in SUBSET CarriedTo(y)
      <4>1. \A j \in Carried : j <= x => j <= y
        BY <2>1, <2>4
      <4> QED
        BY <4>1 DEF CarriedTo
    <3>2. y \in CarriedTo(y) /\ y \notin CarriedTo(x)
      <4>1. y \in Nat /\ x \in Nat /\ y <= y /\ ~(y <= x)
        BY <2>1, <2>4
      <4> QED
        BY <4>1 DEF CarriedTo
    <3> QED
      BY <2>1, <3>1, <3>2, FS_Subset DEF Counted
  <2>5. ASSUME NEW j \in Carried, Counted(j) = Counted(i) PROVE j = i
    <3>1. i \in Nat /\ j \in Nat
      BY <2>1
    <3>2. ~(i < j) /\ ~(j < i)
      BY <2>4, <2>5
    <3> QED
      BY <3>1, <3>2
  <2> QED
    BY <1>2, <2>1, <2>3, <2>5
<1>5. ASSUME NEW i \in Carried PROVE f[Counted(i)] = Given(i)
  <2>1. (CHOOSE x \in Carried : Counted(x) = Counted(i)) = i
    BY <1>4
  <2> HIDE DEF n
  <2> QED
    BY <1>4, <2>1
<1> QED
  BY <1>1, <1>3, <1>4, <1>5

(* After cells that are not carried, those that are are counted one by one.*)
LEMMA CountedOn ==
  ASSUME reply.cells \in Seq(Cell), NEW p \in Nat, NEW m \in Nat, NEW n \in Nat,
         \A i \in (p + 1)..(p + m) : i \notin Carried,
         \A i \in (p + m + 1)..(p + m + n) : i \in Carried
  PROVE  Counted(p + m + n) = Counted(p) + n
<1>1. Carried \subseteq Nat /\ \A x : IsFiniteSet(CarriedTo(x)) /\ Counted(x) \in Nat
  BY CountedTyped
<1> DEFINE R == (p + m + 1)..(p + m + n)
<1>2. CarriedTo(p + m + n) = CarriedTo(p) \cup R
  <2>1. ASSUME NEW i \in CarriedTo(p + m + n) PROVE i \in CarriedTo(p) \cup R
    <3>1. i \in Nat /\ i \in Carried /\ i <= p + m + n
      BY <1>1 DEF CarriedTo
    <3>2. i <= p \/ i \in (p + 1)..(p + m) \/ i \in R
      BY <3>1
    <3> QED
      BY <3>1, <3>2 DEF CarriedTo
  <2>2. ASSUME NEW i \in CarriedTo(p) PROVE i \in CarriedTo(p + m + n)
    BY <1>1 DEF CarriedTo
  <2>3. ASSUME NEW i \in R PROVE i \in CarriedTo(p + m + n)
    <3>1. i <= p + m + n
      OBVIOUS
    <3> QED
      BY <3>1 DEF CarriedTo
  <2> QED
    BY <2>1, <2>2, <2>3
<1>3. CarriedTo(p) \cap R = {}
  BY <1>1 DEF CarriedTo
<1>4. IsFiniteSet(R) /\ Cardinality(R) = n
  BY FS_Interval
<1>5. Cardinality({}) = 0
  BY FS_EmptySet
<1> HIDE DEF R
<1>6. Cardinality(CarriedTo(p) \cup R) = Cardinality(CarriedTo(p)) + Cardinality(R) - Cardinality(CarriedTo(p) \cap R)
  BY <1>1, <1>4, FS_Union
<1>7. Counted(p + m + n) = Counted(p) + n - 0
  BY <1>2, <1>3, <1>4, <1>5, <1>6 DEF Counted
<1>8. Counted(p) \in Nat
  BY <1>1
<1> HIDE DEF Counted
<1> QED
  BY <1>7, <1>8

(* What is given of the next cells that are carried is the next of the     *)
(* payload.                                                                *)
NextCarried(w, p, m, n) ==
  /\ Len(given) = Counted(p) /\ Len(w) = n /\ given' = given \o w
  /\ \A i \in (p + 1)..(p + m) : i \notin Carried
  /\ \A i \in (p + m + 1)..(p + m + n) : i \in Carried
  /\ \A i \in 1..n : w[i] = Given(p + m + i)

LEMMA MoreGiven ==
  ASSUME reply.cells \in Seq(Cell), reply' = reply, given \in Seq(Cell), GivenInv,
         NEW p \in Nat, NEW m \in Nat, NEW n \in Nat, NEW w \in Seq(Cell), NextCarried(w, p, m, n)
  PROVE  GivenInv' /\ given' \in Seq(Cell)
<1> USE DEF NextCarried
<1> DEFINE l == Len(given)
<1>1. /\ l \in Nat /\ DOMAIN given = 1..l /\ given' \in Seq(Cell) /\ Len(given') = l + n /\ DOMAIN given' = 1..(l + n)
      /\ \A i \in 1..l : given'[i] = given[i]
      /\ \A i \in 1..n : given'[l + i] = w[i]
  <2>1. l \in Nat /\ DOMAIN given = 1..l
    BY LenProperties
  <2>2. /\ given' \in Seq(Cell) /\ Len(given') = l + n
        /\ \A i \in 1..(l + n) : given'[i] = IF i <= l THEN given[i] ELSE w[i - l]
    BY ConcatProperties
  <2>3. DOMAIN given' = 1..(l + n)
    BY <2>2, LenProperties
  <2>4. \A i \in 1..l : i \in 1..(l + n) /\ i <= l
    BY <2>1
  <2>5. \A i \in 1..n : l + i \in 1..(l + n) /\ ~(l + i <= l) /\ (l + i) - l = i
    BY <2>1
  <2> QED
    BY <2>1, <2>2, <2>3, <2>4, <2>5
<1>2. Payload' = Payload /\ Len(Payload) = Cardinality(Carried)
  <2>1. Payload' = Payload
    BY DEF Payload, Carried, Given
  <2> QED
    BY <2>1, PayloadAt
<1>3. Counted(p + m + n) = l + n /\ Counted(p + m + n) <= Len(Payload)
  <2>1. Counted(p + m + n) = Counted(p) + n
    BY CountedOn
  <2>2. \A x : Counted(x) <= Cardinality(Carried)
    BY CountedTyped
  <2> QED
    BY <1>2, <2>1, <2>2
<1> HIDE DEF l
<1>4. ASSUME NEW i \in 1..n PROVE given'[l + i] = Payload[l + i]
  <2>1. \A j \in (p + m + 1)..(p + m + i) : j \in Carried
    OBVIOUS
  <2>2. Counted(p + m + i) = l + i
    <3>1. i \in Nat
      OBVIOUS
    <3>2. Counted(p + m + i) = Counted(p) + i
      BY <2>1, <3>1, CountedOn
    <3> QED
      BY <3>2 DEF l
  <2>3. p + m + i \in Carried
    BY <2>1
  <2>4. Payload[l + i] = Given(p + m + i)
    BY <2>2, <2>3, PayloadAt
  <2> QED
    BY <1>1, <2>4
<1>5. ASSUME NEW i \in DOMAIN given' PROVE given'[i] = Payload[i]
  <2>1. CASE i <= l
    <3>1. i \in DOMAIN given /\ given'[i] = given[i]
      BY <1>1, <2>1
    <3> QED
      BY <3>1 DEF GivenInv
  <2>2. CASE ~(i <= l)
    <3>1. i - l \in 1..n /\ l + (i - l) = i
      BY <1>1, <2>2
    <3> QED
      BY <1>4, <3>1
  <2> QED
    BY <2>1, <2>2
<1> QED
  BY <1>1, <1>2, <1>3, <1>5 DEF GivenInv

(***************************************************************************)
(* What is read                                                            *)
(***************************************************************************)

(* A reply is whole packets.                                               *)
LEMMA ReplyTyped ==
  ASSUME reply \in Replies
  PROVE  /\ reply.cells \in Seq(Cell) /\ reply.size \in Nat
         /\ Len(reply.cells) \in Nat /\ DOMAIN reply.cells = 1..Len(reply.cells)
         /\ \A i \in DOMAIN reply.cells : reply.cells[i] \in Cell /\ reply.cells[i][2] \in Nat
<1>1. reply.cells \in Seq(Cell) /\ reply.size \in Nat
  <2>1. reply.cells \in Seq(Kinds \X Nat) /\ reply.size \in Nat
    BY RepliesAssumption
  <2>2. Kinds \X Nat \subseteq Cell
    BY DEF Cell
  <2> QED
    BY <2>1, <2>2
<1>2. Len(reply.cells) \in Nat /\ DOMAIN reply.cells = 1..Len(reply.cells)
      /\ reply.cells \in [1..Len(reply.cells) -> Cell]
  BY <1>1, LenProperties
<1>3. \A x \in Cell : x[2] \in Nat
  BY DEF Cell
<1> QED
  BY <1>1, <1>2, <1>3

(* The packet at a place.                                                  *)
LEMMA PacketAt ==
  ASSUME reply \in Replies, NEW p \in Nat, p < Len(reply.cells), AtPacket(p)
  PROVE  LET n == reply.cells[p + 1][2]
         IN /\ n \in Nat /\ reply.cells[p + 1] = Size(n) /\ p + 1 + n <= Len(reply.cells) /\ AtPacket(p + 1 + n)
            /\ \A j \in (p + 2)..(p + 1 + n) : reply.cells[j][1] # "size"
            /\ \A j \in (p + 3)..(p + 1 + n) : reply.cells[j][1] # "band"
            /\ (\E i \in 1..p : reply.cells[i] = Size(0)) /\ n > 0 => reply.cells[p + 2][1] = "band"
<1> DEFINE n == reply.cells[p + 1][2]
<1>1. PICK c : c = reply.cells
  OBVIOUS
<1> DEFINE sizes == {i \in DOMAIN c : c[i][1] = "size"}
<1>2. /\ \A i \in sizes :
           LET end == i + c[i][2]
           IN /\ end <= Len(c) /\ \A j \in (i + 1)..end : j \notin sizes
              /\ end < Len(c) => end + 1 \in sizes
      /\ \A i \in DOMAIN c : c[i][1] = "band" => i - 1 \in sizes
      /\ \A i, j \in sizes : i < j /\ c[i][2] = 0 /\ c[j][2] > 0 => c[j + 1][1] = "band"
  BY <1>1, RepliesAssumption
<1>3. /\ Len(c) \in Nat /\ DOMAIN c = 1..Len(c) /\ p + 1 \in DOMAIN c
      /\ \A i \in DOMAIN c : c[i] \in Cell /\ c[i][2] \in Nat
  BY <1>1, ReplyTyped
<1>4. p + 1 \in sizes /\ n \in Nat
  BY <1>1, <1>3 DEF AtPacket
<1>5. c[p + 1] = Size(n)
  <2>1. \A x \in Cell : x = <<x[1], x[2]>>
    BY DEF Cell
  <2> QED
    BY <1>1, <1>3, <1>4, <2>1 DEF Size
<1> HIDE DEF sizes, n
<1>6. /\ p + 1 + n <= Len(c) /\ \A j \in (p + 2)..(p + 1 + n) : j \notin sizes
      /\ p + 1 + n < Len(c) => p + 1 + n + 1 \in sizes
  <2>1. c[p + 1][2] = n
    BY <1>1 DEF n
  <2>2. LET end == p + 1 + n
        IN /\ end <= Len(c) /\ \A j \in (p + 1 + 1)..end : j \notin sizes
           /\ end < Len(c) => end + 1 \in sizes
    BY <1>2, <1>4, <2>1
  <2>3. p + 1 + 1 = p + 2
    OBVIOUS
  <2> QED
    BY <2>2, <2>3
<1>7. AtPacket(p + 1 + n)
  <2>1. p + 1 + n < Len(c) \/ p + 1 + n = Len(c)
    <3>1. p + 1 + n \in Nat /\ Len(c) \in Nat /\ p + 1 + n <= Len(c)
      BY <1>3, <1>4, <1>6
    <3> QED
      BY <3>1
  <2>2. p + 1 + n < Len(c) => c[p + 1 + n + 1][1] = "size"
    BY <1>6 DEF sizes
  <2> QED
    BY <1>1, <2>1, <2>2 DEF AtPacket
<1>8. ASSUME NEW j \in (p + 2)..(p + 1 + n) PROVE j \in DOMAIN c /\ c[j][1] # "size"
  <2>1. j \in DOMAIN c
    BY <1>3, <1>4, <1>6
  <2> QED
    BY <1>6, <2>1 DEF sizes
<1>9. ASSUME NEW j \in (p + 3)..(p + 1 + n) PROVE c[j][1] # "band"
  <2>1. j \in DOMAIN c /\ j - 1 \in (p + 2)..(p + 1 + n)
    BY <1>3, <1>4, <1>6
  <2> QED
    BY <1>2, <1>6, <2>1
<1>10. ASSUME NEW i \in 1..p, c[i] = Size(0), n > 0 PROVE c[p + 2][1] = "band"
  <2>1. i \in DOMAIN c /\ c[i][1] = "size" /\ c[i][2] = 0
    <3>1. Size(0)[1] = "size" /\ Size(0)[2] = 0
      BY DEF Size
    <3> QED
      BY <1>3, <1>10, <3>1
  <2>2. i \in sizes /\ i < p + 1 /\ c[p + 1][2] > 0 /\ (p + 1) + 1 = p + 2
    BY <1>1, <1>10, <2>1 DEF sizes, n
  <2> QED
    BY <1>2, <1>4, <2>1, <2>2
<1> QED
  BY <1>1, <1>4, <1>5, <1>6, <1>7, <1>8, <1>9, <1>10 DEF n

(* The next packet that is not a flush, as the readers see it.             *)
LEMMA NextPacket ==
  ASSUME CellsInv, AtPacket(Place), Unflushed # <<>>
  PROVE  \E m \in Nat :
           /\ m < Len(pipe) /\ Unflushed \in Seq(Cell) /\ Len(Unflushed) = Len(pipe) - m
           /\ \A i \in 1..(Len(pipe) - m) : Unflushed[i] = pipe[m + i]
           /\ \A i \in (Place + 1)..(Place + m) : reply.cells[i] = Size(0)
           /\ AtPacket(Place + m) /\ Place + m < Len(reply.cells)
           /\ Unflushed[1] = reply.cells[Place + m + 1] /\ Unflushed[1][2] \in Nat \ {0}
<1>1. PICK m \in 0..(Len(pipe) - 1) :
        /\ \A i \in 1..m : pipe[i] = Size(0)
        /\ pipe[m + 1] # Size(0)
        /\ Len(Unflushed) = Len(pipe) - m
        /\ \A i \in 1..(Len(pipe) - m) : Unflushed[i] = pipe[m + i]
  BY Skipped DEF CellsInv
<1> DEFINE p == Place
<1>2. /\ Len(pipe) \in Nat /\ Len(wire) \in Nat /\ Len(reply.cells) \in Nat
      /\ p \in Nat /\ p + Len(pipe) <= Len(reply.cells)
      /\ \A i \in 1..Len(pipe) : pipe[i] = reply.cells[p + i]
      /\ Unflushed \in Seq(Cell)
  <2>1. Len(pipe) \in Nat /\ Len(wire) \in Nat /\ Len(reply.cells) \in Nat /\ Len(wire) + Len(pipe) <= Len(reply.cells)
    BY ReplyTyped DEF CellsInv
  <2>2. p \in Nat /\ p + Len(pipe) <= Len(reply.cells)
    BY <2>1 DEF Place
  <2> QED
    BY <2>1, <2>2, Skipped DEF CellsInv
<1>3. AtPacket(p)
  OBVIOUS
<1> HIDE DEF p
<1>4. m \in Nat /\ m < Len(pipe) /\ m + 1 \in 1..Len(pipe) /\ p + m < Len(reply.cells) /\ p + (m + 1) = p + m + 1
      /\ 1 \in 1..(Len(pipe) - m)
  BY <1>1, <1>2
<1>5. ASSUME NEW i \in (p + 1)..(p + m) PROVE reply.cells[i] = Size(0)
  <2>1. i - p \in 1..m /\ i - p \in 1..Len(pipe) /\ p + (i - p) = i
    BY <1>2, <1>4
  <2> QED
    BY <1>1, <1>2, <2>1
<1>6. AtPacket(p + m)
  <2>1. CASE m = 0
    BY <1>2, <1>3, <2>1
  <2>2. CASE m # 0
    <3> DEFINE q == p + m - 1
    <3>1. q \in Nat /\ q < Len(reply.cells) /\ q + 1 = p + m /\ q + 1 \in (p + 1)..(p + m)
      BY <1>2, <1>4, <2>2
    <3> HIDE DEF q
    <3>2. reply.cells[q + 1] = Size(0)
      BY <1>5, <3>1
    <3>3. reply.cells[q + 1][1] = "size" /\ reply.cells[q + 1][2] = 0
      <4>1. Size(0)[1] = "size" /\ Size(0)[2] = 0
        BY DEF Size
      <4> QED
        BY <3>2, <4>1
    <3>4. AtPacket(q)
      BY <3>3 DEF AtPacket
    <3>5. AtPacket(q + 1 + reply.cells[q + 1][2])
      BY <3>1, <3>4, PacketAt DEF CellsInv
    <3>6. q + 1 + 0 = p + m
      BY <3>1
    <3> QED
      BY <3>3, <3>5, <3>6
  <2> QED
    BY <2>1, <2>2
<1>7. Unflushed[1] = reply.cells[p + m + 1] /\ Unflushed[1] # Size(0)
  BY <1>1, <1>2, <1>4
<1>8. Unflushed[1][2] \in Nat /\ Unflushed[1] = Size(Unflushed[1][2])
  <2>1. p + m \in Nat
    BY <1>2, <1>4
  <2> QED
    BY <1>4, <1>6, <1>7, <2>1, PacketAt DEF CellsInv
<1> QED
  BY <1>1, <1>2, <1>4, <1>5, <1>6, <1>7, <1>8 DEF p

(* What a read of the SideBandReader takes: no, or some, cells that are    *)
(* not carried are skipped, and those given are the next of the packet.    *)
TakesOf(r, m, n) ==
  /\ m + n <= Len(pipe)
  /\ r.pipe \in Seq(Cell) /\ Len(r.pipe) = Len(pipe) - (m + n)
  /\ \A i \in 1..(Len(pipe) - (m + n)) : r.pipe[i] = pipe[m + n + i]
  /\ r.cells \in Seq(Cell) /\ Len(r.cells) = n
  /\ \A i \in 1..n : r.cells[i] = Given(Place + m + i)
  /\ r.rest \in Nat
  /\ \A i \in (Place + 1)..(Place + m) : i \notin Carried
  /\ \A i \in (Place + m + 1)..(Place + m + n + r.rest) : i \in Carried
  /\ Place + m + n + r.rest <= Len(reply.cells) /\ AtPacket(Place + m + n + r.rest)

(* The cells of a packet that are taken.                                   *)
ReadsAs(r, p, n, size) ==
  /\ r.cells \in Seq(Cell) /\ Len(r.cells) = n
  /\ \A i \in 1..n : r.cells[i] = IF i = size THEN Zeroed(p[i]) ELSE p[i]
  /\ r.rest = size - n
  /\ r.pipe \in Seq(Cell) /\ Len(r.pipe) = Len(p) - n
  /\ \A i \in 1..(Len(p) - n) : r.pipe[i] = p[n + i]

LEMMA Reads ==
  ASSUME NEW p \in Seq(Cell), NEW n \in 0..Len(p), NEW size \in Int
  PROVE  ReadsAs(ReadOf(p, n, size), p, n, size)
<1> DEFINE f == [i \in 1..n |-> IF i = size THEN Zeroed(p[i]) ELSE p[i]]
<1>1. Len(p) \in Nat /\ n \in Nat /\ n + 1 \in 1..(Len(p) + 1) /\ 1..n \subseteq DOMAIN p
  <2>1. Len(p) \in Nat /\ DOMAIN p = 1..Len(p)
    BY LenProperties
  <2> QED
    BY <2>1
<1>2. \A x \in Cell : Zeroed(x) \in Cell
  <2>1. \A x \in Cell : x[2] \in Nat
    BY DEF Cell
  <2>2. \A y \in Nat : <<"zeroed", y>> \in Cell
    BY DEF Cell
  <2> QED
    BY <2>1, <2>2 DEF Zeroed
<1>3. \A i \in 1..n : p[i] \in Cell
  BY <1>1
<1>4. \A i \in 1..n : f[i] = IF i = size THEN Zeroed(p[i]) ELSE p[i]
  OBVIOUS
<1>5. f \in [1..n -> Cell]
  BY <1>2, <1>3
<1>6. ReadOf(p, n, size) = [cells |-> f, rest |-> size - n, pipe |-> From(p, n + 1)]
  BY DEF ReadOf
<1> HIDE DEF f
<1>7. f \in Seq(Cell) /\ Len(f) = n
  BY <1>1, <1>5
<1>8. /\ From(p, n + 1) \in Seq(Cell) /\ Len(From(p, n + 1)) = Len(p) - n
      /\ \A i \in 1..(Len(p) - n) : From(p, n + 1)[i] = p[n + i]
  <2>1. /\ From(p, n + 1) \in Seq(Cell) /\ Len(From(p, n + 1)) = Len(p) - (n + 1) + 1
        /\ \A i \in 1..(Len(p) - (n + 1) + 1) : From(p, n + 1)[i] = p[n + 1 + i - 1]
    BY <1>1, Ends
  <2>2. Len(p) - (n + 1) + 1 = Len(p) - n /\ \A i \in 1..(Len(p) - n) : n + 1 + i - 1 = n + i
    BY <1>1
  <2> QED
    BY <2>1, <2>2
<1> QED
  BY <1>4, <1>6, <1>7, <1>8 DEF ReadsAs

(* The cells of the rest of a packet are given as they are but the last.   *)
LEMMA GivenOf ==
  ASSUME Len(reply.cells) \in Nat, NEW a \in Nat, NEW size \in Nat, a + size <= Len(reply.cells),
         AtPacket(a + size), \A i \in (a + 1)..(a + size) : i \in Carried, NEW i \in 1..size
  PROVE  Given(a + i) = IF i = size THEN Zeroed(reply.cells[a + i]) ELSE reply.cells[a + i]
<1>1. CASE i = size
  BY <1>1 DEF AtPacket, Given
<1>2. CASE i # size
  <2>1. a + i # Len(reply.cells) /\ a + i + 1 \in (a + 1)..(a + size)
    BY <1>2
  <2>2. reply.cells[a + i + 1][1] # "size"
    BY <2>1 DEF Carried
  <2> QED
    BY <1>2, <2>1, <2>2 DEF Given
<1> QED
  BY <1>1, <1>2

(* A read within the archive takes the next cells that are carried.        *)
LEMMA SideBandTakes ==
  ASSUME CellsInv, Within, NEW k \in Nat, NEW r \in SideBandReads(k)
  PROVE  \E m \in Nat, n \in 0..k : TakesOf(r, m, n)
<1> DEFINE p == Place
<1>1. /\ Len(pipe) \in Nat /\ Len(reply.cells) \in Nat /\ p \in Nat /\ p + Len(pipe) <= Len(reply.cells)
      /\ pipe \in Seq(Cell) /\ \A i \in 1..Len(pipe) : pipe[i] = reply.cells[p + i]
  <2>1. /\ pipe \in Seq(Cell) /\ wire \in Seq(Cell) /\ Len(pipe) \in Nat /\ Len(wire) \in Nat
        /\ Len(reply.cells) \in Nat /\ Len(wire) + Len(pipe) <= Len(reply.cells)
    BY ReplyTyped DEF CellsInv
  <2> QED
    BY <2>1 DEF CellsInv, Place
<1>2. /\ rest \in Nat /\ p + rest <= Len(reply.cells) /\ AtPacket(p + rest)
      /\ \A i \in (p + 1)..(p + rest) : i \in Carried
      /\ \E i \in 1..p : reply.cells[i] = Size(0)
  BY DEF Within
<1>3. CASE rest > 0
  <2>1. PICK n \in {Atmost(k, rest)} \cap 0..Len(pipe) : r = ReadOf(pipe, n, rest)
    BY <1>3 DEF SideBandReads
  <2>2. n \in 0..Len(pipe) /\ n \in 0..k /\ n <= rest /\ n \in Nat
    BY <1>1, <1>2, <2>1 DEF Atmost
  <2>3. /\ r.cells \in Seq(Cell) /\ Len(r.cells) = n
        /\ \A i \in 1..n : r.cells[i] = IF i = rest THEN Zeroed(pipe[i]) ELSE pipe[i]
        /\ r.rest = rest - n
        /\ r.pipe \in Seq(Cell) /\ Len(r.pipe) = Len(pipe) - n
        /\ \A i \in 1..(Len(pipe) - n) : r.pipe[i] = pipe[n + i]
    <3>1. pipe \in Seq(Cell) /\ n \in 0..Len(pipe) /\ rest \in Int /\ r = ReadOf(pipe, n, rest)
      BY <1>1, <1>2, <2>1, <2>2
    <3>2. ReadsAs(r, pipe, n, rest)
      BY <3>1, Reads
    <3> QED
      BY <3>2 DEF ReadsAs
  <2> HIDE DEF p
  <2>4. /\ 0 + n = n /\ p + 0 = p /\ p + n + r.rest = p + rest /\ r.rest \in Nat
        /\ \A i \in 1..n : i \in 1..Len(pipe)
    BY <1>1, <1>2, <2>2, <2>3
  <2>5. /\ 0 + n <= Len(pipe)
        /\ r.pipe \in Seq(Cell) /\ Len(r.pipe) = Len(pipe) - (0 + n)
        /\ \A i \in 1..(Len(pipe) - (0 + n)) : r.pipe[i] = pipe[0 + n + i]
    <3>1. 0 + n = n /\ n <= Len(pipe)
      BY <1>1, <2>2
    <3>2. Len(r.pipe) = Len(pipe) - n /\ \A i \in 1..(Len(pipe) - n) : r.pipe[i] = pipe[n + i]
      BY <2>3
    <3> QED
      BY <2>3, <3>1, <3>2
  <2>6. ASSUME NEW i \in 1..n PROVE r.cells[i] = Given(p + 0 + i)
    <3>1. pipe[i] = reply.cells[p + i] /\ i \in 1..rest /\ p + 0 + i = p + i
      BY <1>1, <1>2, <2>2, <2>4
    <3>2. Given(p + i) = IF i = rest THEN Zeroed(reply.cells[p + i]) ELSE reply.cells[p + i]
      BY <1>1, <1>2, <3>1, GivenOf
    <3> QED
      BY <2>3, <3>1, <3>2
  <2>7. /\ \A i \in (p + 1)..(p + 0) : i \notin Carried
        /\ \A i \in (p + 0 + 1)..(p + 0 + n + r.rest) : i \in Carried
        /\ p + 0 + n + r.rest <= Len(reply.cells) /\ AtPacket(p + 0 + n + r.rest)
    <3>1. (p + 1)..(p + 0) = {}
      BY <1>1
    <3>2. p + 0 + n + r.rest = p + rest /\ p + 0 + 1 = p + 1
      BY <1>1, <2>2, <2>4
    <3> QED
      BY <1>2, <3>1, <3>2
  <2>8. TakesOf(r, 0, n)
    BY <2>3, <2>4, <2>5, <2>6, <2>7 DEF TakesOf, p
  <2> QED
    BY <2>2, <2>8
<1>4. CASE rest = 0
  <2> DEFINE u == Unflushed
  <2>1. /\ Len(u) >= 2
        /\ r \in {ReadOf(From(u, 3), n, u[1][2] - 1) : n \in {Atmost(k, u[1][2] - 1)} \cap 0..(Len(u) - 2)}
    <3>1. r \in (IF Len(u) < 2 \/ u[1][2] = 1 \/ u[2][2] \notin Bands THEN {}
                 ELSE {ReadOf(From(u, 3), n, u[1][2] - 1) : n \in {Atmost(k, u[1][2] - 1)} \cap 0..(Len(u) - 2)})
      BY <1>4 DEF SideBandReads
    <3>2. Len(u) \in Nat
      BY <1>1, Skipped
    <3> QED
      BY <3>1, <3>2
  <2>2. AtPacket(p) /\ u # <<>>
    <3>1. p + rest = p
      BY <1>1, <1>4
    <3> QED
      BY <1>2, <2>1, <3>1
  <2>3. PICK m \in Nat :
           /\ m < Len(pipe) /\ u \in Seq(Cell) /\ Len(u) = Len(pipe) - m
           /\ \A i \in 1..(Len(pipe) - m) : u[i] = pipe[m + i]
           /\ \A i \in (p + 1)..(p + m) : reply.cells[i] = Size(0)
           /\ AtPacket(p + m) /\ p + m < Len(reply.cells)
           /\ u[1] = reply.cells[p + m + 1] /\ u[1][2] \in Nat \ {0}
    BY <2>2, NextPacket
  <2> DEFINE s == u[1][2] - 1
  <2>4. PICK n \in {Atmost(k, s)} \cap 0..(Len(u) - 2) : r = ReadOf(From(u, 3), n, s)
    BY <2>1
  <2> HIDE DEF p, u
  <2>5. s \in Nat /\ n \in 0..k /\ n <= s /\ n \in Nat /\ n \in 0..(Len(u) - 2) /\ s + 1 = u[1][2]
    <3>1. s \in Nat /\ s + 1 = u[1][2]
      <4>1. PICK z : z = u[1][2]
        OBVIOUS
      <4>2. z \in Nat \ {0} /\ s = z - 1
        BY <2>3, <4>1
      <4> QED
        BY <4>1, <4>2
    <3> HIDE DEF s
    <3>2. n = Atmost(k, s) /\ n \in 0..(Len(u) - 2)
      BY <2>4
    <3>3. Atmost(k, s) \in 0..k /\ Atmost(k, s) <= s /\ Atmost(k, s) \in Nat
      BY <3>1 DEF Atmost
    <3> QED
      BY <3>1, <3>2, <3>3
  <2>6. /\ From(u, 3) \in Seq(Cell) /\ Len(From(u, 3)) = Len(u) - 2
        /\ \A i \in 1..(Len(u) - 2) : From(u, 3)[i] = u[2 + i]
    <3>1. 3 \in 1..(Len(u) + 1) /\ Len(u) \in Nat
      BY <1>1, <2>1, <2>3
    <3>0. u \in Seq(Cell)
      BY <2>3
    <3>2. /\ From(u, 3) \in Seq(Cell) /\ Len(From(u, 3)) = Len(u) - 3 + 1
          /\ \A i \in 1..(Len(u) - 3 + 1) : From(u, 3)[i] = u[3 + i - 1]
      BY <3>0, <3>1, Ends
    <3>3. Len(u) - 3 + 1 = Len(u) - 2 /\ \A i \in 1..(Len(u) - 2) : 3 + i - 1 = 2 + i
      BY <3>1
    <3> QED
      BY <3>2, <3>3
  <2>7. PICK v : v = From(u, 3)
    OBVIOUS
  <2>8. /\ r.cells \in Seq(Cell) /\ Len(r.cells) = n
        /\ \A i \in 1..n : r.cells[i] = IF i = s THEN Zeroed(v[i]) ELSE v[i]
        /\ r.rest = s - n
        /\ r.pipe \in Seq(Cell) /\ Len(r.pipe) = Len(v) - n
        /\ \A i \in 1..(Len(v) - n) : r.pipe[i] = v[n + i]
    <3>1. v \in Seq(Cell) /\ n \in 0..Len(v) /\ s \in Int /\ r = ReadOf(v, n, s)
      BY <2>4, <2>5, <2>6, <2>7
    <3> HIDE DEF s
    <3>2. ReadsAs(r, v, n, s)
      BY <3>1, Reads
    <3> QED
      BY <3>2 DEF ReadsAs
  <2>9. /\ Len(v) = Len(pipe) - (m + 2) /\ m + 2 \in Nat /\ m + 2 + n <= Len(pipe) /\ r.rest \in Nat
        /\ \A i \in 1..Len(v) : v[i] = pipe[m + 2 + i]
    <3>1. Len(v) = Len(pipe) - m - 2 /\ \A i \in 1..Len(v) : v[i] = u[2 + i]
      BY <2>3, <2>6, <2>7
    <3>2. \A i \in 1..Len(v) : 2 + i \in 1..(Len(pipe) - m) /\ m + (2 + i) = m + 2 + i
      BY <1>1, <3>1
    <3>3. \A i \in 1..Len(v) : v[i] = pipe[m + 2 + i]
      BY <2>3, <3>1, <3>2
    <3> HIDE DEF s
    <3> QED
      <4>1. Len(u) = Len(pipe) - m /\ m \in Nat /\ n \in 0..(Len(u) - 2) /\ s \in Nat /\ n \in Nat /\ n <= s
        BY <2>3, <2>5
      <4>2. m + 2 \in Nat /\ m + 2 + n <= Len(pipe) /\ Len(pipe) - m - 2 = Len(pipe) - (m + 2)
        BY <1>1, <4>1
      <4>3. s - n \in Nat
        BY <4>1
      <4> QED
        BY <2>8, <3>1, <3>3, <4>2, <4>3
  <2>10. /\ Len(r.pipe) = Len(pipe) - (m + 2 + n)
         /\ \A i \in 1..(Len(pipe) - (m + 2 + n)) : r.pipe[i] = pipe[m + 2 + n + i]
    <3>1. Len(r.pipe) = Len(pipe) - (m + 2 + n) /\ Len(v) - n = Len(pipe) - (m + 2 + n)
      BY <1>1, <2>5, <2>8, <2>9
    <3>2. ASSUME NEW i \in 1..(Len(v) - n) PROVE n + i \in 1..Len(v) /\ m + 2 + (n + i) = m + 2 + n + i
      <4>1. n \in Nat /\ m \in Nat /\ Len(v) \in Int
        BY <1>1, <2>5, <2>9
      <4> QED
        BY <4>1
    <3> QED
      BY <2>8, <2>9, <3>1, <3>2
  <2>11. \A i \in 1..n : r.cells[i] = IF i = s THEN Zeroed(reply.cells[p + (m + 2) + i]) ELSE reply.cells[p + (m + 2) + i]
    <3>1. \A i \in 1..n : /\ i \in 1..Len(v) /\ m + 2 + i \in 1..Len(pipe)
                          /\ p + (m + 2 + i) = p + (m + 2) + i
      BY <1>1, <2>5, <2>9
    <3>2. \A i \in 1..n : v[i] = reply.cells[p + (m + 2) + i]
      BY <1>1, <2>9, <3>1
    <3> QED
      BY <2>8, <3>2
  <2> DEFINE q == p + m
             z == reply.cells[q + 1][2]
  <2>12. /\ z = s + 1 /\ q + 1 + z <= Len(reply.cells) /\ AtPacket(q + 1 + z)
         /\ \A j \in (q + 2)..(q + 1 + z) : reply.cells[j][1] # "size"
         /\ \A j \in (q + 3)..(q + 1 + z) : reply.cells[j][1] # "band"
         /\ reply.cells[q + 2][1] = "band" /\ reply.cells[q + 1] = Size(z)
    <3>1. q \in Nat /\ q < Len(reply.cells) /\ AtPacket(q)
      BY <1>1, <2>3
    <3>2. z = s + 1 /\ z > 0
      BY <2>3, <2>5
    <3>3. \E i \in 1..q : reply.cells[i] = Size(0)
      <4>1. 1..p \subseteq 1..q
        BY <1>1
      <4> QED
        BY <1>2, <4>1
    <3> HIDE DEF q, s
    <3>4. LET x == reply.cells[q + 1][2]
          IN /\ x \in Nat /\ reply.cells[q + 1] = Size(x) /\ q + 1 + x <= Len(reply.cells) /\ AtPacket(q + 1 + x)
             /\ \A j \in (q + 2)..(q + 1 + x) : reply.cells[j][1] # "size"
             /\ \A j \in (q + 3)..(q + 1 + x) : reply.cells[j][1] # "band"
             /\ (\E i \in 1..q : reply.cells[i] = Size(0)) /\ x > 0 => reply.cells[q + 2][1] = "band"
      BY <3>1, PacketAt DEF CellsInv
    <3> QED
      BY <3>2, <3>3, <3>4
  <2>13. /\ q + 1 + z = p + (m + 2) + n + r.rest /\ q + 2 = p + (m + 2) /\ q \in Nat
         /\ p + (m + 2) + 1 = q + 3
    BY <1>1, <2>5, <2>8, <2>12
  <2>14. \A i \in (p + 1)..(p + (m + 2)) : i \notin Carried
    <3>1. \A i \in (p + 1)..(p + (m + 2)) : i \in (p + 1)..(p + m) \/ i = q + 1 \/ i = q + 2
      BY <1>1
    <3>2. \A x : Size(x)[1] = "size"
      BY DEF Size
    <3> QED
      BY <2>3, <2>12, <3>1, <3>2 DEF Carried
  <2>15. \A i \in (p + (m + 2) + 1)..(p + (m + 2) + n + r.rest) : i \in Carried
    <3>1. ASSUME NEW i \in (q + 3)..(q + 1 + z) PROVE i \in Carried
      <4>1. /\ z \in Nat /\ i \in 1..Len(reply.cells) /\ i \in (q + 2)..(q + 1 + z)
            /\ q + 2 \in 1..i
        <5>1. z \in Nat /\ q \in Nat /\ q + 1 + z <= Len(reply.cells) /\ Len(reply.cells) \in Nat
          BY <1>1, <2>5, <2>12, <2>13
        <5> HIDE DEF z, q
        <5> QED
          BY <5>1
      <4>2. DOMAIN reply.cells = 1..Len(reply.cells)
        BY ReplyTyped DEF CellsInv
      <4> QED
        BY <2>12, <4>1, <4>2 DEF Carried
    <3> QED
      BY <2>13, <3>1
  <2>17. ASSUME NEW i \in 1..n PROVE r.cells[i] = Given(p + (m + 2) + i)
    <3>1. PICK a \in Nat : a = p + (m + 2)
      BY <1>1, <2>9
    <3>2. n + r.rest = s /\ i \in 1..s
      BY <2>5, <2>8
    <3> HIDE DEF s
    <3>3. a + n + r.rest = a + s
      <4>1. PICK o \in Nat : o = r.rest
        BY <2>9
      <4>2. n + o = s /\ n \in Nat
        BY <2>5, <3>2, <4>1
      <4> QED
        BY <4>1, <4>2
    <3>4. a + s <= Len(reply.cells) /\ AtPacket(a + s) /\ \A j \in (a + 1)..(a + s) : j \in Carried
      BY <2>12, <2>13, <2>15, <3>1, <3>3
    <3>5. Given(a + i) = IF i = s THEN Zeroed(reply.cells[a + i]) ELSE reply.cells[a + i]
      BY <1>1, <2>5, <3>2, <3>4, GivenOf
    <3> QED
      BY <2>11, <3>1, <3>5
  <2>16. TakesOf(r, m + 2, n)
    BY <2>8, <2>9, <2>10, <2>17, <2>12, <2>13, <2>14, <2>15 DEF TakesOf, p
  <2> QED
    BY <2>5, <2>9, <2>16
<1> QED
  BY <1>2, <1>3, <1>4

(***************************************************************************)
(* The steps                                                               *)
(***************************************************************************)

(* The lengths in the invariant, and the place.                            *)
LEMMA PlaceTyped ==
  ASSUME CellsInv
  PROVE  /\ reply.cells \in Seq(Cell) /\ reply.size \in Nat
         /\ Len(reply.cells) \in Nat /\ Len(pipe) \in Nat /\ Len(wire) \in Nat /\ Place \in Nat
         /\ Place + Len(pipe) <= Len(reply.cells) /\ Len(wire) = Len(reply.cells) - (Place + Len(pipe))
<1>1. reply.cells \in Seq(Cell) /\ Len(reply.cells) \in Nat /\ reply.size \in Nat
  BY ReplyTyped DEF CellsInv
<1>2. Len(pipe) \in Nat /\ Len(wire) \in Nat /\ Len(wire) + Len(pipe) <= Len(reply.cells)
  BY DEF CellsInv
<1> QED
  BY <1>1, <1>2 DEF Place

(* Some cells are read from the pipe.                                      *)
LEMMA PipeRead ==
  ASSUME CellsInv, NEW d \in 0..Len(pipe), UNCHANGED <<reply, wire>>,
         pipe' \in Seq(Cell), Len(pipe') = Len(pipe) - d, \A i \in 1..(Len(pipe) - d) : pipe'[i] = pipe[d + i],
         given' \in Seq(Cell), block' \in Seq(Cell)
  PROVE  CellsInv' /\ Place' = Place + d
<1>1. /\ Len(reply.cells) \in Nat /\ Len(pipe) \in Nat /\ Len(wire) \in Nat /\ Place \in Nat
      /\ Place + Len(pipe) <= Len(reply.cells) /\ Len(wire) = Len(reply.cells) - (Place + Len(pipe))
  BY PlaceTyped
<1>2. Place' = Place + d
  BY <1>1 DEF Place
<1>3. Len(wire') + Len(pipe') <= Len(reply'.cells)
  BY <1>1
<1>4. ASSUME NEW i \in 1..Len(pipe') PROVE pipe'[i] = reply'.cells[Place' + i]
  <2>1. d + i \in 1..Len(pipe) /\ Place + (d + i) = (Place + d) + i /\ i \in 1..(Len(pipe) - d)
    BY <1>1
  <2>2. pipe[d + i] = reply.cells[Place + (d + i)]
    BY <2>1 DEF CellsInv
  <2> QED
    BY <1>2, <2>1, <2>2
<1>5. ASSUME NEW i \in 1..Len(wire') PROVE wire'[i] = reply'.cells[Place' + Len(pipe') + i]
  <2>1. Place' + Len(pipe') = Place + Len(pipe)
    BY <1>1, <1>2
  <2> QED
    BY <2>1 DEF CellsInv
<1> QED
  BY <1>2, <1>3, <1>4, <1>5 DEF CellsInv

(* What is carried does not change.                                        *)
LEMMA SameReply ==
  ASSUME reply' = reply
  PROVE  /\ Carried' = Carried /\ Payload' = Payload
         /\ \A p : Counted(p)' = Counted(p) /\ AtPacket(p)' = AtPacket(p)
BY DEF Carried, Payload, Given, Counted, CarriedTo, AtPacket

(* A read within the archive.                                              *)
LEMMA ArchiveRead ==
  ASSUME CellsInv, GivenInv, Within, NEW k \in Nat, NEW r \in SideBandReads(k), Take(r),
         UNCHANGED <<reply, wire>>, r.cells \in Seq(Cell) => block' \in Seq(Cell)
  PROVE  CellsInv' /\ GivenInv' /\ Within' /\ r.cells \in Seq(Cell) /\ Len(r.cells) \in 0..k
<1>0. PICK m \in Nat, n \in Nat : n \in 0..k /\ TakesOf(r, m, n)
  <2>1. \E m \in Nat, n \in 0..k : TakesOf(r, m, n)
    BY SideBandTakes
  <2> QED
    BY <2>1
<1>1. TakesOf(r, m, n)
  BY <1>0
<1>9. PICK o \in Nat : o = r.rest
  BY <1>1 DEF TakesOf
<1>2. /\ rest' = o /\ pipe' = r.pipe /\ given' = given \o r.cells
      /\ m + n <= Len(pipe)
      /\ pipe' \in Seq(Cell) /\ Len(pipe') = Len(pipe) - (m + n)
      /\ \A i \in 1..(Len(pipe) - (m + n)) : pipe'[i] = pipe[m + n + i]
      /\ r.cells \in Seq(Cell) /\ Len(r.cells) = n
      /\ \A i \in 1..n : r.cells[i] = Given(Place + m + i)
      /\ \A i \in (Place + 1)..(Place + m) : i \notin Carried
      /\ \A i \in (Place + m + 1)..(Place + m + n + o) : i \in Carried
      /\ Place + m + n + o <= Len(reply.cells) /\ AtPacket(Place + m + n + o)
  BY <1>1, <1>9 DEF TakesOf, Take
<1>3. Place \in Nat /\ m + n \in 0..Len(pipe) /\ reply.cells \in Seq(Cell)
  <2>1. Place \in Nat /\ Len(pipe) \in Nat /\ reply.cells \in Seq(Cell)
    BY PlaceTyped
  <2> QED
    BY <1>2, <2>1
<1>4. given' \in Seq(Cell) /\ GivenInv' /\ Len(given') = Counted(Place + m + n)
  <2>1. given \in Seq(Cell) /\ Len(given) = Counted(Place) /\ reply' = reply
    BY DEF CellsInv, Within
  <2>2. PICK p \in Nat : p = Place
    BY <1>3
  <2>3. \A i \in (p + m + 1)..(p + m + n) : i \in Carried
    <3>1. (p + m + 1)..(p + m + n) \subseteq (p + m + 1)..(p + m + n + o)
      OBVIOUS
    <3> QED
      BY <1>2, <2>2, <3>1
  <2>4. PICK w \in Seq(Cell) : w = r.cells
    BY <1>2
  <2>5. /\ Len(given) = Counted(p)
        /\ \A i \in (p + 1)..(p + m) : i \notin Carried
        /\ Len(w) = n /\ given' = given \o w
        /\ \A i \in 1..n : w[i] = Given(p + m + i)
    BY <1>2, <2>1, <2>2, <2>4
  <2>6. GivenInv' /\ given' \in Seq(Cell)
    <3>1. GivenInv /\ reply.cells \in Seq(Cell) /\ reply' = reply /\ given \in Seq(Cell)
      BY <1>3, <2>1
    <3>2. NextCarried(w, p, m, n)
      BY <2>3, <2>5 DEF NextCarried
    <3> QED
      BY <3>1, <3>2, MoreGiven
  <2>7. Len(given') = Counted(p + m + n)
    <3>1. Counted(p + m + n) = Counted(p) + n
      BY <1>3, <2>3, <2>5, CountedOn
    <3>2. Len(given \o w) = Len(given) + Len(w)
      BY <2>1
    <3> QED
      BY <2>5, <3>1, <3>2
  <2> QED
    BY <2>2, <2>6, <2>7
<1>5. CellsInv' /\ Place' = Place + m + n
  <2>1. PICK d \in 0..Len(pipe) : d = m + n
    BY <1>3
  <2>2. CellsInv' /\ Place' = Place + d
    BY <1>2, <1>4, <2>1, PipeRead
  <2>3. Place + (m + n) = Place + m + n
    BY <1>3
  <2> QED
    BY <2>1, <2>2, <2>3
<1>6. Within'
  <2>1. \E i \in 1..Place' : reply.cells[i] = Size(0)
    <3>1. 1..Place \subseteq 1..Place'
      BY <1>3, <1>5
    <3> QED
      BY <3>1 DEF Within
  <2>2. \A i \in (Place' + 1)..(Place' + o) : i \in Carried
    <3>1. (Place' + 1)..(Place' + o) \subseteq (Place + m + 1)..(Place + m + n + o)
      BY <1>2, <1>3, <1>5
    <3> QED
      BY <1>2, <3>1
  <2>3. PICK q : q = Place'
    OBVIOUS
  <2>4. /\ rest' = o /\ q + o <= Len(reply.cells) /\ AtPacket(q + o)
        /\ \A i \in (q + 1)..(q + o) : i \in Carried
        /\ \E i \in 1..q : reply.cells[i] = Size(0)
        /\ Len(given') = Counted(q)
    BY <1>2, <1>4, <1>5, <2>1, <2>2, <2>3
  <2>5. Carried' = Carried /\ \A p : Counted(p)' = Counted(p) /\ AtPacket(p)' = AtPacket(p)
    BY SameReply
  <2> QED
    BY <2>3, <2>4, <2>5 DEF Within, Size
<1> QED
  BY <1>0, <1>2, <1>4, <1>5, <1>6

(* Nothing is read.                                                        *)
LEMMA NothingRead ==
  ASSUME CellsInv, GivenInv, PlaceInv, UNCHANGED <<reply, given, rest>>,
         UNCHANGED <<wire, pipe>> \/ Arrive, block' \in Seq(Cell),
         pc' \in Opening => pc \in Opening,
         pc' \in Archived /\ result' # "invalid" => pc \in Archived /\ result # "invalid"
  PROVE  CellsInv' /\ GivenInv' /\ PlaceInv'
<1>1. /\ Len(reply.cells) \in Nat /\ Len(pipe) \in Nat /\ Len(wire) \in Nat /\ Place \in Nat
      /\ Place + Len(pipe) <= Len(reply.cells) /\ Len(wire) = Len(reply.cells) - (Place + Len(pipe))
  BY PlaceTyped
<1>2. CellsInv' /\ Place' = Place
  <2>1. CASE UNCHANGED <<wire, pipe>>
    BY <2>1 DEF CellsInv, Place
  <2>2. CASE Arrive
    <3>1. wire # <<>> /\ pipe' = Append(pipe, Head(wire)) /\ wire' = Tail(wire)
      BY <2>2 DEF Arrive
    <3>2. wire \in Seq(Cell) /\ pipe \in Seq(Cell) /\ Head(wire) = wire[1] /\ Head(wire) \in Cell /\ 1 \in 1..Len(wire)
      BY <3>1 DEF CellsInv
    <3>3. /\ wire' \in Seq(Cell) /\ Len(wire') = Len(wire) - 1
          /\ \A i \in 1..(Len(wire) - 1) : wire'[i] = wire[i + 1]
      BY <3>1, <3>2
    <3>4. /\ pipe' \in Seq(Cell) /\ Len(pipe') = Len(pipe) + 1 /\ pipe'[Len(pipe) + 1] = wire[1]
          /\ \A i \in 1..Len(pipe) : pipe'[i] = pipe[i]
      BY <3>1, <3>2
    <3>5. Place' = Place /\ Len(wire') + Len(pipe') <= Len(reply.cells)
      BY <1>1, <3>3, <3>4 DEF Place
    <3>6. ASSUME NEW i \in 1..Len(pipe') PROVE pipe'[i] = reply.cells[Place + i]
      <4>1. CASE i = Len(pipe) + 1
        <5>1. Place + Len(pipe) + 1 = Place + (Len(pipe) + 1)
          BY <1>1
        <5> QED
          BY <3>2, <3>4, <4>1, <5>1 DEF CellsInv
      <4>2. CASE i # Len(pipe) + 1
        <5>1. i \in 1..Len(pipe)
          BY <1>1, <3>4, <4>2
        <5> QED
          BY <3>4, <5>1 DEF CellsInv
      <4> QED
        BY <4>1, <4>2
    <3>7. ASSUME NEW i \in 1..Len(wire') PROVE wire'[i] = reply.cells[Place + Len(pipe') + i]
      <4>1. /\ i \in 1..(Len(wire) - 1) /\ i + 1 \in 1..Len(wire)
            /\ Place + Len(pipe') + i = Place + Len(pipe) + (i + 1)
        BY <1>1, <3>3, <3>4
      <4>2. wire[i + 1] = reply.cells[Place + Len(pipe) + (i + 1)]
        BY <4>1 DEF CellsInv
      <4> QED
        BY <3>3, <4>1, <4>2
    <3> QED
      BY <3>3, <3>4, <3>5, <3>6, <3>7 DEF CellsInv
  <2> QED
    BY <2>1, <2>2
<1>3. /\ Carried' = Carried /\ Payload' = Payload
      /\ \A p : Counted(p)' = Counted(p) /\ AtPacket(p)' = AtPacket(p)
  BY SameReply
<1>4. GivenInv'
  BY <1>3 DEF GivenInv
<1>5. PICK p : p = Place /\ p = Place'
  BY <1>2
<1>6. Before => Before'
  BY <1>3, <1>5 DEF Before
<1>7. Within => Within'
  BY <1>3, <1>5 DEF Within, Size
<1> QED
  BY <1>2, <1>4, <1>6, <1>7 DEF PlaceInv

(* The invariant holds at first, before anything has arrived.              *)
LEMMA InitStream == Init => StreamInv
<1> SUFFICES ASSUME Init PROVE StreamInv
  OBVIOUS
<1>1. /\ reply \in Replies /\ wire = reply.cells /\ pipe = <<>> /\ given = <<>> /\ block = <<>> /\ content = <<>>
      /\ rest = 0 /\ left = 0 /\ pad = 0 /\ pc = "start" /\ result = "nil"
  BY DEF Init
<1>2. reply.cells \in Seq(Cell) /\ Len(reply.cells) \in Nat /\ DOMAIN reply.cells = 1..Len(reply.cells)
  BY <1>1, ReplyTyped
<1>3. <<>> \in Seq(Cell) /\ Len(<<>>) = 0 /\ DOMAIN <<>> = {} /\ \A x : x \notin 1..0
  OBVIOUS
<1>9. Len(pipe) = 0 /\ Len(given) = 0 /\ DOMAIN given = {} /\ Len(wire) = Len(reply.cells) /\ 1..0 = {}
  BY <1>1, <1>3
<1>4. Place = 0
  BY <1>2, <1>9 DEF Place
<1>5. CellsInv
  <2>1. Len(wire) + Len(pipe) <= Len(reply.cells)
    BY <1>2, <1>9
  <2>2. \A i \in 1..Len(wire) : wire[i] = reply.cells[Place + Len(pipe) + i]
    <3>1. \A i \in 1..Len(wire) : 0 + 0 + i = i
      BY <1>2, <1>9
    <3> QED
      BY <1>1, <1>4, <1>9, <3>1
  <2> QED
    BY <1>1, <1>2, <1>3, <1>9, <2>1, <2>2 DEF CellsInv
<1>6. GivenInv
  <2>1. Len(Payload) \in Nat
    BY <1>2, PayloadAt, CountedTyped
  <2> QED
    BY <1>9, <2>1 DEF GivenInv
<1>7. AtPacket(0)
  <2>1. CASE reply.cells = <<>>
    BY <1>3, <2>1 DEF AtPacket
  <2>2. CASE reply.cells # <<>>
    <3>1. 1 \in {i \in DOMAIN reply.cells : reply.cells[i][1] = "size"}
      BY <1>1, <2>2, RepliesAssumption
    <3> QED
      BY <3>1 DEF AtPacket
  <2> QED
    BY <2>1, <2>2
<1>8. Before
  BY <1>1, <1>3, <1>4, <1>7 DEF Before
<1> QED
  BY <1>1, <1>3, <1>5, <1>6, <1>8 DEF StreamInv, PlaceInv, ContentInv, Opening, Archived

(* The readers come to the packet after the acknowledgement.               *)
LEMMA ReadAckKeeps ==
  ASSUME StreamInv, ReadAck
  PROVE  CellsInv' /\ GivenInv' /\ PlaceInv'
<1>1. CellsInv /\ GivenInv /\ Before
  BY DEF StreamInv, PlaceInv, Opening, ReadAck
<1>2. PICK u : u = Unflushed
  OBVIOUS
<1>3. /\ u # <<>> /\ Len(u) > u[1][2] /\ pipe' = From(u, u[1][2] + 2) /\ UNCHANGED <<reply, wire, given, rest, block>>
      /\ pc' = "flush" => u[2][1] = "ACK"
      /\ pc' \in {"flush", "failed"}
  BY <1>2 DEF ReadAck, tar, ssh, Fail, CloseSession
<1>4. PICK p \in Nat : /\ p = Place /\ p + Len(pipe) <= Len(reply.cells)
                       /\ Len(pipe) \in Nat /\ Len(reply.cells) \in Nat
  BY <1>1, PlaceTyped
<1>5. PICK m \in Nat :
         /\ m < Len(pipe) /\ u \in Seq(Cell) /\ Len(u) = Len(pipe) - m
         /\ \A i \in 1..(Len(pipe) - m) : u[i] = pipe[m + i]
         /\ \A i \in (p + 1)..(p + m) : reply.cells[i] = Size(0)
         /\ AtPacket(p + m) /\ p + m < Len(reply.cells)
         /\ u[1] = reply.cells[p + m + 1] /\ u[1][2] \in Nat \ {0}
  BY <1>1, <1>2, <1>3, <1>4, NextPacket DEF Before
<1>6. PICK z \in Nat : z = u[1][2] /\ z # 0
  BY <1>5
<1>7. PICK q \in Nat : q = p + m
  BY <1>4
<1>8. /\ reply.cells[q + 1] = Size(z) /\ q + 1 + z <= Len(reply.cells) /\ AtPacket(q + 1 + z)
      /\ \A j \in (q + 3)..(q + 1 + z) : reply.cells[j][1] # "band"
  <2>1. q < Len(reply.cells) /\ AtPacket(q) /\ reply \in Replies /\ reply.cells[q + 1][2] = z
    BY <1>1, <1>5, <1>6, <1>7 DEF CellsInv
  <2>2. LET x == reply.cells[q + 1][2]
        IN /\ x \in Nat /\ reply.cells[q + 1] = Size(x) /\ q + 1 + x <= Len(reply.cells) /\ AtPacket(q + 1 + x)
           /\ \A j \in (q + 2)..(q + 1 + x) : reply.cells[j][1] # "size"
           /\ \A j \in (q + 3)..(q + 1 + x) : reply.cells[j][1] # "band"
           /\ (\E i \in 1..q : reply.cells[i] = Size(0)) /\ x > 0 => reply.cells[q + 2][1] = "band"
    BY <2>1, PacketAt
  <2> QED
    BY <2>1, <2>2
<1>9. PICK d \in 0..Len(pipe) : d = m + 1 + z
  BY <1>3, <1>4, <1>5, <1>6
<1>10. /\ pipe' \in Seq(Cell) /\ Len(pipe') = Len(pipe) - d
       /\ \A i \in 1..(Len(pipe) - d) : pipe'[i] = pipe[d + i]
  <2>1. z + 2 \in 1..(Len(u) + 1) /\ u \in Seq(Cell) /\ Len(u) - (z + 2) + 1 = Len(pipe) - d
    <3>1. Len(u) = Len(pipe) - m /\ Len(u) > z /\ u \in Seq(Cell)
      BY <1>3, <1>5, <1>6
    <3>2. Len(u) \in Nat
      BY <3>1
    <3> QED
      BY <1>4, <1>9, <3>1, <3>2
  <2>2. /\ From(u, z + 2) \in Seq(Cell) /\ Len(From(u, z + 2)) = Len(u) - (z + 2) + 1
        /\ \A j \in 1..(Len(u) - (z + 2) + 1) : From(u, z + 2)[j] = u[z + 2 + j - 1]
    BY <2>1, Ends
  <2>3. \A i \in 1..(Len(pipe) - d) : z + 2 + i - 1 \in 1..(Len(pipe) - m) /\ m + (z + 2 + i - 1) = d + i
    BY <1>4, <1>9
  <2> QED
    BY <1>3, <1>5, <1>6, <2>1, <2>2, <2>3
<1>11. CellsInv' /\ Place' = p + d
  <2>1. given' \in Seq(Cell) /\ block' \in Seq(Cell)
    BY <1>1, <1>3 DEF CellsInv
  <2> QED
    BY <1>1, <1>3, <1>4, <1>10, <2>1, PipeRead
<1>12. GivenInv'
  BY <1>1, <1>3, SameReply DEF GivenInv
<1>13. ASSUME pc' = "flush" PROVE Before'
  <2>1. ASSUME NEW i \in 1..(p + d) PROVE reply.cells[i][1] # "band"
    <3>1. i \in 1..p \/ i \in (p + 1)..(p + m) \/ i = q + 1 \/ i = q + 2 \/ i \in (q + 3)..(q + 1 + z)
      BY <1>4, <1>7, <1>9
    <3>2. \A x : Size(x)[1] = "size"
      BY DEF Size
    <3>3. reply.cells[q + 2][1] = "ACK"
      <4>1. 2 \in 1..(Len(pipe) - m) /\ m + 2 \in 1..Len(pipe) /\ p + (m + 2) = q + 2
        BY <1>3, <1>4, <1>5, <1>6, <1>7
      <4>2. u[2] = reply.cells[q + 2]
        BY <1>1, <1>4, <1>5, <4>1 DEF CellsInv
      <4> QED
        BY <1>3, <1>13, <4>2
    <3> QED
      BY <1>1, <1>4, <1>5, <1>8, <3>1, <3>2, <3>3 DEF Before
  <2>2. q + 1 + z = p + d
    BY <1>4, <1>7, <1>9
  <2>3. AtPacket(p + d)'
    BY <1>3, <1>8, <2>2, SameReply
  <2> QED
    BY <1>1, <1>3, <1>11, <2>1, <2>3 DEF Before
<1> QED
  BY <1>3, <1>11, <1>12, <1>13 DEF PlaceInv, Opening, Archived

(* ... and to the archive after the flush.                                 *)
LEMMA ReadFlushKeeps ==
  ASSUME StreamInv, ReadFlush
  PROVE  CellsInv' /\ GivenInv' /\ PlaceInv'
<1>1. CellsInv /\ GivenInv /\ Before
  BY DEF StreamInv, PlaceInv, Opening, ReadFlush
<1>2. /\ pipe # <<>> /\ pipe' = Tail(pipe) /\ UNCHANGED <<reply, wire, given, rest, block>>
      /\ pc' = "first" => Head(pipe) = Size(0)
      /\ pc' \in {"first", "failed"}
  BY DEF ReadFlush, tar, ssh, Fail, CloseSession
<1>3. PICK p \in Nat : /\ p = Place /\ p + Len(pipe) <= Len(reply.cells)
                       /\ Len(pipe) \in Nat /\ Len(reply.cells) \in Nat
  BY <1>1, PlaceTyped
<1>4. pipe \in Seq(Cell) /\ given' \in Seq(Cell) /\ block' \in Seq(Cell)
  BY <1>1, <1>2 DEF CellsInv
<1>5. /\ 1 \in 0..Len(pipe) /\ 1 \in 1..Len(pipe) /\ Head(pipe) = pipe[1]
      /\ pipe' \in Seq(Cell) /\ Len(pipe') = Len(pipe) - 1
      /\ \A i \in 1..(Len(pipe) - 1) : pipe'[i] = pipe[1 + i]
  BY <1>2, <1>4
<1>6. CellsInv' /\ Place' = p + 1
  BY <1>1, <1>2, <1>3, <1>4, <1>5, PipeRead
<1>7. GivenInv'
  BY <1>1, <1>2, SameReply DEF GivenInv
<1>8. ASSUME pc' = "first" PROVE Within'
  <2>1. reply.cells[p + 1] = Size(0) /\ p < Len(reply.cells)
    BY <1>1, <1>2, <1>3, <1>5, <1>8 DEF CellsInv
  <2>2. Size(0)[1] = "size" /\ Size(0)[2] = 0
    BY DEF Size
  <2>3. AtPacket(p + 1)
    <3>1. AtPacket(p) /\ reply \in Replies
      BY <1>1, <1>3 DEF CellsInv, Before
    <3>2. AtPacket(p + 1 + reply.cells[p + 1][2])
      BY <1>3, <2>1, <3>1, PacketAt
    <3>3. p + 1 + 0 = p + 1
      OBVIOUS
    <3> QED
      BY <2>1, <2>2, <3>2, <3>3
  <2>4. CarriedTo(p + 1) = {}
    <3>1. \A b \in 1..(p + 1) : reply.cells[b][1] # "band"
      <4>1. \A b \in 1..(p + 1) : b \in 1..p \/ b = p + 1
        OBVIOUS
      <4> QED
        BY <1>1, <1>3, <2>1, <2>2, <4>1 DEF Before
    <3>2. Carried \subseteq Nat
      BY <1>1, PlaceTyped, CountedTyped
    <3>3. ASSUME NEW i \in Carried, i <= p + 1 PROVE FALSE
      <4>1. \E b \in 1..i : reply.cells[b][1] = "band"
        BY DEF Carried
      <4>2. 1..i \subseteq 1..(p + 1)
        BY <3>2, <3>3
      <4> QED
        BY <3>1, <4>1, <4>2
    <3> QED
      BY <3>3 DEF CarriedTo
  <2>5. Counted(p + 1) = 0 /\ Len(given) = 0 /\ rest = 0
    <3>1. Len(<<>>) = 0
      OBVIOUS
    <3> QED
      BY <1>1, <2>4, <3>1, FS_EmptySet DEF Counted, Before
  <2>6. Carried' = Carried /\ \A x : Counted(x)' = Counted(x) /\ AtPacket(x)' = AtPacket(x)
    BY <1>2, SameReply
  <2>7. PICK q \in Nat : q = p + 1
    OBVIOUS
  <2>8. /\ 0 \in Nat /\ q + 0 <= Len(reply.cells) /\ AtPacket(q + 0)
        /\ \A i \in (q + 1)..(q + 0) : i \in Carried
        /\ \E i \in 1..q : reply.cells[i] = Size(0)
    <3>1. q + 0 = q /\ q \in 1..q /\ q <= Len(reply.cells) /\ (q + 1)..(q + 0) = {}
      BY <1>3, <2>1, <2>7
    <3> QED
      BY <2>1, <2>3, <2>7, <3>1
  <2> QED
    BY <1>2, <1>6, <2>5, <2>6, <2>7, <2>8 DEF Within, Size
<1> QED
  BY <1>2, <1>6, <1>7, <1>8 DEF PlaceInv, Opening, Archived

(***************************************************************************)
(* The entries                                                             *)
(***************************************************************************)

(* A sequence that begins with the two cells of a block.                   *)
LEMMA BeginsWith ==
  ASSUME NEW name, NEW s \in Seq(Cell)
  PROVE  /\ IsPrefix(Cells(name, 2), s) <=> Len(s) >= 2 /\ s[1] = <<name, 1>> /\ s[2] = <<name, 2>>
         /\ s = Cells(name, 2) <=> Len(s) = 2 /\ s[1] = <<name, 1>> /\ s[2] = <<name, 2>>
<1> DEFINE S == Cell \cup {<<name, 1>>, <<name, 2>>}
           c == Cells(name, 2)
<1>1. c \in Seq(S) /\ Len(c) = 2 /\ c[1] = <<name, 1>> /\ c[2] = <<name, 2>>
  <2>1. c = [i \in 1..2 |-> <<name, i>>]
    BY DEF Cells
  <2>2. \A i \in 1..2 : <<name, i>> \in S
    OBVIOUS
  <2>3. c \in [1..2 -> S]
    BY <2>1, <2>2
  <2>4. c[1] = <<name, 1>> /\ c[2] = <<name, 2>>
    BY <2>1
  <2> HIDE DEF S, c
  <2>5. c \in Seq(S) /\ Len(c) = 2
    <3>1. PICK k \in Nat : k = 2
      OBVIOUS
    <3>2. c \in [1..k -> S]
      BY <2>3, <3>1
    <3>3. c \in Seq(S) /\ Len(c) = k
      BY <3>2
    <3> QED
      BY <3>1, <3>3
  <2> QED
    BY <2>4, <2>5
<1>2. s \in Seq(S) /\ Len(s) \in Nat
  OBVIOUS
<1> HIDE DEF S, c
<1>3. \A t \in Seq(S) : t = c <=> Len(t) = 2 /\ t[1] = <<name, 1>> /\ t[2] = <<name, 2>>
  <2>1. ASSUME NEW t \in Seq(S), Len(t) = 2, t[1] = <<name, 1>>, t[2] = <<name, 2>> PROVE t = c
    <3>1. ASSUME NEW i \in 1..2 PROVE t[i] = c[i]
      <4>1. i = 1 \/ i = 2
        OBVIOUS
      <4> QED
        BY <1>1, <2>1, <4>1
    <3> QED
      BY <1>1, <2>1, <3>1, SeqEqual
  <2> QED
    BY <1>1, <2>1
<1>4. SubSeq(c, 1, 2) = c
  <2>1. SubSeq(c, 1, 2) \in Seq(S) /\ Len(SubSeq(c, 1, 2)) = 2 /\ \A i \in 1..2 : SubSeq(c, 1, 2)[i] = c[i]
    BY <1>1, SubSeqProperties
  <2> QED
    BY <1>1, <1>3, <2>1
<1>5. ASSUME Len(s) >= 2
      PROVE  SubSeq(s, 1, 2) \in Seq(S) /\ Len(SubSeq(s, 1, 2)) = 2 /\ \A i \in 1..2 : SubSeq(s, 1, 2)[i] = s[i]
  <2>1. 1 \in 1..(Len(s) + 1) /\ 2 \in 0..Len(s)
    BY <1>2, <1>5
  <2> QED
    BY <1>2, <2>1, SubSeqProperties
<1>6. IsPrefix(c, s) <=> Len(s) >= 2 /\ SubSeq(s, 1, 2) = c
  BY <1>1, <1>2, <1>4 DEF IsPrefix
<1>7. ASSUME Len(s) >= 2 PROVE SubSeq(s, 1, 2) = c <=> s[1] = <<name, 1>> /\ s[2] = <<name, 2>>
  <2>1. PICK t \in Seq(S) : t = SubSeq(s, 1, 2) /\ Len(t) = 2 /\ \A i \in 1..2 : t[i] = s[i]
    BY <1>5, <1>7
  <2>2. t[1] = s[1] /\ t[2] = s[2]
    BY <2>1
  <2>3. t = c <=> t[1] = <<name, 1>> /\ t[2] = <<name, 2>>
    BY <1>3, <2>1
  <2> QED
    BY <2>1, <2>2, <2>3
<1> QED
  BY <1>2, <1>3, <1>6, <1>7 DEF c

(* More is given.                                                          *)
LEMMA GivenGrows ==
  ASSUME given \in Seq(Cell), NEW w \in Seq(Cell), given' = given \o w
  PROVE  /\ Len(given) \in Nat /\ Len(w) \in Nat /\ Len(given') = Len(given) + Len(w)
         /\ \A i \in 1..Len(given) : given'[i] = given[i]
         /\ \A i \in 1..Len(w) : given'[Len(given) + i] = w[i]
         /\ Len(given) >= 2 => (HeaderFirst' <=> HeaderFirst)
<1>1. Len(given) \in Nat /\ Len(w) \in Nat
  OBVIOUS
<1>2. /\ Len(given') = Len(given) + Len(w)
      /\ \A i \in 1..(Len(given) + Len(w)) : given'[i] = IF i <= Len(given) THEN given[i] ELSE w[i - Len(given)]
  BY ConcatProperties
<1>3. \A i \in 1..Len(given) : given'[i] = given[i]
  BY <1>1, <1>2
<1>4. \A i \in 1..Len(w) : given'[Len(given) + i] = w[i]
  <2>1. \A i \in 1..Len(w) : /\ Len(given) + i \in 1..(Len(given) + Len(w)) /\ ~(Len(given) + i <= Len(given))
                             /\ (Len(given) + i) - Len(given) = i
    BY <1>1
  <2> QED
    BY <1>2, <2>1
<1>5. Len(given) >= 2 => 1 \in 1..Len(given) /\ 2 \in 1..Len(given)
  BY <1>1
<1> QED
  BY <1>1, <1>2, <1>3, <1>4, <1>5 DEF HeaderFirst

(* After the first entry the content stays as it is.                       *)
LEMMA EntryKept ==
  ASSUME EntryInv, pc # "read", pc' # "read", given \in Seq(Cell), content \in Seq(Cell),
         UNCHANGED <<reply, content>>,
         UNCHANGED given \/ \E w \in Seq(Cell) : given' = given \o w
  PROVE  EntryInv'
<1>1. Len(given) >= 2 /\ Len(given) \in Nat /\ Len(content) \in Nat
  BY DEF EntryInv
<1>2. CASE UNCHANGED given
  BY <1>2 DEF EntryInv, HeaderFirst
<1>3. CASE \E w \in Seq(Cell) : given' = given \o w
  <2>1. PICK w \in Seq(Cell) : given' = given \o w
    BY <1>3
  <2>2. /\ Len(w) \in Nat /\ Len(given') = Len(given) + Len(w)
        /\ \A i \in 1..Len(given) : given'[i] = given[i]
        /\ HeaderFirst' <=> HeaderFirst
    BY <1>1, <2>1, GivenGrows
  <2>3. Len(given') >= 2 /\ Len(given') >= Len(given)
    BY <1>1, <2>2
  <2>4. ASSUME HeaderFirst
        PROVE  /\ Len(content) + 2 <= Len(given') /\ Len(content) = reply.size
               /\ \A i \in 1..Len(content) : content[i] = given'[2 + i]
    <3>1. Len(content) + 2 <= Len(given) /\ Len(content) = reply.size /\ \A i \in 1..Len(content) : content[i] = given[2 + i]
      BY <2>4 DEF EntryInv
    <3>2. \A i \in 1..Len(content) : 2 + i \in 1..Len(given)
      BY <1>1, <3>1
    <3>3. Len(content) + 2 <= Len(given')
      BY <1>1, <2>2, <3>1
    <3> QED
      BY <2>2, <3>1, <3>2, <3>3
  <2>5. ~HeaderFirst => content = <<>>
    BY DEF EntryInv
  <2> QED
    BY <2>2, <2>3, <2>4, <2>5 DEF EntryInv
<1> QED
  BY <1>2, <1>3

(* The number of cells tr.Next wants for a header.                         *)
LEMMA WantedTyped ==
  ASSUME block \in Seq(Cell), Len(block) < Wanted
  PROVE  Wanted - Len(block) \in Nat
<1>1. Wanted \in {2, 3} /\ Len(block) \in Nat
  BY DEF Wanted
<1> QED
  BY <1>1

(* tar.Reader reads on: it skips, or a header or the file is read.         *)
LEMMA TarReads ==
  ASSUME StreamInv, Skip \/ ReadHeader \/ Read
  PROVE  StreamInv'
<1>1. /\ CellsInv /\ GivenInv /\ Within /\ left \in Nat /\ pad \in Nat /\ content \in Seq(Cell) /\ block \in Seq(Cell)
      /\ given \in Seq(Cell) /\ pc \in Archived /\ result = "nil"
  BY DEF StreamInv, PlaceInv, ContentInv, CellsInv, Archived, Skip, ReadHeader, Read
<1>2. UNCHANGED <<reply, wire, pc, result>>
  BY DEF Skip, ReadHeader, Read, ssh
<1>3. CASE Skip
  <2>1. left + pad \in Nat
    BY <1>1
  <2>2. PICK k \in Nat : k = left + pad
    BY <2>1
  <2>3. PICK r \in SideBandReads(k) : Take(r) /\ left' = 0 /\ pad' = left + pad - Len(r.cells)
    BY <1>3, <2>2 DEF Skip
  <2>4. block' = block /\ content' = content
    BY <1>3 DEF Skip
  <2>5. CellsInv' /\ GivenInv' /\ Within' /\ Len(r.cells) \in 0..k /\ r.cells \in Seq(Cell)
    <3>1. block' \in Seq(Cell)
      BY <1>1, <2>4
    <3> QED
      BY <1>1, <1>2, <2>3, <3>1, ArchiveRead
  <2>6. pad' \in Nat /\ left' \in Nat
    <3>1. PICK n \in Nat : n = Len(r.cells) /\ n <= k
      BY <2>5
    <3>2. left + pad - n \in Nat
      BY <1>1, <2>2, <3>1
    <3>3. pad' = left + pad - n
      BY <2>3, <3>1
    <3> QED
      BY <2>3, <3>2, <3>3
  <2>7. pc = "next"
    <3>1. pc \in {"first", "next"} /\ left + pad > 0
      BY <1>3 DEF Skip
    <3>2. pc = "first" => left = 0 /\ pad = 0
      BY DEF StreamInv, ContentInv
    <3> QED
      BY <3>1, <3>2
  <2>8. EntryInv'
    <3>1. EntryInv
      BY <1>1, <2>7 DEF StreamInv, ContentInv
    <3>2. \E w \in Seq(Cell) : given' = given \o w
      BY <2>3, <2>5 DEF Take
    <3> QED
      BY <1>1, <1>2, <2>4, <2>7, <3>1, <3>2, EntryKept
  <2>9. ContentInv'
    BY <1>1, <1>2, <2>4, <2>6, <2>7, <2>8 DEF ContentInv, Opening
  <2> QED
    BY <1>1, <1>2, <2>5, <2>9 DEF StreamInv, PlaceInv, Opening, Archived
<1>4. CASE ReadHeader
  <2>1. Len(block) < Wanted /\ pc \in {"first", "next"}
    BY <1>4 DEF ReadHeader
  <2>2. PICK k \in Nat : k = Wanted - Len(block)
    BY <1>1, <2>1, WantedTyped
  <2>3. PICK r \in SideBandReads(k) : Take(r) /\ block' = block \o r.cells
    BY <1>4, <2>2 DEF ReadHeader
  <2>4. left' = left /\ pad' = pad /\ content' = content
    BY <1>4 DEF ReadHeader
  <2>5. CellsInv' /\ GivenInv' /\ Within' /\ r.cells \in Seq(Cell)
    <3>1. r.cells \in Seq(Cell) => block' \in Seq(Cell)
      BY <1>1, <2>3
    <3> QED
      BY <1>1, <1>2, <2>3, <3>1, ArchiveRead
  <2>6. CASE pc = "first"
    <3>1. block' = given'
      BY <2>3, <2>6 DEF Take, StreamInv, ContentInv
    <3> QED
      BY <1>1, <1>2, <2>4, <2>5, <2>6, <3>1 DEF ContentInv, StreamInv, PlaceInv, Opening, Archived
  <2>7. CASE pc = "next"
    <3>1. EntryInv
      BY <1>1, <2>7 DEF StreamInv, ContentInv
    <3>2. \E w \in Seq(Cell) : given' = given \o w
      BY <2>3, <2>5 DEF Take
    <3>3. EntryInv'
      BY <1>1, <1>2, <2>4, <2>7, <3>1, <3>2, EntryKept
    <3> QED
      BY <1>1, <1>2, <2>4, <2>5, <2>7, <3>3 DEF ContentInv, StreamInv, PlaceInv, Opening, Archived
  <2> QED
    BY <2>1, <2>6, <2>7
<1>5. CASE Read
  <2>1. PICK k \in Nat : k = Atmost(Buffer, left) /\ k <= left
    <3>1. Buffer \in Nat
      BY RepliesAssumption
    <3>2. Atmost(Buffer, left) \in Nat /\ Atmost(Buffer, left) <= left
      BY <1>1, <3>1 DEF Atmost
    <3> QED
      BY <3>2
  <2>2. PICK r \in SideBandReads(k) : Take(r) /\ content' = content \o r.cells /\ left' = left - Len(r.cells)
    BY <1>5, <2>1 DEF Read
  <2>3. pad' = pad /\ block' = block /\ pc = "read" /\ result = "nil" /\ left > 0
    BY <1>5 DEF Read
  <2>4. CellsInv' /\ GivenInv' /\ Within' /\ r.cells \in Seq(Cell) /\ Len(r.cells) \in 0..k
    <3>1. block' \in Seq(Cell)
      BY <1>1, <2>3
    <3> QED
      BY <1>1, <1>2, <2>2, <3>1, ArchiveRead
  <2>5. PICK w \in Seq(Cell) : w = r.cells
    BY <2>4
  <2>6. /\ content' = content \o w /\ given' = given \o w /\ left' = left - Len(w) /\ Len(w) \in Nat /\ Len(w) <= left
        /\ Len(content) \in Nat
    BY <1>1, <2>1, <2>2, <2>4, <2>5 DEF Take
  <2>7. EntryInv /\ HeaderFirst /\ Len(given) >= 2
    <3>1. EntryInv
      BY <2>3 DEF StreamInv, ContentInv
    <3>2. ~HeaderFirst => left = 0
      BY <2>3, <3>1 DEF EntryInv
    <3> QED
      BY <2>3, <3>1, <3>2 DEF EntryInv
  <2>8. /\ Len(given) = Len(content) + 2 /\ Len(content) + left = reply.size
        /\ \A i \in 1..Len(content) : content[i] = given[2 + i]
    BY <2>3, <2>7 DEF EntryInv
  <2>9. /\ content' \in Seq(Cell) /\ Len(content') = Len(content) + Len(w)
        /\ \A i \in 1..(Len(content) + Len(w)) : content'[i] = IF i <= Len(content) THEN content[i] ELSE w[i - Len(content)]
    BY <1>1, <2>6, ConcatProperties
  <2>10. /\ Len(given') = Len(given) + Len(w) /\ HeaderFirst'
         /\ \A i \in 1..Len(given) : given'[i] = given[i]
         /\ \A i \in 1..Len(w) : given'[Len(given) + i] = w[i]
    BY <1>1, <2>6, <2>7, GivenGrows
  <2>11. left' \in Nat /\ Len(content') + left' = reply.size /\ Len(given') = Len(content') + 2 /\ Len(given') >= 2
         /\ Len(content') + 2 <= Len(given')
    BY <1>1, <2>6, <2>8, <2>9, <2>10
  <2>12. ASSUME NEW i \in 1..Len(content') PROVE content'[i] = given'[2 + i]
    <3>1. CASE i <= Len(content)
      <4>1. i \in 1..Len(content) /\ 2 + i \in 1..Len(given) /\ i \in 1..(Len(content) + Len(w))
        BY <2>6, <2>8, <2>9, <3>1
      <4> QED
        BY <2>8, <2>9, <2>10, <3>1, <4>1
    <3>2. CASE ~(i <= Len(content))
      <4>1. PICK j \in 1..Len(w) : j = i - Len(content)
        BY <2>6, <2>9, <3>2
      <4>2. 2 + i = Len(given) + j /\ i \in 1..(Len(content) + Len(w))
        BY <2>6, <2>8, <2>9, <4>1
      <4> QED
        BY <2>9, <2>10, <3>2, <4>1, <4>2
    <3> QED
      BY <3>1, <3>2
  <2>13. EntryInv'
    BY <1>2, <2>3, <2>10, <2>11, <2>12 DEF EntryInv
  <2>14. ContentInv'
    BY <1>1, <1>2, <2>3, <2>9, <2>11, <2>13 DEF ContentInv, Opening
  <2> QED
    BY <1>1, <1>2, <2>4, <2>14 DEF StreamInv, PlaceInv, Opening, Archived
<1> QED
  BY <1>3, <1>4, <1>5

(* A packet of no known band, or of a band alone, ends the reading.        *)
LEMMA ReadStopsKeeps ==
  ASSUME StreamInv, ReadStops
  PROVE  StreamInv'
<1>1. /\ CellsInv /\ GivenInv /\ ContentInv /\ pc \in {"first", "read", "next"}
      /\ Len(Unflushed) >= 2 /\ pipe' = From(Unflushed, 3)
      /\ UNCHANGED <<reply, wire, given, block, left, pad, content>>
      /\ (pc' = pc /\ result' = "invalid") \/ (pc' = "panicked" /\ result' = result)
  BY DEF StreamInv, ReadStops, Reading, ssh, CloseSession
<1>2. PICK u \in Seq(Cell) : u = Unflushed
  BY <1>1, Skipped DEF CellsInv
<1>3. PICK m \in 0..(Len(pipe) - 1) :
        Len(u) = Len(pipe) - m /\ \A i \in 1..(Len(pipe) - m) : u[i] = pipe[m + i]
  <2>1. Unflushed # <<>>
    BY <1>1
  <2> QED
    BY <1>1, <1>2, <2>1, Skipped DEF CellsInv
<1>4. Len(pipe) \in Nat /\ Len(u) \in Nat /\ m + 2 \in 0..Len(pipe) /\ 3 \in 1..(Len(u) + 1)
  <2>1. Len(pipe) \in Nat /\ Len(u) \in Nat
    BY <1>1, PlaceTyped
  <2> QED
    BY <1>1, <1>2, <1>3, <2>1
<1>5. /\ pipe' \in Seq(Cell) /\ Len(pipe') = Len(pipe) - (m + 2)
      /\ \A i \in 1..(Len(pipe) - (m + 2)) : pipe'[i] = pipe[(m + 2) + i]
  <2>1. /\ pipe' \in Seq(Cell) /\ Len(pipe') = Len(u) - 3 + 1
        /\ \A i \in 1..(Len(u) - 3 + 1) : pipe'[i] = u[3 + i - 1]
    BY <1>1, <1>2, <1>4, Ends
  <2>2. /\ Len(u) - 3 + 1 = Len(pipe) - (m + 2)
        /\ \A i \in 1..(Len(pipe) - (m + 2)) : /\ 3 + i - 1 \in 1..(Len(pipe) - m)
                                               /\ m + (3 + i - 1) = (m + 2) + i
    BY <1>3, <1>4
  <2> QED
    BY <1>3, <2>1, <2>2
<1>6. CellsInv'
  <2>1. given' \in Seq(Cell) /\ block' \in Seq(Cell)
    BY <1>1 DEF CellsInv
  <2>2. PICK d \in 0..Len(pipe) : d = m + 2
    BY <1>4
  <2> QED
    BY <1>1, <1>5, <2>1, <2>2, PipeRead
<1>7. GivenInv'
  BY <1>1, SameReply DEF GivenInv
<1> QED
  BY <1>1, <1>6, <1>7 DEF StreamInv, PlaceInv, ContentInv, Opening, Archived

(* An entry is come to.                                                    *)
LEMMA EntryTyped ==
  ASSUME reply.size \in Nat, AtEntry
  PROVE  /\ left' \in Nat /\ pad' \in Nat /\ block' = <<>> /\ result' = NextOf
         /\ left' = IF block = Cells("header", 2) THEN reply.size ELSE 0
<1>1. pad' \in {0, 1, reply.size % 2} /\ reply.size % 2 \in Nat
  BY DEF AtEntry
<1> QED
  BY <1>1 DEF AtEntry

(* fetchRemote comes to the first entry.                                   *)
LEMMA FirstNextKeeps ==
  ASSUME StreamInv, FirstNext
  PROVE  StreamInv'
<1>1. CellsInv /\ GivenInv /\ PlaceInv /\ ContentInv /\ reply.size \in Nat /\ block \in Seq(Cell)
  BY ReplyTyped DEF StreamInv, CellsInv
<1>2. /\ UNCHANGED <<reply, wire, pipe, given, rest, content>> /\ pc = "first" /\ pc' = "read" /\ AtEntry
      /\ Len(block) = Wanted \/ result # "nil"
  BY DEF FirstNext, CloseSession
<1>3. /\ left' \in Nat /\ pad' \in Nat /\ block' = <<>> /\ result' = NextOf
      /\ left' = IF block = Cells("header", 2) THEN reply.size ELSE 0
  BY <1>1, <1>2, EntryTyped
<1>4. block' \in Seq(Cell) /\ (result' # "invalid" => result # "invalid")
  BY <1>3 DEF NextOf
<1>5. CellsInv' /\ GivenInv' /\ PlaceInv'
  BY <1>1, <1>2, <1>4, NothingRead DEF Opening, Archived
<1>6. block = given /\ content = <<>> /\ content' = <<>> /\ Len(<<>>) = 0 /\ 1..0 = {} /\ result \in {"nil", "invalid"}
  BY <1>1, <1>2 DEF ContentInv
<1>7. ASSUME result' # "invalid" PROVE EntryInv'
  <2>1. Len(block) = Wanted
    BY <1>2, <1>4, <1>6, <1>7
  <2>2. Wanted \in {2, 3}
    BY DEF Wanted
  <2>3. Len(given) >= 2
    BY <1>6, <2>1, <2>2
  <2>4. HeaderFirst <=> block = Cells("header", 2)
    <3>1. ASSUME HeaderFirst PROVE Len(block) = 2
      <4>1. block[1] # <<"commit", 1>>
        BY <1>6, <3>1 DEF HeaderFirst
      <4>2. ~IsPrefix(Cells("commit", 2), block)
        BY <1>1, <4>1, BeginsWith
      <4> QED
        BY <2>1, <4>2 DEF Wanted
    <3>2. block = Cells("header", 2) <=> Len(block) = 2 /\ block[1] = <<"header", 1>> /\ block[2] = <<"header", 2>>
      BY <1>1, BeginsWith
    <3> QED
      BY <1>6, <3>1, <3>2 DEF HeaderFirst
  <2>5. HeaderFirst' <=> HeaderFirst
    BY <1>2 DEF HeaderFirst
  <2>6. ASSUME HeaderFirst PROVE Len(given) = 2 /\ left' = reply.size /\ result' = "nil"
    <3>1. block = Cells("header", 2)
      BY <2>4, <2>6
    <3>2. Len(block) = 2 /\ block[1] = <<"header", 1>>
      BY <1>1, <3>1, BeginsWith
    <3>3. block # Cells("end", 2)
      <4>1. block[1] # <<"end", 1>>
        BY <3>2
      <4> QED
        BY <1>1, <4>1, BeginsWith
    <3>4. result = "nil"
      BY <1>4, <1>6, <1>7
    <3> QED
      BY <1>3, <1>6, <3>1, <3>2, <3>3, <3>4 DEF NextOf
  <2>7. ~HeaderFirst => left' = 0
    BY <1>3, <2>4
  <2>8. Len(content') + left' = left'
    BY <1>3, <1>6
  <2> QED
    BY <1>1, <1>2, <1>3, <1>6, <2>3, <2>5, <2>6, <2>7, <2>8 DEF EntryInv
<1>8. ContentInv'
  BY <1>1, <1>2, <1>3, <1>7 DEF ContentInv, Opening
<1> QED
  BY <1>2, <1>5, <1>8 DEF StreamInv, Archived

(* Nothing is read: what arrives, what begins and what ends.               *)
LEMMA OtherSteps ==
  ASSUME StreamInv, Arrive \/ Connect \/ ConnectFails \/ Copied \/ CloseNext \/ Wait
  PROVE  StreamInv'
<1>1. /\ CellsInv /\ GivenInv /\ PlaceInv /\ ContentInv /\ reply.size \in Nat /\ block \in Seq(Cell)
      /\ given \in Seq(Cell) /\ content \in Seq(Cell)
  BY ReplyTyped DEF StreamInv, CellsInv, ContentInv
<1>2. <<>> \in Seq(Cell)
  OBVIOUS
<1>3. CASE Arrive
  <2>1. UNCHANGED <<reply, given, rest, block, pc, left, pad, result, content>>
    BY <1>3 DEF Arrive, tar
  <2>2. CellsInv' /\ GivenInv' /\ PlaceInv'
    BY <1>1, <1>3, <2>1, NothingRead
  <2> QED
    BY <1>1, <2>1, <2>2 DEF StreamInv, ContentInv, EntryInv, HeaderFirst
<1>4. CASE Connect
  <2>1. UNCHANGED <<reply, wire, pipe, given, rest, block, left, pad, result, content>> /\ pc = "start" /\ pc' = "ack"
    BY <1>4 DEF Connect, tar
  <2>2. CellsInv' /\ GivenInv' /\ PlaceInv'
    BY <1>1, <2>1, NothingRead DEF Opening, Archived
  <2> QED
    BY <1>1, <2>1, <2>2 DEF StreamInv, ContentInv, Opening
<1>5. CASE ConnectFails
  <2>1. UNCHANGED <<reply, wire, pipe, given, rest, block, left, pad, result, content>> /\ pc' = "failed"
    BY <1>5 DEF ConnectFails, Fail, CloseSession, tar
  <2>2. CellsInv' /\ GivenInv' /\ PlaceInv'
    BY <1>1, <2>1, NothingRead DEF Opening, Archived
  <2> QED
    BY <1>1, <2>1, <2>2 DEF StreamInv, ContentInv, Opening
<1>6. CASE Copied
  <2>1. /\ UNCHANGED <<reply, wire, pipe, given, rest, block, left, pad, result, content>>
        /\ pc = "read" /\ pc' = "next" /\ (result # "nil" \/ left = 0)
    BY <1>6 DEF Copied, ssh
  <2>2. CellsInv' /\ GivenInv' /\ PlaceInv'
    BY <1>1, <2>1, NothingRead DEF Opening, Archived
  <2>3. ASSUME result # "invalid" PROVE EntryInv'
    <3>1. EntryInv
      BY <1>1, <2>1, <2>3 DEF ContentInv
    <3>2. ASSUME HeaderFirst PROVE Len(content) = reply.size
      <4>1. result = "nil" /\ Len(content) + left = reply.size
        BY <2>1, <3>1, <3>2 DEF EntryInv
      <4>2. left = 0 /\ Len(content) \in Nat
        BY <1>1, <2>1, <4>1
      <4> QED
        BY <4>1, <4>2
    <3> QED
      BY <2>1, <3>1, <3>2 DEF EntryInv, HeaderFirst
  <2> QED
    BY <1>1, <2>1, <2>2, <2>3 DEF StreamInv, ContentInv, Opening, Archived
<1>7. CASE CloseNext
  <2>1. /\ UNCHANGED <<reply, wire, pipe, given, rest, content>> /\ pc = "next" /\ pc' \in {"next", "wait"} /\ AtEntry
        /\ result # "invalid" /\ (pc' = "wait" => NextOf = "EOF") /\ result' = NextOf
    BY <1>7 DEF CloseNext, AtEntry, ssh
  <2>2. left' \in Nat /\ pad' \in Nat /\ block' = <<>>
    BY <1>1, <2>1, EntryTyped
  <2>3. CellsInv' /\ GivenInv' /\ PlaceInv'
    BY <1>1, <1>2, <2>1, <2>2, NothingRead DEF Opening, Archived
  <2>4. EntryInv'
    <3>1. EntryInv
      BY <1>1, <2>1 DEF ContentInv
    <3> QED
      BY <1>1, <2>1, <3>1, EntryKept
  <2> QED
    BY <1>1, <2>1, <2>2, <2>3, <2>4 DEF StreamInv, ContentInv, Opening, Archived
<1>8. CASE Wait
  <2>1. /\ UNCHANGED <<reply, wire, pipe, given, rest, block, left, pad, result, content>>
        /\ pc = "wait" /\ pc' \in {"answered", "failed"}
    BY <1>8 DEF Wait, ssh, tar
  <2>2. CellsInv' /\ GivenInv' /\ PlaceInv'
    BY <1>1, <2>1, NothingRead DEF Opening, Archived
  <2>3. result # "invalid" => EntryInv'
    BY <1>1, <2>1, EntryKept DEF ContentInv
  <2> QED
    BY <1>1, <2>1, <2>2, <2>3 DEF StreamInv, ContentInv, Opening, Archived
<1> QED
  BY <1>3, <1>4, <1>5, <1>6, <1>7, <1>8

(* Every step keeps the invariant.                                         *)
LEMMA StreamInductive == StreamInv /\ [Next]_vars => StreamInv'
<1> SUFFICES ASSUME StreamInv, [Next]_vars PROVE StreamInv'
  OBVIOUS
<1>1. CASE Skip \/ ReadHeader \/ Read
  BY <1>1, TarReads
<1>2. CASE Arrive \/ Connect \/ ConnectFails \/ Copied \/ CloseNext \/ Wait
  BY <1>2, OtherSteps
<1>3. CASE ReadStops
  BY <1>3, ReadStopsKeeps
<1>4. CASE FirstNext
  BY <1>4, FirstNextKeeps
<1>5. CASE ReadAck \/ ReadFlush
  <2>1. CellsInv' /\ GivenInv' /\ PlaceInv'
    BY <1>5, ReadAckKeeps, ReadFlushKeeps
  <2>2. /\ pc \in {"ack", "flush"} /\ pc' \in {"flush", "first", "failed"}
        /\ UNCHANGED <<reply, given, block, left, pad, result, content>>
    BY <1>5 DEF ReadAck, ReadFlush, Fail, CloseSession, ssh, tar
  <2>3. given = <<>> /\ block = <<>>
    BY <2>2 DEF StreamInv, PlaceInv, ContentInv, Before, Opening
  <2> QED
    BY <2>1, <2>2, <2>3 DEF StreamInv, ContentInv, Opening, Archived
<1>6. CASE UNCHANGED vars
  <2>1. CellsInv /\ GivenInv /\ PlaceInv /\ block \in Seq(Cell)
    BY DEF StreamInv, CellsInv
  <2>2. UNCHANGED <<reply, given, rest, wire, pipe, block, pc, left, pad, result, content>>
    BY <1>6 DEF vars
  <2>3. CellsInv' /\ GivenInv' /\ PlaceInv'
    BY <2>1, <2>2, NothingRead
  <2> QED
    BY <2>2, <2>3 DEF StreamInv, ContentInv, EntryInv, HeaderFirst
<1> QED
  BY <1>1, <1>2, <1>3, <1>4, <1>5, <1>6 DEF Next, Fetch, Terminated

(* What is answered is what the property says of it.                       *)
LEMMA AnsweredWhole ==
  ASSUME StreamInv, pc = "answered"
  PROVE  content = IF IsPrefix(Cells("header", 2), given) THEN SubSeq(given, 3, 2 + reply.size) ELSE <<>>
<1>1. EntryInv /\ given \in Seq(Cell) /\ content \in Seq(Cell) /\ reply.size \in Nat
  BY ReplyTyped DEF StreamInv, ContentInv, CellsInv
<1>2. HeaderFirst <=> IsPrefix(Cells("header", 2), given)
  BY <1>1, BeginsWith DEF HeaderFirst, EntryInv
<1>3. ASSUME HeaderFirst PROVE content = SubSeq(given, 3, 2 + reply.size)
  <2>1. /\ Len(content) = reply.size /\ reply.size + 2 <= Len(given)
        /\ \A i \in 1..reply.size : content[i] = given[2 + i]
    BY <1>1, <1>3 DEF EntryInv
  <2>2. 3 \in 1..(Len(given) + 1) /\ 2 + reply.size \in 2..Len(given) /\ Len(given) \in Nat
    BY <1>1, <2>1
  <2>3. PICK n \in Nat : n = reply.size
    BY <1>1
  <2>4. /\ SubSeq(given, 3, 2 + n) \in Seq(Cell) /\ Len(SubSeq(given, 3, 2 + n)) = (2 + n) - 3 + 1
        /\ \A i \in 1..((2 + n) - 3 + 1) : SubSeq(given, 3, 2 + n)[i] = given[3 + i - 1]
    <3>1. 3 \in 1..(Len(given) + 1) /\ 2 + n \in (3 - 1)..Len(given)
      BY <2>2, <2>3
    <3> QED
      BY <1>1, <3>1, SubSeqProperties
  <2>5. (2 + n) - 3 + 1 = n /\ \A i \in 1..n : 3 + i - 1 = 2 + i
    OBVIOUS
  <2> QED
    BY <1>1, <2>1, <2>3, <2>4, <2>5, SeqEqual
<1> QED
  BY <1>1, <1>2, <1>3 DEF EntryInv

(* Whatever a remote sends in whole packets, and however it arrives, tar is*)
(* given what they carry, in order and with nothing lost, only the last of *)
(* each packet as zero, and an answer is all of the content of the first   *)
(* entry (SideBandReader.Read and fetchRemote of pkg/renderer/git).        *)
THEOREM GitStreamKept == Spec => []StreamKept
<1>1. Init => StreamInv
  BY InitStream
<1>2. StreamInv /\ [Next]_vars => StreamInv'
  BY StreamInductive
<1>3. StreamInv => StreamKept
  BY AnsweredWhole DEF StreamInv, GivenInv, StreamKept
<1> QED
  BY <1>1, <1>2, <1>3, PTL DEF Spec

=============================================================================
