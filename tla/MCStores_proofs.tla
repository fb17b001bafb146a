--------------------------- MODULE MCStores_proofs ---------------------------
(***************************************************************************)
(* Theorems about the parts that MCStores instantiates.  NodeState: a node *)
(* started again knows what it knew, and no peer that was not saved.       *)
(* DiagnosticLog: a page that asks after the last sequence it saw misses   *)
(* nothing the log still holds.  DeviceList: each endpoint is listed once, *)
(* no device hears itself, and the matrix keeps the links selected.        *)
(* PairedRoutes: the theorems of PairedRoutes_proofs, of the instance R.   *)
(***************************************************************************)
EXTENDS MCStores, Recursion, SequenceTheorems

------------------------------------------------------------------------------
(* NodeState.                                                              *)

\* The texts a node can know, and the texts a row can end with.
Words == (Names \cup Ids \cup {"host", "idle", "h", "8791", "1", "0", "S", "id"}) \ {""}
Solid == [of: Words, whole: BOOLEAN]
Texts == Solid \cup {S!Empty}

PeerRecords ==
    [id: Texts, alias: Texts, host: Texts, port: Texts, catalog: Texts, telemetry: Solid]
Memories == [node: Solid, alias: Texts, discovery: BOOLEAN, exposed: Seq(Texts),
             telemetry: Solid, peers: Seq(PeerRecords)]

\* What load can make of a file: an alias, and a name for each endpoint.
Loaded == [node: Solid, alias: Solid, discovery: BOOLEAN, exposed: Seq(Solid),
           telemetry: Solid, peers: Seq(PeerRecords)]

\* The rows of a file, whole or cut: no row has more fields than its kind.
Arity(kind) == CASE kind = "endpoint" -> 3 [] kind = "peer" -> 6 [] OTHER -> 1
Kinds == {"node", "alias", "discovery", "endpoint", "telemetry", "peer"}
FileRows == {row \in [kind: Kinds, fields: Seq(Texts)] :
                Len(row.fields) >= 1 /\ Len(row.fields) <= Arity(row.kind)}

\* An empty text is not one of the others.
LEMMA EmptyIsNotSolid ==
    /\ S!Empty \notin Solid
    /\ S!Text("host") \in Solid /\ S!Text("idle") \in Solid
    /\ \A id \in Words : S!Text(id) \in Solid
BY DEF S!Empty, S!Text, Solid, Words

\* A node that has loaded nothing knows something of the right form.
LEMMA FreshTyped == ASSUME NEW id \in Words PROVE S!Fresh(id) \in Loaded
BY EmptyIsNotSolid DEF S!Fresh, Loaded

\* What is loaded is something a node can know.
LEMMA LoadedIsKnown == Loaded \subseteq Memories
<1>1. ASSUME NEW list \in Seq(Solid) PROVE list \in Seq(Texts)
  BY DEF Texts
<1>2. ASSUME NEW m \in Loaded PROVE m \in Memories
  <2>1. m.alias \in Texts /\ m.exposed \in Seq(Texts)
    BY <1>1 DEF Loaded, Texts
  <2> QED
    BY <2>1 DEF Loaded, Memories
<1> QED
  BY <1>2

\* A row is read without its last field if that is empty.
LEMMA FieldsAre ==
    ASSUME NEW row \in FileRows
    PROVE  LET f == S!Fields(row)
               n == Len(row.fields)
           IN  /\ f \in Seq(Texts)
               /\ Len(f) = n \/ Len(f) = n - 1
               /\ Len(f) = n => row.fields[n] # S!Empty
               /\ \A i \in 1..Len(f) : f[i] = row.fields[i]
<1> DEFINE n == Len(row.fields)
<1>1. row.fields \in Seq(Texts) /\ n \in Nat /\ n >= 1
  BY DEF FileRows
<1>2. CASE row.fields[n] = S!Empty
  <2>1. S!Fields(row) = SubSeq(row.fields, 1, n - 1)
    BY <1>1, <1>2 DEF S!Fields, S!Last, S!Front
  <2>2. /\ SubSeq(row.fields, 1, n - 1) \in Seq(Texts)
        /\ Len(SubSeq(row.fields, 1, n - 1)) = n - 1
        /\ \A i \in 1..(n - 1) : SubSeq(row.fields, 1, n - 1)[i] = row.fields[i]
    BY <1>1
  <2> QED
    BY <1>1, <2>1, <2>2
<1>3. CASE row.fields[n] # S!Empty
  <2>1. S!Fields(row) = row.fields
    BY <1>1, <1>3 DEF S!Fields, S!Last
  <2> QED
    BY <1>1, <1>3, <2>1
<1> QED
  BY <1>2, <1>3

\* A field that is the last its kind has is not empty.
LEMMA LastIsSolid ==
    ASSUME NEW row \in FileRows, Len(S!Fields(row)) = Arity(row.kind)
    PROVE  S!Fields(row)[Arity(row.kind)] \in Solid
<1> DEFINE n == Len(row.fields)
           f == S!Fields(row)
<1>1. row.fields \in Seq(Texts) /\ n \in Nat /\ n >= 1 /\ n <= Arity(row.kind)
      /\ Arity(row.kind) \in {1, 3, 6}
  BY DEF FileRows, Arity
<1>2. /\ f \in Seq(Texts)
      /\ Len(f) = n \/ Len(f) = n - 1
      /\ Len(f) = n => row.fields[n] # S!Empty
      /\ \A i \in 1..Len(f) : f[i] = row.fields[i]
  BY FieldsAre
<1> HIDE DEF f
<1>3. Len(f) = n /\ n = Arity(row.kind) /\ n \in 1..Len(f)
  BY <1>1, <1>2 DEF f
<1>4. f[n] = row.fields[n] /\ f[n] # S!Empty /\ f[n] \in Texts
  BY <1>2, <1>3
<1> QED
  BY <1>3, <1>4 DEF f, Texts

\* load takes a peer with whole fields up to the fifth from a row.
LEMMA PeerTyped ==
    ASSUME NEW row \in FileRows, row.kind = "peer", S!Enough(row.kind, S!Fields(row))
    PROVE  S!Peer(S!Fields(row)) \in PeerRecords
<1> DEFINE f == S!Fields(row)
<1>1. f \in Seq(Texts) /\ Len(f) \in 5..6
  <2>1. PICK n \in Nat : n = Len(row.fields) /\ n <= 6
    BY DEF FileRows, Arity
  <2>2. Len(f) >= 5
    BY DEF S!Enough
  <2>3. f \in Seq(Texts) /\ (Len(f) = n \/ Len(f) = n - 1)
    BY <2>1, FieldsAre
  <2>4. PICK k \in Nat : k = Len(f)
    BY <2>3
  <2> HIDE DEF f
  <2>5. k \in 5..6
    BY <2>1, <2>2, <2>3, <2>4
  <2> QED
    BY <2>3, <2>4, <2>5
<1>2. Len(f) = 6 => f[6] \in Solid
  BY LastIsSolid DEF Arity
<1> HIDE DEF f
<1>3. f[1] \in Texts /\ f[2] \in Texts /\ f[3] \in Texts /\ f[4] \in Texts /\ f[5] \in Texts
  BY <1>1
<1>4. S!Text("idle") \in Solid
  BY EmptyIsNotSolid
<1>5. PICK n \in 5..6 : n = Len(f)
  BY <1>1
<1>6. S!Peer(f) \in PeerRecords
  BY <1>2, <1>3, <1>4, <1>5 DEF S!Peer, PeerRecords
<1> QED
  BY <1>6 DEF f

\* What a row changes.
LEMMA LoadRowIs ==
    ASSUME NEW m \in Loaded, NEW row \in FileRows
    PROVE  LET r == S!LoadRow(m, row)
               f == S!Fields(row)
               Reads(kind) == S!Enough(row.kind, f) /\ row.kind = kind
           IN  /\ r.node = IF Reads("node") THEN f[1] ELSE m.node
               /\ r.alias = IF Reads("alias") THEN f[1] ELSE m.alias
               /\ r.discovery = IF Reads("discovery") THEN f[1] = S!Text("1") ELSE m.discovery
               /\ r.exposed = IF Reads("endpoint") THEN Append(m.exposed, f[3]) ELSE m.exposed
               /\ r.telemetry = IF Reads("telemetry") THEN f[1] ELSE m.telemetry
               /\ r.peers = IF Reads("peer") THEN Append(m.peers, S!Peer(f)) ELSE m.peers
<1>1. row.kind \in Kinds
  BY DEF FileRows
<1>2. CASE ~S!Enough(row.kind, S!Fields(row))
  BY <1>2 DEF S!LoadRow
<1>3. CASE S!Enough(row.kind, S!Fields(row))
  BY <1>1, <1>3 DEF S!LoadRow, Kinds, Loaded
<1> QED
  BY <1>2, <1>3

\* One turn of the loop of load keeps what the node knows of the right form.
LEMMA LoadRowTyped ==
    ASSUME NEW m \in Loaded, NEW row \in FileRows
    PROVE  S!LoadRow(m, row) \in Loaded
<1> DEFINE f == S!Fields(row)
<1>1. CASE ~S!Enough(row.kind, f)
  BY <1>1 DEF S!LoadRow
<1>2. CASE S!Enough(row.kind, f) /\ row.kind \in {"node", "alias", "discovery", "telemetry"}
  <2>1. Len(f) >= 1 /\ Arity(row.kind) = 1
    BY <1>2 DEF S!Enough, Arity
  <2>2. Len(f) = 1
    <3>1. PICK n \in Nat : n = Len(row.fields) /\ n <= 1
      BY <2>1 DEF FileRows
    <3>2. PICK k \in Nat : k = Len(f) /\ (k = n \/ k = n - 1)
      BY <3>1, FieldsAre
    <3> HIDE DEF f
    <3> QED
      BY <2>1, <3>1, <3>2
  <2>3. f[1] \in Solid
    BY <2>1, <2>2, LastIsSolid
  <2> HIDE DEF f
  <2> QED
    BY <1>2, <2>3 DEF S!LoadRow, Loaded, f
<1>3. CASE S!Enough(row.kind, f) /\ row.kind = "endpoint"
  <2>1. Len(f) >= 3 /\ Arity(row.kind) = 3
    BY <1>3 DEF S!Enough, Arity
  <2>2. Len(f) = 3
    <3>1. PICK n \in Nat : n = Len(row.fields) /\ n <= 3
      BY <2>1 DEF FileRows
    <3>2. PICK k \in Nat : k = Len(f) /\ (k = n \/ k = n - 1)
      BY <3>1, FieldsAre
    <3> HIDE DEF f
    <3> QED
      BY <2>1, <3>1, <3>2
  <2>3. f[3] \in Solid
    BY <2>1, <2>2, LastIsSolid
  <2> HIDE DEF f
  <2>4. m.exposed \in Seq(Solid)
    BY DEF Loaded
  <2>5. Append(m.exposed, f[3]) \in Seq(Solid)
    BY <2>3, <2>4
  <2> QED
    BY <1>3, <2>5 DEF S!LoadRow, Loaded, f
<1>4. CASE S!Enough(row.kind, f) /\ row.kind = "peer"
  <2>1. S!Peer(f) \in PeerRecords
    BY <1>4, PeerTyped
  <2> HIDE DEF f
  <2>2. m.peers \in Seq(PeerRecords)
    BY DEF Loaded
  <2>3. Append(m.peers, S!Peer(f)) \in Seq(PeerRecords)
    BY <2>1, <2>2
  <2> QED
    BY <1>4, <2>3 DEF S!LoadRow, Loaded, f
<1> QED
  BY <1>1, <1>2, <1>3, <1>4 DEF FileRows, Kinds

\* load, turn by turn.
LEMMA LoadSteps ==
    ASSUME NEW rows \in Seq(FileRows), NEW id \in Words
    PROVE  \E after : /\ after[0] = S!Fresh(id)
                      /\ \A k \in 1..Len(rows) : after[k] = S!LoadRow(after[k - 1], rows[k])
                      /\ \A k \in 0..Len(rows) : after[k] \in Loaded
                      /\ S!Load(rows, id) = after[Len(rows)]
<1> DEFINE n == Len(rows)
           T == [k \in 0..n |-> Loaded]
           turn == [k \in 1..n |-> [m \in Loaded |-> S!LoadRow(m, rows[k])]]
           base == S!Fresh(id)
           Is(g) == g = [k \in 0..n |-> IF k = 0 THEN base ELSE S!LoadRow(g[k - 1], rows[k])]
           after == CHOOSE g : Is(g)
<1>1. n \in Nat /\ base \in Loaded
  BY FreshTyped
<1>2. \A k \in 1..n : rows[k] \in FileRows
  OBVIOUS
<1> HIDE DEF n, base
<1>3. \A k \in 0..n : T[k] = Loaded
  OBVIOUS
<1>4. Climbs(n, T, turn)
  <2>1. ASSUME NEW k \in 1..n, NEW m \in T[k - 1] PROVE turn[k][m] \in T[k]
    <3>1. k \in 0..n /\ k - 1 \in 0..n
      BY <1>1
    <3>2. m \in Loaded /\ T[k] = Loaded
      BY <1>3, <3>1
    <3>3. turn[k][m] = S!LoadRow(m, rows[k])
      BY <3>2
    <3> HIDE DEF T, turn
    <3> QED
      BY <1>2, <3>2, <3>3, LoadRowTyped
  <2> HIDE DEF T, turn
  <2> QED
    BY <2>1 DEF Climbs
<1>5. base \in T[0]
  BY <1>1, <1>3
<1> HIDE DEF T
<1>6. PICK g : /\ g = [k \in 0..n |-> IF k = 0 THEN base ELSE turn[k][g[k - 1]]]
               /\ \A k \in 0..n : g[k] \in T[k]
  <2> HIDE DEF turn
  <2>1. \E g : Follows(g, n, T, base, turn)
    BY <1>1, <1>4, <1>5, RecursionFollows
  <2> QED
    BY <2>1 DEF Follows
<1>7. Is(g)
  <2>1. ASSUME NEW k \in 1..n PROVE turn[k][g[k - 1]] = S!LoadRow(g[k - 1], rows[k])
    <3>1. k - 1 \in 0..n
      BY <1>1
    <3>2. g[k - 1] \in Loaded
      BY <3>1, <1>3, <1>6
    <3>3. turn[k] = [m \in Loaded |-> S!LoadRow(m, rows[k])]
      OBVIOUS
    <3> QED
      BY <3>2, <3>3
  <2> HIDE DEF turn
  <2>2. \A k \in 0..n : g[k] = IF k = 0 THEN base ELSE S!LoadRow(g[k - 1], rows[k])
    <3>1. ASSUME NEW k \in 0..n
          PROVE  g[k] = IF k = 0 THEN base ELSE S!LoadRow(g[k - 1], rows[k])
      <4>1. g[k] = IF k = 0 THEN base ELSE turn[k][g[k - 1]]
        BY <1>6
      <4>2. CASE k # 0
        <5>1. k \in 1..n
          BY <1>1, <4>2
        <5> QED
          BY <2>1, <4>1, <4>2, <5>1
      <4> QED
        BY <4>1, <4>2
    <3> QED
      BY <3>1
  <2>3. g = [k \in 0..n |-> g[k]]
    BY <1>6
  <2> QED
    BY <2>2, <2>3
<1>8. Is(after)
  BY <1>7
<1> HIDE DEF after
<1>9. after[0] = base /\ \A k \in 1..n : after[k] = S!LoadRow(after[k - 1], rows[k])
  BY <1>1, <1>8
<1>10. \A k \in 0..n : after[k] \in Loaded
  <2> DEFINE K == {k \in 0..n : after[k] \in Loaded}
  <2>1. 0 \in K
    BY <1>1, <1>9
  <2>2. ASSUME NEW k \in 1..n, k - 1 \in K PROVE k \in K
    BY <1>2, <1>9, <2>2, LoadRowTyped
  <2> HIDE DEF K
  <2>3. 0..n \subseteq K
    BY <1>1, <2>1, <2>2, Counting
  <2> QED
    BY <2>3 DEF K
<1>11. S!Load(rows, id) = after[n]
  BY DEF S!Load, after, n, base
<1> QED
  BY <1>9, <1>10, <1>11 DEF n, base

\* Loading twice: only the id of a node without a row for it can differ.
LEMMA LoadTwice ==
    ASSUME NEW rows \in Seq(FileRows), NEW id \in Words
    PROVE  /\ S!Load(rows, id) \in Loaded
           /\ S!Load(rows, S!Load(rows, id).node.of) = S!Load(rows, id)
<1> DEFINE n == Len(rows)
           first == S!Load(rows, id)
           other == first.node.of
<1>1. PICK g : /\ g[0] = S!Fresh(id)
               /\ \A k \in 1..n : g[k] = S!LoadRow(g[k - 1], rows[k])
               /\ \A k \in 0..n : g[k] \in Loaded
               /\ first = g[n]
  BY LoadSteps
<1>2. n \in Nat /\ \A k \in 1..n : rows[k] \in FileRows
  OBVIOUS
<1> HIDE DEF n, first
<1>3. first \in Loaded /\ other \in Words
  <2>1. first \in Loaded
    BY <1>1, <1>2
  <2>2. first.node \in Solid
    BY <2>1 DEF Loaded
  <2> QED
    BY <2>1, <2>2 DEF Solid
<1>4. PICK h : /\ h[0] = S!Fresh(other)
               /\ \A k \in 1..n : h[k] = S!LoadRow(h[k - 1], rows[k])
               /\ \A k \in 0..n : h[k] \in Loaded
               /\ S!Load(rows, other) = h[n]
  BY <1>3, LoadSteps DEF n
<1> HIDE DEF other
<1> DEFINE Alike(x, y) == /\ x.alias = y.alias /\ x.discovery = y.discovery
                          /\ x.exposed = y.exposed /\ x.telemetry = y.telemetry
                          /\ x.peers = y.peers
                          /\ \/ x.node = y.node
                             \/ x.node = S!Text(id) /\ y.node = S!Text(other)
           K == {k \in 0..n : Alike(g[k], h[k])}
<1>5. 0 \in K
  <2>1. Alike(g[0], h[0])
    <3>1. /\ g[0] = [node |-> S!Text(id), alias |-> S!Text("host"), discovery |-> FALSE,
                     exposed |-> << >>, telemetry |-> S!Text("idle"), peers |-> << >>]
          /\ h[0] = [node |-> S!Text(other), alias |-> S!Text("host"), discovery |-> FALSE,
                     exposed |-> << >>, telemetry |-> S!Text("idle"), peers |-> << >>]
      BY <1>1, <1>4 DEF S!Fresh
    <3> QED
      BY <3>1
  <2> QED
    BY <1>2, <2>1
<1>6. ASSUME NEW k \in 1..n, k - 1 \in K PROVE k \in K
  <2>1. /\ g[k - 1] \in Loaded /\ h[k - 1] \in Loaded /\ rows[k] \in FileRows
        /\ g[k] = S!LoadRow(g[k - 1], rows[k]) /\ h[k] = S!LoadRow(h[k - 1], rows[k])
    BY <1>1, <1>2, <1>4
  <2>2. Alike(g[k - 1], h[k - 1])
    BY <1>6
  <2>3. Alike(S!LoadRow(g[k - 1], rows[k]), S!LoadRow(h[k - 1], rows[k]))
    <3>1. PICK x \in Loaded : x = g[k - 1]
      BY <2>1
    <3>2. PICK y \in Loaded : y = h[k - 1]
      BY <2>1
    <3>3. PICK row \in FileRows : row = rows[k]
      BY <2>1
    <3>4. Alike(S!LoadRow(x, row), S!LoadRow(y, row))
      BY <2>2, <3>1, <3>2, LoadRowIs
    <3> QED
      BY <3>1, <3>2, <3>3, <3>4
  <2>4. Alike(g[k], h[k])
    BY <2>1, <2>3
  <2> QED
    BY <2>4
<1> HIDE DEF K
<1>7. 0..n \subseteq K
  BY <1>2, <1>5, <1>6, Counting
<1>8. Alike(g[n], h[n])
  <2>1. n \in K
    BY <1>2, <1>7
  <2> HIDE DEF Alike
  <2> QED
    BY <2>1 DEF K
<1>9. h[n] = g[n]
  <2>1. g[n] \in Loaded /\ h[n] \in Loaded
    BY <1>1, <1>2, <1>4
  <2>2. g[n].node = h[n].node
    <3>1. CASE g[n].node = S!Text(id) /\ h[n].node = S!Text(other)
      <4>1. other = g[n].node.of
        BY <1>1 DEF other
      <4>2. other = id
        BY <3>1, <4>1 DEF S!Text
      <4> QED
        BY <3>1, <4>2
    <3> QED
      BY <1>8, <3>1
  <2> QED
    BY <1>8, <2>1, <2>2 DEF Loaded
<1> QED
  BY <1>1, <1>3, <1>4, <1>9 DEF first, other

\* A row with as many fields as its kind has is one of a file.
LEMMA RowTyped ==
    ASSUME NEW kind \in Kinds, NEW fields \in Seq(Texts), Len(fields) = Arity(kind)
    PROVE  S!Row(kind, fields) \in FileRows
<1>1. S!Row(kind, fields) = [kind |-> kind, fields |-> fields]
  BY DEF S!Row
<1>2. Arity(kind) \in Nat /\ Arity(kind) >= 1
  BY DEF Arity
<1> QED
  BY <1>1, <1>2 DEF FileRows

Joins(T, x, n, y, k) ==
    /\ x \o y \in Seq(T) /\ Len(x \o y) = n + k
    /\ \A i \in 1..n : (x \o y)[i] = x[i]
    /\ \A i \in 1..k : (x \o y)[n + i] = y[i]

\* Two sequences joined, element by element.
LEMMA Joined ==
    ASSUME NEW T, NEW n \in Nat, NEW k \in Nat, NEW x \in Seq(T), NEW y \in Seq(T),
           Len(x) = n, Len(y) = k
    PROVE  Joins(T, x, n, y, k)
<1>1. x \o y \in Seq(T) /\ Len(x \o y) = Len(x) + Len(y)
  BY ConcatProperties
<1>2. \A i \in 1..(n + k) : (x \o y)[i] = IF i <= n THEN x[i] ELSE y[i - n]
  BY ConcatProperties
<1>3. ASSUME NEW i \in 1..k PROVE (x \o y)[n + i] = y[i]
  <2>1. PICK j \in 1..(n + k) : j = n + i
    OBVIOUS
  <2>2. ~(j <= n) /\ j - n = i
    BY <2>1
  <2> QED
    BY <1>2, <2>1, <2>2
<1>4. \A i \in 1..n : (x \o y)[i] = x[i]
  BY <1>2
<1> QED
  BY <1>1, <1>3, <1>4 DEF Joins

\* The rows of a memory, by their place.
LEMMA RowsAre ==
    ASSUME NEW m \in Memories
    PROVE  LET n == Len(m.exposed)
               q == Len(m.peers)
               rows == S!Rows(m)
           IN  /\ n \in Nat /\ q \in Nat /\ rows \in Seq(FileRows) /\ Len(rows) = 4 + n + q
               /\ rows[1] = S!Row("node", <<m.node>>)
               /\ rows[2] = S!Row("alias", <<m.alias>>)
               /\ rows[3] = S!Row("discovery", <<S!Text(IF m.discovery THEN "1" ELSE "0")>>)
               /\ \A i \in 1..n : rows[3 + i] = S!Row("endpoint", <<S!Text("S"), S!Text("id"), m.exposed[i]>>)
               /\ rows[4 + n] = S!Row("telemetry", <<m.telemetry>>)
               /\ \A i \in 1..q : rows[4 + n + i] = S!PeerRow(m.peers[i])
<1> DEFINE head == <<S!Row("node", <<m.node>>), S!Row("alias", <<m.alias>>),
                     S!Row("discovery", <<S!Text(IF m.discovery THEN "1" ELSE "0")>>)>>
           exposed == [i \in DOMAIN m.exposed |->
                          S!Row("endpoint", <<S!Text("S"), S!Text("id"), m.exposed[i]>>)]
           tele == <<S!Row("telemetry", <<m.telemetry>>)>>
           peers == [i \in DOMAIN m.peers |-> S!PeerRow(m.peers[i])]
           n == Len(m.exposed)
           q == Len(m.peers)
           first == head \o exposed
           front == first \o tele
           rows == front \o peers
<1>1. /\ m.node \in Texts /\ m.alias \in Texts /\ m.telemetry \in Texts
      /\ m.exposed \in Seq(Texts) /\ m.peers \in Seq(PeerRecords) /\ m.discovery \in BOOLEAN
  BY DEF Memories, Texts
<1>2. n \in Nat /\ q \in Nat /\ DOMAIN m.exposed = 1..n /\ DOMAIN m.peers = 1..q
  BY <1>1
<1>3. S!Text("0") \in Texts /\ S!Text("1") \in Texts /\ S!Text("S") \in Texts /\ S!Text("id") \in Texts
  BY DEF S!Text, Texts, Solid, Words
<1>0. ASSUME NEW kind \in {"node", "alias", "discovery", "telemetry"}, NEW text \in Texts
      PROVE  S!Row(kind, <<text>>) \in FileRows
  <2>1. <<text>> \in Seq(Texts) /\ Len(<<text>>) = 1 /\ Arity(kind) = 1 /\ kind \in Kinds
    BY DEF Arity, Kinds
  <2> DEFINE fields == <<text>>
  <2> HIDE DEF fields
  <2>2. S!Row(kind, fields) \in FileRows
    BY <2>1, RowTyped DEF fields
  <2> QED
    BY <2>2 DEF fields
<1>4. head \in Seq(FileRows) /\ Len(head) = 3
  <2>1. S!Text(IF m.discovery THEN "1" ELSE "0") \in Texts
    BY <1>3
  <2>2. /\ S!Row("node", <<m.node>>) \in FileRows /\ S!Row("alias", <<m.alias>>) \in FileRows
        /\ S!Row("discovery", <<S!Text(IF m.discovery THEN "1" ELSE "0")>>) \in FileRows
    BY <1>0, <1>1, <2>1
  <2> QED
    BY <2>2
<1>5. exposed \in Seq(FileRows) /\ Len(exposed) = n
  <2>1. ASSUME NEW i \in 1..n
        PROVE  S!Row("endpoint", <<S!Text("S"), S!Text("id"), m.exposed[i]>>) \in FileRows
    <3> DEFINE fields == <<S!Text("S"), S!Text("id"), m.exposed[i]>>
    <3>1. m.exposed[i] \in Texts
      BY <1>1, <1>2
    <3>2. fields \in Seq(Texts) /\ Len(fields) = 3
      BY <1>3, <3>1
    <3>3. "endpoint" \in Kinds /\ Arity("endpoint") = 3
      BY DEF Kinds, Arity
    <3> HIDE DEF fields
    <3>4. S!Row("endpoint", fields) \in FileRows
      BY <3>2, <3>3, RowTyped
    <3> QED
      BY <3>4 DEF fields
  <2> HIDE DEF n
  <2> QED
    BY <1>2, <2>1
<1>6. tele \in Seq(FileRows) /\ Len(tele) = 1
  <2>1. S!Row("telemetry", <<m.telemetry>>) \in FileRows
    BY <1>0, <1>1
  <2> QED
    BY <2>1
<1>7. peers \in Seq(FileRows) /\ Len(peers) = q
  <2>1. ASSUME NEW i \in 1..q PROVE S!PeerRow(m.peers[i]) \in FileRows
    <3>1. PICK p \in PeerRecords : p = m.peers[i]
      BY <1>1, <1>2
    <3> DEFINE fields == <<p.id, p.alias, p.host, p.port, p.catalog, p.telemetry>>
    <3>2. /\ p.id \in Texts /\ p.alias \in Texts /\ p.host \in Texts /\ p.port \in Texts
          /\ p.catalog \in Texts /\ p.telemetry \in Texts
      BY DEF PeerRecords, Texts
    <3>3. fields \in Seq(Texts) /\ Len(fields) = 6
      BY <3>2
    <3>4. "peer" \in Kinds /\ Arity("peer") = 6
      BY DEF Kinds, Arity
    <3> HIDE DEF fields
    <3>5. S!Row("peer", fields) \in FileRows
      BY <3>3, <3>4, RowTyped
    <3> QED
      BY <3>1, <3>5 DEF fields, S!PeerRow
  <2> HIDE DEF q
  <2> QED
    BY <1>2, <2>1
<1>8. \A i \in 1..n : exposed[i] = S!Row("endpoint", <<S!Text("S"), S!Text("id"), m.exposed[i]>>)
  BY <1>2
<1>9. \A i \in 1..q : peers[i] = S!PeerRow(m.peers[i])
  BY <1>2
<1>10. /\ head[1] = S!Row("node", <<m.node>>) /\ head[2] = S!Row("alias", <<m.alias>>)
       /\ head[3] = S!Row("discovery", <<S!Text(IF m.discovery THEN "1" ELSE "0")>>)
       /\ tele[1] = S!Row("telemetry", <<m.telemetry>>)
  OBVIOUS
<1>11. S!Rows(m) = rows
  BY DEF S!Rows
<1> HIDE DEF head, exposed, tele, peers, n, q
<1>12. /\ first \in Seq(FileRows) /\ Len(first) = 3 + n
       /\ \A i \in 1..3 : first[i] = head[i]
       /\ \A i \in 1..n : first[3 + i] = exposed[i]
  <2>1. Joins(FileRows, head, 3, exposed, n)
    BY <1>2, <1>4, <1>5, Joined
  <2> QED
    BY <2>1 DEF Joins, first
<1> HIDE DEF first
<1>13. /\ front \in Seq(FileRows) /\ Len(front) = 4 + n
       /\ \A i \in 1..(3 + n) : front[i] = first[i]
       /\ front[4 + n] = tele[1]
  <2>1. PICK k \in Nat : k = 3 + n
    BY <1>2
  <2>2. /\ front \in Seq(FileRows) /\ Len(front) = k + 1
        /\ \A i \in 1..k : front[i] = first[i]
        /\ \A i \in 1..1 : front[k + i] = tele[i]
    <3>1. Joins(FileRows, first, k, tele, 1)
      BY <1>6, <1>12, <2>1, Joined
    <3> QED
      BY <3>1 DEF Joins, front
  <2>3. front[k + 1] = tele[1]
    BY <2>2
  <2>4. k + 1 = 4 + n
    BY <1>2, <2>1
  <2> QED
    BY <2>1, <2>2, <2>3, <2>4
<1> HIDE DEF front
<1>14. /\ rows \in Seq(FileRows) /\ Len(rows) = 4 + n + q
       /\ \A i \in 1..(4 + n) : rows[i] = front[i]
       /\ \A i \in 1..q : rows[4 + n + i] = peers[i]
  <2>1. PICK k \in Nat : k = 4 + n
    BY <1>2
  <2>2. /\ rows \in Seq(FileRows) /\ Len(rows) = k + q
        /\ \A i \in 1..k : rows[i] = front[i]
        /\ \A i \in 1..q : rows[k + i] = peers[i]
    <3>1. Joins(FileRows, front, k, peers, q)
      BY <1>2, <1>7, <1>13, <2>1, Joined
    <3> QED
      BY <3>1 DEF Joins, rows
  <2> QED
    BY <2>1, <2>2
<1> HIDE DEF rows
<1>15. rows[1] = head[1] /\ rows[2] = head[2] /\ rows[3] = head[3]
  BY <1>2, <1>12, <1>13, <1>14
<1>16. \A i \in 1..n : rows[3 + i] = exposed[i]
  BY <1>2, <1>12, <1>13, <1>14
<1>17. rows[4 + n] = tele[1]
  BY <1>2, <1>13, <1>14
<1> QED
  BY <1>2, <1>8, <1>9, <1>10, <1>11, <1>14, <1>15, <1>16, <1>17 DEF n, q

\* A row whose last field is not empty is read as it is.
LEMMA FieldsWhole ==
    ASSUME NEW kind \in Kinds, NEW fields \in Seq(Texts), Len(fields) >= 1,
           fields[Len(fields)] # S!Empty
    PROVE  S!Fields(S!Row(kind, fields)) = fields
BY DEF S!Fields, S!Last, S!Row

\* One turn of load on a saved row of one field.
LEMMA LoadWhole ==
    ASSUME NEW m \in Loaded, NEW text \in Solid
    PROVE  /\ S!LoadRow(m, S!Row("node", <<text>>)) = [m EXCEPT !.node = text]
           /\ S!LoadRow(m, S!Row("alias", <<text>>)) = [m EXCEPT !.alias = text]
           /\ S!LoadRow(m, S!Row("telemetry", <<text>>)) = [m EXCEPT !.telemetry = text]
           /\ S!LoadRow(m, S!Row("discovery", <<text>>)) = [m EXCEPT !.discovery = (text = S!Text("1"))]
<1> DEFINE fields == <<text>>
<1>1. fields \in Seq(Texts) /\ Len(fields) = 1 /\ fields[1] = text /\ text # S!Empty
  BY EmptyIsNotSolid DEF Texts
<1> HIDE DEF fields
<1>2. \A kind \in Kinds : S!Fields(S!Row(kind, fields)) = fields
  BY <1>1, FieldsWhole
<1>3. \A kind \in Kinds : S!Row(kind, fields).kind = kind
  BY DEF S!Row
<1>4. S!LoadRow(m, S!Row("node", fields)) = [m EXCEPT !.node = text]
  <2>1. S!Fields(S!Row("node", fields)) = fields /\ S!Row("node", fields).kind = "node"
    BY <1>2, <1>3 DEF Kinds
  <2> QED
    BY <1>1, <2>1 DEF S!LoadRow, S!Enough
<1>5. S!LoadRow(m, S!Row("alias", fields)) = [m EXCEPT !.alias = text]
  <2>1. S!Fields(S!Row("alias", fields)) = fields /\ S!Row("alias", fields).kind = "alias"
    BY <1>2, <1>3 DEF Kinds
  <2> QED
    BY <1>1, <2>1 DEF S!LoadRow, S!Enough
<1>6. S!LoadRow(m, S!Row("telemetry", fields)) = [m EXCEPT !.telemetry = text]
  <2>1. PICK row : /\ row = S!Row("telemetry", fields) /\ S!Fields(row) = fields
                   /\ row.kind = "telemetry"
    BY <1>2, <1>3 DEF Kinds
  <2>2. S!Enough("telemetry", fields)
    BY <1>1 DEF S!Enough
  <2>3. S!LoadRow(m, row) = [m EXCEPT !.telemetry = fields[1]]
    BY <2>1, <2>2 DEF S!LoadRow
  <2> QED
    BY <1>1, <2>1, <2>3
<1>7. S!LoadRow(m, S!Row("discovery", fields)) = [m EXCEPT !.discovery = (text = S!Text("1"))]
  <2>1. S!Fields(S!Row("discovery", fields)) = fields /\ S!Row("discovery", fields).kind = "discovery"
    BY <1>2, <1>3 DEF Kinds
  <2> QED
    BY <1>1, <2>1 DEF S!LoadRow, S!Enough
<1> QED
  BY <1>4, <1>5, <1>6, <1>7 DEF fields

\* One turn of load on a saved endpoint.
LEMMA LoadEndpoint ==
    ASSUME NEW m \in Loaded, NEW text \in Solid
    PROVE  S!LoadRow(m, S!Row("endpoint", <<S!Text("S"), S!Text("id"), text>>)) =
               [m EXCEPT !.exposed = Append(@, text)]
<1> DEFINE fields == <<S!Text("S"), S!Text("id"), text>>
<1>1. S!Text("S") \in Texts /\ S!Text("id") \in Texts /\ text \in Texts
  BY DEF S!Text, Texts, Solid, Words
<1>2. fields \in Seq(Texts) /\ Len(fields) = 3 /\ fields[3] = text /\ text # S!Empty
  BY <1>1, EmptyIsNotSolid
<1> HIDE DEF fields
<1>3. S!Fields(S!Row("endpoint", fields)) = fields /\ S!Row("endpoint", fields).kind = "endpoint"
  <2>1. "endpoint" \in Kinds /\ Len(fields) >= 1 /\ fields[Len(fields)] # S!Empty
    BY <1>2 DEF Kinds
  <2>2. S!Fields(S!Row("endpoint", fields)) = fields
    BY <1>2, <2>1, FieldsWhole
  <2> QED
    BY <2>2 DEF S!Row
<1>4. S!LoadRow(m, S!Row("endpoint", fields)) = [m EXCEPT !.exposed = Append(@, text)]
  <2>1. PICK row : /\ row = S!Row("endpoint", fields) /\ S!Fields(row) = fields
                   /\ row.kind = "endpoint"
    BY <1>3
  <2>2. S!Enough("endpoint", fields)
    BY <1>2 DEF S!Enough
  <2>3. S!LoadRow(m, row) = [m EXCEPT !.exposed = Append(@, fields[3])]
    BY <2>1, <2>2 DEF S!LoadRow
  <2> QED
    BY <1>2, <2>1, <2>3
<1> QED
  BY <1>4 DEF fields

\* One turn of load on a saved alias or endpoint without a name changes nothing.
LEMMA LoadNameless ==
    ASSUME NEW m
    PROVE  /\ S!LoadRow(m, S!Row("alias", <<S!Empty>>)) = m
           /\ S!LoadRow(m, S!Row("endpoint", <<S!Text("S"), S!Text("id"), S!Empty>>)) = m
<1>1. ASSUME NEW kind \in {"alias", "endpoint"}, NEW fields \in Seq(Texts),
             Len(fields) = Arity(kind), fields[Arity(kind)] = S!Empty
      PROVE  S!LoadRow(m, S!Row(kind, fields)) = m
  <2> DEFINE row == S!Row(kind, fields)
  <2>1. row.kind = kind /\ row.fields = fields /\ kind \in Kinds
    BY DEF S!Row, Kinds
  <2>2. row \in FileRows
    BY <1>1, <2>1, RowTyped
  <2>3. PICK n \in Nat : n = Len(fields) /\ n = Arity(kind) /\ n \in {1, 3}
    BY <1>1 DEF Arity
  <2> HIDE DEF row
  <2> DEFINE f == S!Fields(row)
  <2>4. /\ f \in Seq(Texts) /\ (Len(f) = n \/ Len(f) = n - 1)
        /\ Len(f) = n => fields[n] # S!Empty
    BY <2>1, <2>2, <2>3, FieldsAre
  <2>5. Len(f) = n - 1
    BY <1>1, <2>3, <2>4
  <2>6. ~S!Enough(kind, f)
    <3> HIDE DEF f
    <3>1. kind = "endpoint" => n = 3
      BY <2>3 DEF Arity
    <3>2. kind = "alias" => n = 1
      BY <2>3 DEF Arity
    <3> QED
      BY <2>3, <2>5, <3>1, <3>2 DEF S!Enough
  <2> QED
    BY <2>1, <2>6 DEF S!LoadRow, row
<1>2. S!Empty \in Texts /\ S!Text("S") \in Texts /\ S!Text("id") \in Texts
  BY DEF S!Text, Texts, Solid, Words
<1>3. PICK empty \in Texts, x \in Texts, y \in Texts :
          empty = S!Empty /\ x = S!Text("S") /\ y = S!Text("id")
  BY <1>2
<1>4. S!LoadRow(m, S!Row("alias", <<empty>>)) = m
  <2> DEFINE fields == <<empty>>
  <2>1. fields \in Seq(Texts) /\ Len(fields) = 1 /\ fields[1] = S!Empty /\ Arity("alias") = 1
    BY <1>3 DEF Arity
  <2> HIDE DEF fields
  <2>2. S!LoadRow(m, S!Row("alias", fields)) = m
    BY <1>1, <2>1
  <2> QED
    BY <2>2 DEF fields
<1>5. S!LoadRow(m, S!Row("endpoint", <<x, y, empty>>)) = m
  <2> DEFINE fields == <<x, y, empty>>
  <2>1. fields \in Seq(Texts) /\ Len(fields) = 3 /\ fields[3] = S!Empty /\ Arity("endpoint") = 3
    BY <1>3 DEF Arity
  <2> HIDE DEF fields
  <2>2. S!LoadRow(m, S!Row("endpoint", fields)) = m
    BY <1>1, <2>1
  <2> QED
    BY <2>2 DEF fields
<1> QED
  BY <1>3, <1>4, <1>5

\* One turn of load on a saved peer.
LEMMA LoadPeer ==
    ASSUME NEW m \in Loaded, NEW p \in PeerRecords
    PROVE  S!LoadRow(m, S!PeerRow(p)) = [m EXCEPT !.peers = Append(@, p)]
<1> DEFINE fields == <<p.id, p.alias, p.host, p.port, p.catalog, p.telemetry>>
<1>1. /\ p.id \in Texts /\ p.alias \in Texts /\ p.host \in Texts /\ p.port \in Texts
      /\ p.catalog \in Texts /\ p.telemetry \in Texts /\ p.telemetry # S!Empty
      /\ p = [id |-> p.id, alias |-> p.alias, host |-> p.host, port |-> p.port,
              catalog |-> p.catalog, telemetry |-> p.telemetry]
  BY EmptyIsNotSolid DEF PeerRecords, Texts
<1>2. fields \in Seq(Texts) /\ Len(fields) = 6 /\ fields[6] # S!Empty
  BY <1>1
<1>3. S!Peer(fields) = p
  <2>1. Len(fields) = 6
    BY <1>2
  <2> QED
    BY <1>1, <2>1 DEF S!Peer
<1>4. S!PeerRow(p) = S!Row("peer", fields)
  BY DEF S!PeerRow
<1> HIDE DEF fields
<1>5. S!Fields(S!Row("peer", fields)) = fields /\ S!Row("peer", fields).kind = "peer"
  <2>1. "peer" \in Kinds /\ Len(fields) >= 1 /\ fields[Len(fields)] # S!Empty
    BY <1>2 DEF Kinds
  <2>2. S!Fields(S!Row("peer", fields)) = fields
    BY <1>2, <2>1, FieldsWhole
  <2> QED
    BY <2>2 DEF S!Row
<1>6. S!LoadRow(m, S!Row("peer", fields)) = [m EXCEPT !.peers = Append(@, p)]
  <2>1. PICK row : /\ row = S!Row("peer", fields) /\ S!Fields(row) = fields
                   /\ row.kind = "peer"
    BY <1>5
  <2>2. S!Enough("peer", fields)
    BY <1>2 DEF S!Enough
  <2>3. S!LoadRow(m, row) = [m EXCEPT !.peers = Append(@, S!Peer(fields))]
    BY <2>1, <2>2 DEF S!LoadRow
  <2> QED
    BY <1>3, <1>2, <2>1, <2>3
<1> QED
  BY <1>4, <1>6

\* Element by element, a prefix grows to the whole.
LEMMA PrefixGrows ==
    ASSUME NEW T, NEW s \in Seq(T)
    PROVE  /\ SubSeq(s, 1, 0) = << >>
           /\ SubSeq(s, 1, Len(s)) = s
           /\ \A i \in 1..Len(s) :
                  /\ SubSeq(s, 1, i - 1) \in Seq(T) /\ s[i] \in T
                  /\ Append(SubSeq(s, 1, i - 1), s[i]) = SubSeq(s, 1, i)
<1>1. SubSeq(s, 1, 0) = << >> /\ SubSeq(s, 1, Len(s)) = s
  OBVIOUS
<1>2. ASSUME NEW i \in 1..Len(s)
      PROVE  /\ SubSeq(s, 1, i - 1) \in Seq(T) /\ s[i] \in T
             /\ Append(SubSeq(s, 1, i - 1), s[i]) = SubSeq(s, 1, i)
  OBVIOUS
<1> QED
  BY <1>1, <1>2

\* The endpoints that have a name, one by one.
LEMMA NamedSteps ==
    ASSUME NEW list \in Seq(Texts)
    PROVE  \E upto : /\ upto[0] = << >>
                     /\ \A k \in 1..Len(list) :
                            upto[k] = IF list[k] = S!Empty THEN upto[k - 1]
                                      ELSE Append(upto[k - 1], list[k])
                     /\ \A k \in 0..Len(list) : upto[k] \in Seq(Solid)
                     /\ S!Named(list) = upto[Len(list)]
<1> DEFINE n == Len(list)
           none == << >>
           T == [k \in 0..n |-> Seq(Solid)]
           Turn(k, x) == IF list[k] = S!Empty THEN x ELSE Append(x, list[k])
           turn == [k \in 1..n |-> [x \in Seq(Solid) |-> Turn(k, x)]]
           Is(g) == g = [k \in 0..n |-> IF k = 0 THEN none
                                        ELSE IF list[k] = S!Empty THEN g[k - 1]
                                        ELSE Append(g[k - 1], list[k])]
           upto == CHOOSE g : Is(g)
<1>1. n \in Nat /\ none \in Seq(Solid) /\ \A k \in 1..n : list[k] \in Texts
  OBVIOUS
<1> HIDE DEF none
<1>2. ASSUME NEW k \in 1..n, NEW x \in Seq(Solid) PROVE Turn(k, x) \in Seq(Solid)
  <2>1. list[k] = S!Empty \/ list[k] \in Solid
    BY <1>1 DEF Texts
  <2> QED
    BY <2>1
<1> HIDE DEF n
<1>3. \A k \in 0..n : T[k] = Seq(Solid)
  OBVIOUS
<1>4. \A k \in 1..n : \A x \in Seq(Solid) : turn[k][x] = Turn(k, x)
  OBVIOUS
<1> HIDE DEF T, turn
<1>5. Climbs(n, T, turn)
  <2>1. ASSUME NEW k \in 1..n, NEW x \in T[k - 1] PROVE turn[k][x] \in T[k]
    <3>1. k \in 0..n /\ k - 1 \in 0..n
      BY <1>1
    <3>2. x \in Seq(Solid) /\ T[k] = Seq(Solid)
      BY <1>3, <3>1
    <3> HIDE DEF Turn
    <3> QED
      BY <1>2, <1>4, <3>2
  <2> QED
    BY <2>1 DEF Climbs
<1>6. PICK g : /\ g = [k \in 0..n |-> IF k = 0 THEN none ELSE turn[k][g[k - 1]]]
               /\ \A k \in 0..n : g[k] \in T[k]
  <2>1. none \in T[0]
    BY <1>1, <1>3
  <2>2. \E g : Follows(g, n, T, none, turn)
    BY <1>1, <1>5, <2>1, RecursionFollows
  <2> QED
    BY <2>2 DEF Follows
<1>7. Is(g)
  <2>1. ASSUME NEW k \in 0..n, k # 0 PROVE g[k] = Turn(k, g[k - 1])
    <3>1. k \in 1..n /\ k - 1 \in 0..n
      BY <1>1, <2>1
    <3>2. g[k - 1] \in Seq(Solid)
      BY <1>3, <1>6, <3>1
    <3>3. g[k] = turn[k][g[k - 1]]
      BY <1>6, <2>1
    <3> HIDE DEF Turn
    <3> QED
      BY <1>4, <3>1, <3>2, <3>3
  <2>2. g = [k \in 0..n |-> g[k]] /\ (0 \in 0..n => g[0] = none)
    BY <1>6
  <2> QED
    BY <2>1, <2>2
<1>8. Is(upto)
  BY <1>7
<1> HIDE DEF upto
<1>9. /\ upto[0] = none
      /\ \A k \in 1..n : upto[k] = Turn(k, upto[k - 1])
  <2>1. 0 \in 0..n /\ \A k \in 1..n : k \in 0..n /\ k # 0
    BY <1>1
  <2> QED
    BY <1>8, <2>1, Zenon
<1>10. \A k \in 0..n : upto[k] \in Seq(Solid)
  <2> DEFINE K == {k \in 0..n : upto[k] \in Seq(Solid)}
  <2>1. 0 \in K
    BY <1>1, <1>9
  <2>2. ASSUME NEW k \in 1..n, k - 1 \in K PROVE k \in K
    <3> HIDE DEF Turn
    <3> QED
      BY <1>2, <1>9, <2>2
  <2> HIDE DEF K
  <2>3. 0..n \subseteq K
    BY <1>1, <2>1, <2>2, Counting
  <2> QED
    BY <2>3 DEF K
<1>11. S!Named(list) = upto[n]
  BY DEF S!Named, upto, n, none
<1> QED
  BY <1>9, <1>10, <1>11 DEF n, none

\* A list whose endpoints all have names is kept as it is.
LEMMA NamedOfSolid == ASSUME NEW list \in Seq(Solid) PROVE S!Named(list) = list
<1> DEFINE n == Len(list)
<1>1. n \in Nat /\ \A k \in 1..n : list[k] \in Solid /\ list[k] # S!Empty
  BY EmptyIsNotSolid
<1>2. PICK upto : /\ upto[0] = << >>
                  /\ \A k \in 1..n : upto[k] = IF list[k] = S!Empty THEN upto[k - 1]
                                                ELSE Append(upto[k - 1], list[k])
                  /\ S!Named(list) = upto[n]
  <2>1. list \in Seq(Texts)
    BY DEF Texts
  <2> QED
    BY <2>1, NamedSteps
<1> DEFINE K == {k \in 0..n : upto[k] = SubSeq(list, 1, k)}
<1>3. 0 \in K
  <2>1. SubSeq(list, 1, 0) = << >>
    BY PrefixGrows
  <2>2. 0 \in 0..n
    BY <1>1
  <2> QED
    BY <1>2, <2>1, <2>2, Zenon
<1>4. ASSUME NEW k \in 1..n, k - 1 \in K PROVE k \in K
  <2>1. upto[k] = Append(upto[k - 1], list[k])
    BY <1>1, <1>2
  <2>2. Append(SubSeq(list, 1, k - 1), list[k]) = SubSeq(list, 1, k)
    BY PrefixGrows
  <2> HIDE DEF n
  <2> QED
    BY <1>1, <1>4, <2>1, <2>2
<1> HIDE DEF K
<1>5. 0..n \subseteq K
  <2> HIDE DEF n
  <2> QED
    BY <1>1, <1>3, <1>4, Counting
<1>6. upto[n] = SubSeq(list, 1, n)
  BY <1>1, <1>5 DEF K
<1> QED
  BY <1>2, <1>6, PrefixGrows

\* What can be kept of what a node knows is what load can make of a file.
LEMMA KeptIsLoaded ==
    /\ \A m \in Memories : S!Kept(m) \in Loaded /\ S!Kept(m).node = m.node
                            /\ S!Kept(m).discovery = m.discovery
    /\ \A m \in Loaded : S!Kept(m) = m
<1>1. ASSUME NEW m \in Memories
      PROVE  /\ S!Kept(m) \in Loaded /\ S!Kept(m).node = m.node
             /\ S!Kept(m).discovery = m.discovery
  <2>1. S!Named(m.exposed) \in Seq(Solid)
    <3>1. PICK list \in Seq(Texts) : list = m.exposed
      BY DEF Memories
    <3>2. PICK n \in Nat : n = Len(list)
      BY <3>1
    <3>3. PICK upto : upto[n] \in Seq(Solid) /\ S!Named(list) = upto[n]
      <4>1. n \in 0..n
        OBVIOUS
      <4> QED
        BY <3>2, <4>1, NamedSteps
    <3> QED
      BY <3>1, <3>3
  <2>2. m.alias \in Solid \/ m.alias = S!Empty
    BY DEF Memories, Texts
  <2> QED
    BY <2>1, <2>2, EmptyIsNotSolid DEF S!Kept, Memories, Loaded
<1>2. ASSUME NEW m \in Loaded PROVE S!Kept(m) = m
  <2>1. S!Named(m.exposed) = m.exposed
    BY NamedOfSolid DEF Loaded
  <2>2. m.alias # S!Empty
    BY EmptyIsNotSolid DEF Loaded
  <2> QED
    BY <2>1, <2>2 DEF S!Kept, Loaded
<1> QED
  BY <1>1, <1>2

\* What was saved is loaded as it was, but for an empty alias and for endpoints
\* without a name.
LEMMA SavedLoads ==
    ASSUME NEW m \in Memories, NEW id \in Words
    PROVE  S!Load(S!Rows(m), id) = S!Kept(m)
<1> DEFINE n == Len(m.exposed)
           q == Len(m.peers)
           rows == S!Rows(m)
           called == IF m.alias = S!Empty THEN S!Text("host") ELSE m.alias
           Known(list, tele, peers) ==
               [node |-> m.node, alias |-> called, discovery |-> m.discovery,
                exposed |-> list, telemetry |-> tele, peers |-> peers]
           idle == S!Text("idle")
<1>0. /\ m.node \in Solid /\ m.alias \in Texts /\ m.telemetry \in Solid
      /\ called \in Solid /\ m.discovery \in BOOLEAN /\ idle \in Solid
      /\ m.exposed \in Seq(Texts) /\ m.peers \in Seq(PeerRecords)
      /\ S!Text("1") \in Solid /\ S!Text("0") \in Solid
  BY EmptyIsNotSolid DEF Memories, Words, Texts
<1>1. /\ n \in Nat /\ q \in Nat /\ rows \in Seq(FileRows) /\ Len(rows) = 4 + n + q
      /\ rows[1] = S!Row("node", <<m.node>>)
      /\ rows[2] = S!Row("alias", <<m.alias>>)
      /\ rows[3] = S!Row("discovery", <<S!Text(IF m.discovery THEN "1" ELSE "0")>>)
      /\ \A i \in 1..n : rows[3 + i] = S!Row("endpoint", <<S!Text("S"), S!Text("id"), m.exposed[i]>>)
      /\ rows[4 + n] = S!Row("telemetry", <<m.telemetry>>)
      /\ \A i \in 1..q : rows[4 + n + i] = S!PeerRow(m.peers[i])
  BY RowsAre
<1>2. PICK g : /\ g[0] = S!Fresh(id)
               /\ \A k \in 1..Len(rows) : g[k] = S!LoadRow(g[k - 1], rows[k])
               /\ S!Load(rows, id) = g[Len(rows)]
  BY <1>1, LoadSteps
<1>3. \A list \in Seq(Solid), tele \in Solid, peers \in Seq(PeerRecords) :
          Known(list, tele, peers) \in Loaded
  BY <1>0 DEF Loaded
<1>13. PICK upto : /\ upto[0] = << >>
                   /\ \A k \in 1..n : upto[k] = IF m.exposed[k] = S!Empty THEN upto[k - 1]
                                                 ELSE Append(upto[k - 1], m.exposed[k])
                   /\ \A k \in 0..n : upto[k] \in Seq(Solid)
                   /\ S!Named(m.exposed) = upto[n]
  BY <1>0, NamedSteps
<1>14. \A k \in 1..n : m.exposed[k] \in Texts
  BY <1>0
<1> DEFINE named == S!Named(m.exposed)
<1>15. named \in Seq(Solid)
  BY <1>1, <1>13
<1> HIDE DEF rows, n, q, named, called
<1>4. PICK len \in Nat : len = Len(rows) /\ len = 4 + n + q
  BY <1>1
<1>5. \A k \in 1..len : g[k] = S!LoadRow(g[k - 1], rows[k])
  BY <1>2, <1>4
<1>6. g[3] = Known(<< >>, idle, << >>)
  <2>1. g[0] \in Loaded
    BY <1>2, FreshTyped
  <2>2. g[1] = S!LoadRow(g[0], rows[1]) /\ g[2] = S!LoadRow(g[1], rows[2])
        /\ g[3] = S!LoadRow(g[2], rows[3])
    <3>1. 1 \in 1..len /\ 2 \in 1..len /\ 3 \in 1..len /\ 1 - 1 = 0 /\ 2 - 1 = 1 /\ 3 - 1 = 2
      BY <1>1, <1>4
    <3> QED
      BY <1>5, <3>1
  <2>3. PICK x \in Loaded, node \in Solid : x = g[0] /\ node = m.node
    BY <1>0, <2>1
  <2>4. S!LoadRow(x, S!Row("node", <<node>>)) = [x EXCEPT !.node = node]
    BY LoadWhole
  <2>5. PICK y \in Loaded : y = g[1] /\ y = [x EXCEPT !.node = node]
    <3>1. [x EXCEPT !.node = node] \in Loaded
      BY DEF Loaded
    <3> QED
      BY <1>1, <2>2, <2>3, <2>4, <3>1
  <2>6. PICK alias \in Texts : alias = m.alias
    BY <1>0
  <2>7. S!LoadRow(y, S!Row("alias", <<alias>>)) =
            IF alias = S!Empty THEN y ELSE [y EXCEPT !.alias = alias]
    <3>1. CASE alias = S!Empty
      BY <3>1, LoadNameless
    <3>2. CASE alias \in Solid
      BY <3>2, LoadWhole, EmptyIsNotSolid
    <3> QED
      BY <3>1, <3>2 DEF Texts
  <2>8. PICK z \in Loaded :
            z = g[2] /\ z = IF alias = S!Empty THEN y ELSE [y EXCEPT !.alias = alias]
    <3>1. alias # S!Empty => [y EXCEPT !.alias = alias] \in Loaded
      BY DEF Loaded, Texts
    <3> QED
      BY <1>1, <2>2, <2>5, <2>6, <2>7, <3>1
  <2>9. PICK text \in Solid : /\ text = S!Text(IF m.discovery THEN "1" ELSE "0")
                              /\ (text = S!Text("1")) = m.discovery
    BY <1>0 DEF S!Text
  <2>10. S!LoadRow(z, S!Row("discovery", <<text>>)) = [z EXCEPT !.discovery = (text = S!Text("1"))]
    BY LoadWhole
  <2>11. g[3] = [z EXCEPT !.discovery = m.discovery]
    BY <1>1, <2>2, <2>8, <2>9, <2>10
  <2>12. x = [node |-> S!Text(id), alias |-> S!Text("host"), discovery |-> FALSE,
              exposed |-> << >>, telemetry |-> idle, peers |-> << >>]
    BY <1>2, <2>3 DEF S!Fresh
  <2> HIDE DEF idle
  <2>13. y = [node |-> m.node, alias |-> S!Text("host"), discovery |-> FALSE,
              exposed |-> << >>, telemetry |-> idle, peers |-> << >>]
    <3>1. y = [node |-> node, alias |-> S!Text("host"), discovery |-> FALSE,
               exposed |-> << >>, telemetry |-> idle, peers |-> << >>]
      BY <2>5, <2>12
    <3> QED
      BY <2>3, <3>1
  <2>14. z = [node |-> m.node, alias |-> called, discovery |-> FALSE,
              exposed |-> << >>, telemetry |-> idle, peers |-> << >>]
    BY <2>6, <2>8, <2>13 DEF called
  <2> QED
    BY <2>11, <2>14
<1> HIDE DEF idle
<1>7. << >> \in Seq(Solid) /\ << >> \in Seq(PeerRecords)
  OBVIOUS
<1>8. \A i \in 0..n : g[3 + i] = Known(upto[i], idle, << >>)
  <2> DEFINE K == {i \in 0..n : g[3 + i] = Known(upto[i], idle, << >>)}
  <2>1. 0 \in K
    <3> HIDE DEF Known
    <3>2. 3 + 0 = 3 /\ 0 \in 0..n
      BY <1>1
    <3> QED
      BY <1>6, <1>13, <3>2, Zenon
  <2>2. ASSUME NEW i \in 1..n, i - 1 \in K PROVE i \in K
    <3> DEFINE list == upto[i - 1]
               text == m.exposed[i]
    <3>1. /\ list \in Seq(Solid) /\ (text \in Solid \/ text = S!Empty)
          /\ upto[i] = IF text = S!Empty THEN list ELSE Append(list, text)
      <4>1. i - 1 \in 0..n
        BY <1>1
      <4> QED
        BY <1>13, <1>14, <4>1 DEF Texts
    <3>2. PICK k \in 1..len : k = 3 + i
      BY <1>1, <1>4
    <3>3. rows[k] = S!Row("endpoint", <<S!Text("S"), S!Text("id"), text>>)
      BY <1>1, <3>2
    <3>4. g[k - 1] = Known(list, idle, << >>)
      <4>1. k - 1 = 3 + (i - 1)
        BY <3>2
      <4> HIDE DEF Known
      <4> QED
        BY <2>2, <4>1
    <3> HIDE DEF list, text
    <3>5. PICK x \in Loaded : x = Known(list, idle, << >>)
      BY <1>0, <1>3, <1>7, <3>1
    <3>6. g[k] = Known(upto[i], idle, << >>)
      <4>1. CASE text = S!Empty
        <5>1. g[k] = x
          BY <1>5, <3>3, <3>4, <3>5, <4>1, LoadNameless
        <5> HIDE DEF Known
        <5> QED
          BY <3>1, <3>5, <4>1, <5>1
      <4>2. CASE text # S!Empty
        <5>1. g[k] = [x EXCEPT !.exposed = Append(@, text)]
          BY <1>5, <3>1, <3>3, <3>4, <3>5, <4>2, LoadEndpoint
        <5>2. g[k] = Known(Append(list, text), idle, << >>)
          BY <3>5, <5>1
        <5> HIDE DEF Known
        <5> QED
          BY <3>1, <4>2, <5>2
      <4> QED
        BY <4>1, <4>2
    <3> HIDE DEF Known
    <3> QED
      BY <3>2, <3>6
  <2> HIDE DEF K
  <2>3. 0..n \subseteq K
    BY <1>1, <2>1, <2>2, Counting
  <2> QED
    BY <2>3 DEF K
<1>9. g[4 + n] = Known(named, m.telemetry, << >>)
  <2>1. PICK k \in 1..len : k = 4 + n
    BY <1>1, <1>4
  <2>2. g[k - 1] = Known(named, idle, << >>)
    <3>1. k - 1 = 3 + n /\ n \in 0..n
      BY <1>1, <2>1
    <3> HIDE DEF Known
    <3> QED
      BY <1>8, <1>13, <3>1 DEF named
  <2>3. PICK x \in Loaded : x = Known(named, idle, << >>)
    BY <1>0, <1>3, <1>7, <1>15
  <2>4. g[k] = [x EXCEPT !.telemetry = m.telemetry]
    <3>1. PICK tele \in Solid : tele = m.telemetry
      BY <1>0
    <3>2. S!LoadRow(x, S!Row("telemetry", <<tele>>)) = [x EXCEPT !.telemetry = tele]
      BY LoadWhole
    <3>3. rows[k] = S!Row("telemetry", <<tele>>)
      BY <1>1, <2>1, <3>1
    <3> HIDE DEF Known
    <3> QED
      BY <1>5, <2>2, <2>3, <3>1, <3>2, <3>3
  <2>5. g[k] = Known(named, m.telemetry, << >>)
    BY <2>3, <2>4
  <2> QED
    BY <2>1, <2>5
<1>10. \A i \in 0..q : g[4 + n + i] = Known(named, m.telemetry, SubSeq(m.peers, 1, i))
  <2> DEFINE K == {i \in 0..q : g[4 + n + i] = Known(named, m.telemetry, SubSeq(m.peers, 1, i))}
  <2>1. 0 \in K
    <3>1. SubSeq(m.peers, 1, 0) = << >>
      BY <1>0, PrefixGrows
    <3> HIDE DEF Known
    <3>2. 4 + n + 0 = 4 + n /\ 0 \in 0..q
      BY <1>1
    <3> QED
      BY <1>9, <3>1, <3>2, Zenon
  <2>2. ASSUME NEW i \in 1..q, i - 1 \in K PROVE i \in K
    <3> DEFINE peers == SubSeq(m.peers, 1, i - 1)
               p == m.peers[i]
    <3>1. peers \in Seq(PeerRecords) /\ p \in PeerRecords
          /\ Append(peers, p) = SubSeq(m.peers, 1, i)
      BY <1>0, PrefixGrows DEF q
    <3>2. PICK k \in 1..len : k = 4 + n + i
      BY <1>1, <1>4
    <3>3. rows[k] = S!PeerRow(p)
      BY <1>1, <3>2
    <3>4. g[k - 1] = Known(named, m.telemetry, peers)
      <4>1. k - 1 = 4 + n + (i - 1)
        BY <1>1, <3>2
      <4> HIDE DEF Known
      <4> QED
        BY <2>2, <4>1
    <3> HIDE DEF peers, p
    <3>5. PICK x \in Loaded : x = Known(named, m.telemetry, peers)
      BY <1>0, <1>3, <1>15, <3>1
    <3>6. g[k] = [x EXCEPT !.peers = Append(@, p)]
      <4>1. S!LoadRow(x, S!PeerRow(p)) = [x EXCEPT !.peers = Append(@, p)]
        BY <3>1, LoadPeer
      <4> HIDE DEF Known
      <4> QED
        BY <1>5, <3>3, <3>4, <3>5, <4>1
    <3>7. g[k] = Known(named, m.telemetry, Append(peers, p))
      BY <3>5, <3>6
    <3> HIDE DEF Known
    <3> QED
      BY <3>1, <3>2, <3>7
  <2> HIDE DEF K
  <2>3. 0..q \subseteq K
    BY <1>1, <2>1, <2>2, Counting
  <2> QED
    BY <2>3 DEF K
<1>11. g[len] = Known(named, m.telemetry, m.peers)
  <2>1. q \in 0..q /\ len = 4 + n + q
    BY <1>1, <1>4
  <2>2. SubSeq(m.peers, 1, q) = m.peers
    BY <1>0, PrefixGrows DEF q
  <2> HIDE DEF Known
  <2> QED
    BY <1>10, <2>1, <2>2
<1>12. S!Kept(m) = Known(named, m.telemetry, m.peers)
  <2>1. S!Kept(m) = [m EXCEPT !.alias = called, !.exposed = named]
    BY DEF S!Kept, named, called, Memories
  <2> QED
    BY <2>1 DEF Memories
<1> HIDE DEF Known
<1> QED
  BY <1>2, <1>4, <1>11, <1>12 DEF rows

\* The fields of a peer that a file never loses in part.
Matches(x, y) == x.id = y.id /\ x.alias = y.alias /\ x.host = y.host /\ x.port = y.port

\* A row that load takes for a peer has those fields of one of these.
KnownPeer(row, peers) ==
    row.kind = "peer" /\ Len(S!Fields(row)) >= 5
        => \E j \in DOMAIN peers : Matches(S!Peer(S!Fields(row)), peers[j])

\* The peer rows of a saved file are its peers.
LEMMA PeerRowsAreKnown ==
    ASSUME NEW m \in Memories, NEW k \in 1..Len(S!Rows(m)), S!Rows(m)[k].kind = "peer"
    PROVE  \E j \in DOMAIN m.peers : S!Rows(m)[k] = S!PeerRow(m.peers[j])
<1> DEFINE n == Len(m.exposed)
           q == Len(m.peers)
           rows == S!Rows(m)
<1>1. /\ n \in Nat /\ q \in Nat /\ rows \in Seq(FileRows) /\ Len(rows) = 4 + n + q
      /\ rows[1] = S!Row("node", <<m.node>>)
      /\ rows[2] = S!Row("alias", <<m.alias>>)
      /\ rows[3] = S!Row("discovery", <<S!Text(IF m.discovery THEN "1" ELSE "0")>>)
      /\ \A i \in 1..n : rows[3 + i] = S!Row("endpoint", <<S!Text("S"), S!Text("id"), m.exposed[i]>>)
      /\ rows[4 + n] = S!Row("telemetry", <<m.telemetry>>)
      /\ \A i \in 1..q : rows[4 + n + i] = S!PeerRow(m.peers[i])
  BY RowsAre
<1>2. m.peers \in Seq(PeerRecords)
  BY DEF Memories
<1>3. DOMAIN m.peers = 1..q
  BY <1>2
<1>4. rows[k].kind = "peer" /\ k \in 1..Len(rows)
  OBVIOUS
<1> HIDE DEF n, q, rows
<1>0. \A kind, fields : S!Row(kind, fields).kind = kind
  BY DEF S!Row
<1>5. rows[1].kind # "peer" /\ rows[2].kind # "peer" /\ rows[3].kind # "peer"
      /\ rows[4 + n].kind # "peer"
  BY <1>0, <1>1
<1>6. ASSUME NEW i \in 1..n PROVE rows[3 + i].kind # "peer"
  <2>1. rows[3 + i].kind = "endpoint"
    BY <1>0, <1>1, Zenon
  <2> QED
    BY <2>1
<1>7. PICK i \in 1..q : k = 4 + n + i
  <2>1. k \in 1..(4 + n + q)
    BY <1>1, <1>4
  <2>2. k # 1 /\ k # 2 /\ k # 3 /\ k # 4 + n
    BY <1>4, <1>5
  <2>3. ~(k >= 4 /\ k <= 3 + n)
    <3>1. SUFFICES ASSUME k >= 4, k <= 3 + n PROVE FALSE
      OBVIOUS
    <3>2. PICK i \in 1..n : k = 3 + i
      <4>1. k - 3 \in 1..n /\ k = 3 + (k - 3)
        BY <1>1, <2>1, <3>1
      <4> QED
        BY <4>1
    <3> QED
      BY <1>4, <1>6, <3>2
  <2>4. k - (4 + n) \in 1..q /\ k = 4 + n + (k - (4 + n))
    BY <1>1, <2>1, <2>2, <2>3
  <2> QED
    BY <2>4
<1> QED
  BY <1>1, <1>3, <1>7 DEF rows

\* A prefix of a sequence, element by element.
LEMMA PrefixIs ==
    ASSUME NEW T, NEW s \in Seq(T), NEW i \in 1..Len(s)
    PROVE  \E x \in Seq(T) : /\ x = SubSeq(s, 1, i - 1) /\ Len(x) = i - 1
                             /\ \A k \in 1..(i - 1) : x[k] = s[k] /\ k \in 1..Len(s)
<1> DEFINE x == SubSeq(s, 1, i - 1)
<1>1. x \in Seq(T) /\ Len(x) = i - 1
  OBVIOUS
<1>2. \A k \in 1..(i - 1) : x[k] = s[k] /\ k \in 1..Len(s)
  OBVIOUS
<1> QED
  BY <1>1, <1>2

\* What is left of a row is a row; what load takes of it was in the row.
LEMMA CutRowIs ==
    ASSUME NEW row \in FileRows, NEW j \in 1..Len(row.fields), NEW text \in Texts
    PROVE  /\ S!CutRow(row, j, text) \in FileRows
           /\ S!CutRow(row, j, text).kind = row.kind
           /\ Len(S!Fields(S!CutRow(row, j, text))) >= 5
                  => \A i \in 1..4 : S!Fields(S!CutRow(row, j, text))[i] = row.fields[i]
<1> DEFINE fields == row.fields
           left == Append(SubSeq(fields, 1, j - 1), text)
           cut == S!CutRow(row, j, text)
<1>1. /\ fields \in Seq(Texts) /\ Len(fields) \in Nat /\ Len(fields) <= Arity(row.kind)
      /\ row.kind \in Kinds /\ Arity(row.kind) \in Nat
      /\ row = [kind |-> row.kind, fields |-> fields]
  BY DEF FileRows, Arity
<1>2. cut = [kind |-> row.kind, fields |-> left]
  <2>1. cut = [row EXCEPT !.fields = left]
    BY DEF S!CutRow
  <2>2. PICK kind : row = [kind |-> kind, fields |-> fields] /\ kind = row.kind
    BY <1>1
  <2> HIDE DEF left, fields, cut
  <2>3. cut = [kind |-> kind, fields |-> left]
    BY <2>1, <2>2
  <2> QED
    BY <2>2, <2>3
<1>3. /\ left \in Seq(Texts) /\ Len(left) = j
      /\ \A i \in 1..(j - 1) : left[i] = fields[i]
  <2>1. PICK s \in Seq(Texts) : /\ s = SubSeq(fields, 1, j - 1) /\ Len(s) = j - 1
                                /\ \A i \in 1..(j - 1) : s[i] = fields[i]
    <3>1. PICK list \in Seq(Texts) : list = fields /\ j \in 1..Len(list) /\ Len(list) \in Nat
      BY <1>1
    <3>2. PICK i \in 1..Len(list) : i = j
      BY <3>1
    <3>3. PICK s \in Seq(Texts) : /\ s = SubSeq(list, 1, i - 1) /\ Len(s) = i - 1
                                  /\ \A k \in 1..(i - 1) : s[k] = list[k] /\ k \in 1..Len(list)
      <4>1. list \in Seq(Texts) /\ i \in 1..Len(list)
        BY <3>1, <3>2
      <4> QED
        BY <4>1, PrefixIs
    <3> HIDE DEF fields
    <3> QED
      BY <3>1, <3>2, <3>3
  <2> HIDE DEF fields
  <2> QED
    BY <2>1
<1> HIDE DEF cut, left
<1>4. cut \in FileRows
  BY <1>1, <1>2, <1>3 DEF FileRows
<1>5. cut.kind = row.kind /\ cut.fields = left
  BY <1>2
<1>6. ASSUME Len(S!Fields(cut)) >= 5, NEW i \in 1..4 PROVE S!Fields(cut)[i] = fields[i]
  <2> DEFINE f == S!Fields(cut)
  <2>1. /\ f \in Seq(Texts) /\ (Len(f) = j \/ Len(f) = j - 1)
        /\ \A k \in 1..Len(f) : f[k] = left[k]
    BY <1>3, <1>4, <1>5, FieldsAre
  <2>2. PICK len \in Nat : len = Len(f) /\ len >= 5
    BY <1>6, <2>1
  <2> HIDE DEF f
  <2>3. i \in 1..Len(f) /\ i \in 1..(j - 1)
    BY <1>1, <2>1, <2>2
  <2>4. f[i] = fields[i]
    BY <1>3, <2>1, <2>3
  <2> QED
    BY <2>4 DEF f
<1> QED
  BY <1>4, <1>5, <1>6 DEF cut

\* A file, or what a killed process leaves of it, has no peer that was not saved.
LEMMA SavedIsKnown ==
    ASSUME NEW m \in Memories, NEW rows, rows = S!Rows(m) \/ rows \in S!Torn(S!Rows(m))
    PROVE  rows \in Seq(FileRows) /\ \A k \in 1..Len(rows) : KnownPeer(rows[k], m.peers)
<1> DEFINE all == S!Rows(m)
<1>1. all \in Seq(FileRows) /\ Len(all) \in Nat
  <2>1. all \in Seq(FileRows)
    BY RowsAre
  <2> QED
    BY <2>1
<1>2. m.peers \in Seq(PeerRecords)
  BY DEF Memories
<1>3. ASSUME NEW row \in FileRows, NEW k \in 1..Len(all), row.kind = all[k].kind,
             Len(S!Fields(row)) >= 5 => \A i \in 1..4 : S!Fields(row)[i] = all[k].fields[i]
      PROVE  KnownPeer(row, m.peers)
  <2>1. SUFFICES ASSUME row.kind = "peer", Len(S!Fields(row)) >= 5
                 PROVE  \E j \in DOMAIN m.peers : Matches(S!Peer(S!Fields(row)), m.peers[j])
    BY DEF KnownPeer
  <2>2. PICK j \in DOMAIN m.peers : all[k] = S!PeerRow(m.peers[j])
    BY <1>3, <2>1, PeerRowsAreKnown
  <2>3. PICK p \in PeerRecords : p = m.peers[j]
    BY <1>2, <2>2
  <2>4. all[k].fields = <<p.id, p.alias, p.host, p.port, p.catalog, p.telemetry>>
    BY <2>2, <2>3 DEF S!PeerRow, S!Row
  <2>5. /\ S!Fields(row)[1] = p.id /\ S!Fields(row)[2] = p.alias
        /\ S!Fields(row)[3] = p.host /\ S!Fields(row)[4] = p.port
    BY <1>3, <2>1, <2>4
  <2>6. Matches(S!Peer(S!Fields(row)), p)
    BY <2>5 DEF Matches, S!Peer
  <2> QED
    BY <2>3, <2>6
<1>4. ASSUME NEW k \in 1..Len(all) PROVE all[k] \in FileRows /\ KnownPeer(all[k], m.peers)
  <2>1. all[k] \in FileRows
    BY <1>1
  <2>2. PICK row \in FileRows : row = all[k]
    BY <2>1
  <2>3. Len(S!Fields(row)) >= 5 => \A i \in 1..4 : S!Fields(row)[i] = row.fields[i]
    <3>1. S!Fields(row) \in Seq(Texts) /\ \A i \in 1..Len(S!Fields(row)) : S!Fields(row)[i] = row.fields[i]
      BY FieldsAre
    <3>2. PICK len \in Nat : len = Len(S!Fields(row))
      BY <3>1
    <3> QED
      BY <3>1, <3>2
  <2> HIDE DEF all
  <2> QED
    BY <1>3, <2>1, <2>2, <2>3
<1> HIDE DEF all
<1>5. CASE rows = all
  BY <1>1, <1>4, <1>5
<1>6. CASE rows \in S!Torn(all)
  <2>1. PICK k \in 1..Len(all) :
            \/ rows = SubSeq(all, 1, k - 1)
            \/ \E j \in DOMAIN all[k].fields : \E text \in {S!Empty, S!Cut(all[k].fields[j])} :
                   rows = Append(SubSeq(all, 1, k - 1), S!CutRow(all[k], j, text))
    <3>1. PICK k \in 1..Len(all) : rows \in S!TornAt(all, k)
      BY <1>1, <1>6 DEF S!Torn
    <3> QED
      BY <3>1 DEF S!TornAt
  <2>2. PICK s \in Seq(FileRows) : /\ s = SubSeq(all, 1, k - 1) /\ Len(s) = k - 1
                                   /\ \A i \in 1..(k - 1) : s[i] = all[i] /\ i \in 1..Len(all)
    BY <1>1, PrefixIs
  <2>3. \A i \in 1..(k - 1) : KnownPeer(s[i], m.peers)
    <3>1. ASSUME NEW i \in 1..(k - 1) PROVE KnownPeer(s[i], m.peers)
      <4>1. i \in 1..Len(all) /\ s[i] = all[i]
        BY <2>2
      <4> QED
        BY <1>4, <4>1
    <3> QED
      BY <3>1
  <2>4. CASE rows = s
    BY <2>2, <2>3, <2>4
  <2>5. CASE rows # s
    <3>1. PICK row \in FileRows : row = all[k] /\ row.fields \in Seq(Texts)
      BY <1>4, <2>1 DEF FileRows
    <3>2. PICK j \in 1..Len(row.fields) : \E text \in {S!Empty, S!Cut(row.fields[j])} :
              rows = Append(s, S!CutRow(row, j, text))
      <4>1. DOMAIN row.fields = 1..Len(row.fields)
        BY <3>1
      <4> QED
        BY <2>1, <2>2, <2>5, <3>1, <4>1
    <3>3. PICK text \in Texts : rows = Append(s, S!CutRow(row, j, text))
      <4>1. row.fields[j] \in Texts
        BY <3>1, <3>2
      <4>2. S!Cut(row.fields[j]) \in Texts
        BY <4>1 DEF S!Cut, Texts, Solid
      <4> QED
        BY <3>2, <4>2 DEF Texts
    <3>4. PICK cut \in FileRows : cut = S!CutRow(row, j, text) /\ KnownPeer(cut, m.peers)
      <4>1. /\ S!CutRow(row, j, text) \in FileRows
            /\ S!CutRow(row, j, text).kind = row.kind
            /\ Len(S!Fields(S!CutRow(row, j, text))) >= 5
                   => \A i \in 1..4 : S!Fields(S!CutRow(row, j, text))[i] = row.fields[i]
        BY <3>2, CutRowIs
      <4> QED
        BY <1>3, <2>1, <3>1, <4>1
    <3>5. rows = Append(s, cut)
      BY <3>3, <3>4
    <3>6. rows \in Seq(FileRows) /\ Len(rows) = k /\ rows[k] = cut
          /\ \A i \in 1..(k - 1) : rows[i] = s[i]
      BY <2>2, <3>5
    <3>7. ASSUME NEW i \in 1..k PROVE KnownPeer(rows[i], m.peers)
      <4>1. i = k \/ i \in 1..(k - 1)
        OBVIOUS
      <4> QED
        BY <2>3, <3>4, <3>6, <4>1
    <3> QED
      BY <3>6, <3>7
  <2> QED
    BY <2>4, <2>5
<1> QED
  BY <1>5, <1>6 DEF all

\* Every peer of a list has the fields that a file never loses in part of some
\* peer of another.
AllMatch(list, peers) == \A i \in DOMAIN list : \E j \in DOMAIN peers : Matches(list[i], peers[j])

\* What is loaded from known rows are known peers.
LEMMA LoadedMatch ==
    ASSUME NEW rows \in Seq(FileRows), NEW id \in Words, NEW peers,
           \A k \in 1..Len(rows) : KnownPeer(rows[k], peers)
    PROVE  AllMatch(S!Load(rows, id).peers, peers)
<1> DEFINE n == Len(rows)
<1>1. PICK g : /\ g[0] = S!Fresh(id)
               /\ \A k \in 1..n : g[k] = S!LoadRow(g[k - 1], rows[k])
               /\ \A k \in 0..n : g[k] \in Loaded
               /\ S!Load(rows, id) = g[n]
  BY LoadSteps
<1>2. n \in Nat /\ \A k \in 1..n : rows[k] \in FileRows /\ KnownPeer(rows[k], peers)
  OBVIOUS
<1> HIDE DEF n
<1> DEFINE K == {k \in 0..n : AllMatch(g[k].peers, peers)}
<1>3. 0 \in K
  <2>1. g[0].peers = << >>
    BY <1>1 DEF S!Fresh
  <2>2. DOMAIN << >> = {}
    OBVIOUS
  <2>3. AllMatch(<< >>, peers)
    BY <2>2, Zenon DEF AllMatch
  <2> QED
    BY <1>2, <2>1, <2>3
<1>4. ASSUME NEW k \in 1..n, k - 1 \in K PROVE k \in K
  <2>1. PICK x \in Loaded : x = g[k - 1] /\ AllMatch(x.peers, peers)
    BY <1>1, <1>2, <1>4
  <2>2. PICK row \in FileRows : row = rows[k] /\ KnownPeer(row, peers)
    BY <1>2
  <2> DEFINE y == S!LoadRow(x, row)
             f == S!Fields(row)
  <2>3. y = g[k]
    BY <1>1, <2>1, <2>2
  <2>4. y.peers = IF S!Enough(row.kind, f) /\ row.kind = "peer"
                    THEN Append(x.peers, S!Peer(f)) ELSE x.peers
    BY LoadRowIs
  <2>5. x.peers \in Seq(PeerRecords)
    BY <2>1 DEF Loaded
  <2>6. CASE S!Enough(row.kind, f) /\ row.kind = "peer"
    <3>1. Len(f) >= 5
      BY <2>6 DEF S!Enough
    <3>2. PICK j \in DOMAIN peers : Matches(S!Peer(f), peers[j])
      BY <2>2, <2>6, <3>1 DEF KnownPeer
    <3>3. PICK p \in PeerRecords : p = S!Peer(f)
      BY <2>6, PeerTyped
    <3>4. PICK list \in Seq(PeerRecords) : list = x.peers
      BY <2>5
    <3>5. y.peers = Append(list, p) /\ Matches(p, peers[j]) /\ AllMatch(list, peers)
      BY <2>1, <2>4, <2>6, <3>2, <3>3, <3>4
    <3> HIDE DEF y, f
    <3>6. ASSUME NEW i \in DOMAIN Append(list, p)
          PROVE  \E l \in DOMAIN peers : Matches(Append(list, p)[i], peers[l])
      <4>1. Append(list, p)[i] = p \/ (i \in DOMAIN list /\ Append(list, p)[i] = list[i])
        BY <3>4
      <4> QED
        BY <3>5, <4>1 DEF AllMatch
    <3>7. AllMatch(Append(list, p), peers)
      BY <3>6 DEF AllMatch
    <3>8. g[k].peers = Append(list, p)
      BY <2>3, <3>5
    <3>9. k \in 0..n
      BY <1>2
    <3> QED
      BY <3>7, <3>8, <3>9, Zenon
  <2>7. CASE ~(S!Enough(row.kind, f) /\ row.kind = "peer")
    <3>1. y.peers = x.peers
      BY <2>4, <2>7
    <3> HIDE DEF y
    <3> QED
      BY <2>1, <2>3, <3>1
  <2> QED
    BY <2>6, <2>7
<1> HIDE DEF K
<1>5. 0..n \subseteq K
  BY <1>2, <1>3, <1>4, Counting
<1>6. n \in K
  BY <1>2, <1>5
<1> QED
  BY <1>1, <1>6 DEF K, n

\* The file holds rows of saved peers only, and loads what the node knows.
StateInv ==
    /\ memory \in Memories /\ intended \in Memories /\ file \in Seq(FileRows)
    /\ \A k \in 1..Len(file) : KnownPeer(file[k], intended.peers)
    /\ S!RestartRestores
    /\ up => AllMatch(memory.peers, intended.peers)

\* StateInv holds of a node that never ran.
LEMMA StateInit == ASSUME S!StateAssumption, S!Init PROVE StateInv
<1>1. PICK id \in Ids : memory = S!Fresh(id) /\ intended = S!Fresh(id)
  BY DEF S!Init
<1>2. id \in Words
  BY DEF S!StateAssumption, Words
<1>3. S!Fresh(id) \in Memories
  BY <1>2, FreshTyped, LoadedIsKnown
<1>4. file = << >> /\ up = FALSE
  BY DEF S!Init
<1>5. << >> \in Seq(FileRows) /\ Len(<< >>) = 0
  OBVIOUS
<1>6. S!RestartRestores
  BY <1>4 DEF S!RestartRestores
<1> QED
  BY <1>1, <1>3, <1>4, <1>5, <1>6 DEF StateInv

\* Start: loading the file again would give the same, LoadTwice.
LEMMA StartKeeps ==
    ASSUME S!StateAssumption, StateInv, NEW id \in Ids, S!Start(id) PROVE StateInv'
<1> DEFINE loaded == S!Load(file, id)
<1>1. PICK restored \in BOOLEAN : memory' = [loaded EXCEPT !.discovery = @ /\ restored]
  BY DEF S!Start
<1>2. /\ file' = file /\ intended' = intended /\ file \in Seq(FileRows)
      /\ intended \in Memories
      /\ \A k \in 1..Len(file) : KnownPeer(file[k], intended.peers)
  BY DEF S!Start, StateInv
<1>3. id \in Words
  BY DEF S!StateAssumption, Words
<1>4. loaded \in Loaded /\ S!Load(file, loaded.node.of) = loaded
  BY <1>2, <1>3, LoadTwice
<1>5. AllMatch(loaded.peers, intended.peers)
  BY <1>2, <1>3, LoadedMatch
<1> HIDE DEF loaded
<1>6. /\ memory' \in Loaded /\ memory'.node = loaded.node /\ memory'.peers = loaded.peers
      /\ [loaded EXCEPT !.discovery = memory'.discovery] = memory'
      /\ memory'.discovery => loaded.discovery
  BY <1>1, <1>4 DEF Loaded
<1>11. memory' \in Memories /\ S!Kept(memory') = memory'
  BY <1>6, LoadedIsKnown, KeptIsLoaded
<1>7. S!Load(file', memory'.node.of) = loaded
  BY <1>2, <1>4, <1>6
<1>8. S!RestartRestores'
  <2>1. S!Kept(memory)' = memory'
    BY <1>11 DEF S!Kept
  <2> QED
    BY <1>6, <1>7, <2>1 DEF S!RestartRestores
<1>9. \A k \in 1..Len(file') : KnownPeer(file'[k], intended'.peers)
  BY <1>2
<1>10. AllMatch(memory'.peers, intended'.peers)
  BY <1>2, <1>5, <1>6
<1> QED
  BY <1>2, <1>8, <1>9, <1>10, <1>11 DEF StateInv

\* A change: the file loads as the memory, SavedLoads, or the process is gone.
LEMMA SaveKeeps ==
    ASSUME StateInv, NEW m \in Memories, S!Save(m) PROVE StateInv'
<1>1. memory' = m /\ intended' = m
  BY DEF S!Save
<1>2. /\ file' \in Seq(FileRows)
      /\ \A k \in 1..Len(file') : KnownPeer(file'[k], m.peers)
  <2>1. file' = S!Rows(m) \/ file' \in S!Torn(S!Rows(m))
    BY DEF S!Save
  <2> QED
    BY <2>1, SavedIsKnown
<1>3. S!RestartRestores'
  <2>1. SUFFICES ASSUME up' PROVE S!RestartRestores'
    BY DEF S!RestartRestores
  <2>2. file' = S!Rows(m)
    BY <2>1 DEF S!Save
  <2>3. m.node.of \in Words
    BY DEF Memories, Solid
  <2>4. S!Load(file', memory'.node.of) = S!Kept(m)
    BY <1>1, <2>2, <2>3, SavedLoads
  <2>5. /\ [S!Kept(m) EXCEPT !.discovery = m.discovery] = S!Kept(m)
        /\ m.discovery => S!Kept(m).discovery
    BY KeptIsLoaded DEF Loaded
  <2>6. S!Kept(memory)' = S!Kept(m)
    BY <1>1 DEF S!Kept
  <2> QED
    BY <1>1, <2>4, <2>5, <2>6 DEF S!RestartRestores
<1>4. AllMatch(memory'.peers, intended'.peers)
  <2>1. \A i \in DOMAIN m.peers : Matches(m.peers[i], m.peers[i])
    BY DEF Matches
  <2> QED
    BY <1>1, <2>1 DEF AllMatch
<1> QED
  BY <1>1, <1>2, <1>3, <1>4 DEF StateInv

\* Every step of a node keeps StateInv.
LEMMA StateNext ==
    ASSUME S!StateAssumption, StateInv, [S!Next]_(S!vars) PROVE StateInv'
<1>0. memory \in Memories /\ memory.peers \in Seq(PeerRecords)
  BY DEF StateInv, Memories
<1>1. /\ \A id \in Ids : S!Text(id) \in Texts
      /\ \A name \in Names : S!Text(name) \in Texts
      /\ \A name \in Names \ {""} : S!Text(name) \in Solid
  <2>1. Ids \subseteq Words /\ Names \ {""} \subseteq Words
    BY DEF S!StateAssumption, Words
  <2>2. \A name \in Words : S!Text(name) \in Solid /\ S!Text(name) \in Texts
    BY EmptyIsNotSolid DEF Texts
  <2>3. S!Text("") \in Texts
    BY Zenon DEF S!Empty, Texts
  <2>4. ASSUME NEW name \in Names PROVE S!Text(name) \in Texts
    <3>1. name = "" \/ name \in Words
      BY <2>1, Zenon
    <3> QED
      BY <2>2, <2>3, <3>1, Zenon
  <2> QED
    BY <2>1, <2>2, <2>4, Zenon
<1>2. ASSUME NEW id \in Ids, S!Start(id) PROVE StateInv'
  BY <1>2, StartKeeps
<1>3. ASSUME NEW id \in Ids, NEW name \in Names, S!AddPeer(id, name) PROVE StateInv'
  <2> DEFINE p == [id |-> S!Text(id), alias |-> S!Text(name), host |-> S!Text("h"),
                   port |-> S!Text("8791"), catalog |-> S!Empty, telemetry |-> S!Text("idle")]
             m == [memory EXCEPT !.peers = Append(@, p)]
  <2>1. S!Text("h") \in Texts /\ S!Text("8791") \in Texts /\ S!Empty \in Texts
        /\ S!Text("idle") \in Solid
    BY EmptyIsNotSolid DEF Texts, Words
  <2>2. p \in PeerRecords
    BY <1>1, <2>1 DEF PeerRecords
  <2>3. S!Save(m)
    BY <1>3 DEF S!AddPeer
  <2> HIDE DEF p
  <2>4. m \in Memories
    BY <1>0, <2>2 DEF Memories
  <2> HIDE DEF m
  <2> QED
    BY <2>3, <2>4, SaveKeeps
<1>4. ASSUME NEW name \in Names, S!SetAlias(name) PROVE StateInv'
  <2>1. [memory EXCEPT !.alias = S!Text(name)] \in Memories
    BY <1>0, <1>1 DEF Memories
  <2> QED
    BY <1>4, <2>1, SaveKeeps DEF S!SetAlias
<1>5. ASSUME NEW name \in Names \ {""}, S!SetTelemetry(name) PROVE StateInv'
  <2>1. [memory EXCEPT !.telemetry = S!Text(name)] \in Memories
    BY <1>0, <1>1 DEF Memories
  <2> QED
    BY <1>5, <2>1, SaveKeeps DEF S!SetTelemetry
<1>6. ASSUME NEW given \in S!BoundedSeq(Names, 2), S!SetExposed(given) PROVE StateInv'
  <2> DEFINE list == [i \in DOMAIN given |-> S!Text(given[i])]
  <2>1. PICK n \in 0..2 : given \in [1..n -> Names]
    BY Zenon DEF S!BoundedSeq, S!SeqOf
  <2>2. list \in Seq(Texts)
    <3>1. \A i \in 1..n : given[i] \in Names
      BY <2>1
    <3>2. list = [i \in 1..n |-> S!Text(given[i])]
      BY <2>1
    <3>3. \A i \in 1..n : S!Text(given[i]) \in Texts
      BY <1>1, <3>1
    <3> QED
      BY <3>2, <3>3
  <2> HIDE DEF list
  <2>3. [memory EXCEPT !.exposed = list] \in Memories
    BY <1>0, <2>2 DEF Memories
  <2>4. S!Save([memory EXCEPT !.exposed = list])
    BY <1>6 DEF S!SetExposed, list
  <2> QED
    BY <2>3, <2>4, SaveKeeps
<1>7. ASSUME NEW on \in BOOLEAN, S!SetDiscovery(on) PROVE StateInv'
  <2>1. [memory EXCEPT !.discovery = on] \in Memories
    BY <1>0 DEF Memories
  <2> QED
    BY <1>7, <2>1, SaveKeeps DEF S!SetDiscovery
<1>8. ASSUME NEW i \in DOMAIN memory.peers, S!RemovePeer(i) PROVE StateInv'
  <2>1. PICK list \in Seq(PeerRecords) : list = memory.peers /\ i \in 1..Len(list)
    BY <1>0
  <2> DEFINE left == S!RemoveAt(list, i)
  <2>2. left \in Seq(PeerRecords)
    BY <2>1 DEF S!RemoveAt
  <2>3. S!Save([memory EXCEPT !.peers = left])
    BY <1>8, <2>1 DEF S!RemovePeer
  <2> HIDE DEF left
  <2>4. [memory EXCEPT !.peers = left] \in Memories
    BY <1>0, <2>2 DEF Memories
  <2> QED
    BY <2>3, <2>4, SaveKeeps
<1>9. CASE S!Kill
  <2>1. /\ memory' = memory /\ file' = file /\ intended' = intended /\ up' = FALSE
    BY <1>9 DEF S!Kill
  <2>2. S!RestartRestores'
    BY <2>1 DEF S!RestartRestores
  <2> QED
    BY <2>1, <2>2 DEF StateInv
<1>10. CASE UNCHANGED S!vars
  <2>1. memory' = memory /\ file' = file /\ intended' = intended /\ up' = up
    BY <1>10 DEF S!vars
  <2>2. S!RestartRestores'
    BY <2>1 DEF S!RestartRestores, StateInv
  <2> QED
    BY <2>1, <2>2 DEF StateInv
<1> QED
  BY <1>2, <1>3, <1>4, <1>5, <1>6, <1>7, <1>8, <1>9, <1>10 DEF S!Next

\* The state file, the memory and the last save of a node agree (NodeState), in
\* every reachable state.
THEOREM StateInvariant == S!Spec => []StateInv
<1>1. S!StateAssumption
  BY StoresAssumption
<1> QED
  BY <1>1, StateInit, StateNext, PTL DEF S!Spec

\* The process runs or not, and the bounds hold.
RunTypes == up \in BOOLEAN /\ changes \in 0..MaxChanges /\ starts \in 0..MaxStarts

LEMMA BoundsAreNumbers == MaxChanges \in Nat /\ MaxStarts \in Nat
BY StoresAssumption, Zenon DEF S!StateAssumption

LEMMA RunStep == ASSUME RunTypes, [S!Next]_(S!vars) PROVE RunTypes'
<1>1. ASSUME NEW m, S!Save(m) PROVE RunTypes'
  <2>1. /\ up' = up \/ up' = FALSE
        /\ starts' = starts /\ changes < MaxChanges /\ changes' = changes + 1
    BY <1>1, Zenon DEF S!Save
  <2>2. up' \in BOOLEAN
    BY <2>1, Zenon DEF RunTypes
  <2>3. changes' \in 0..MaxChanges /\ starts' \in 0..MaxStarts
    BY <2>1, BoundsAreNumbers DEF RunTypes
  <2> QED
    BY <2>2, <2>3 DEF RunTypes
<1>2. ASSUME NEW id, S!Start(id) PROVE RunTypes'
  <2>1. up' = TRUE /\ starts < MaxStarts /\ starts' = starts + 1 /\ changes' = changes
    BY <1>2, Zenon DEF S!Start
  <2> QED
    BY <2>1, BoundsAreNumbers DEF RunTypes
<1>3. CASE S!Kill \/ UNCHANGED S!vars
  BY <1>3 DEF S!Kill, S!vars, RunTypes
<1> QED
  BY <1>1, <1>2, <1>3 DEF S!Next, S!AddPeer, S!SetAlias, S!SetTelemetry, S!SetExposed,
     S!SetDiscovery, S!RemovePeer

\* A node's variables have their types: its file holds only rows of the kinds that
\* save_unlocked writes.
THEOREM StateTypes == S!Spec => []S!TypeOK
<1>1. S!Init => RunTypes
  <2>1. S!Init => up = FALSE /\ changes = 0 /\ starts = 0
    BY Zenon DEF S!Init
  <2>2. 0 \in 0..MaxChanges /\ 0 \in 0..MaxStarts
    BY BoundsAreNumbers
  <2> QED
    BY <2>1, <2>2, Zenon DEF RunTypes
<1>2. StateInv /\ RunTypes => S!TypeOK
  BY DEF StateInv, RunTypes, S!TypeOK, S!Range, Memories, FileRows, Kinds
<1> QED
  BY <1>1, <1>2, RunStep, StateInvariant, PTL DEF S!Spec

\* Killing a node and starting it again changes nothing it knows, but the id of a
\* node that never saved, a discovery it could not restore, an empty alias and the
\* endpoints without a name: save_unlocked and load, for any names, and however
\* little of a file an earlier process left.
THEOREM RestartsRestore == S!Spec => []RestartRestores
<1>1. StateInv => RestartRestores
  BY DEF StateInv, RestartRestores
<1> QED
  BY <1>1, StateInvariant, PTL

\* A restarted node knows no peer by a wrong id, alias, host or port, wherever in
\* the file its last save ended: load skips a peer row of fewer than five fields.
THEOREM PeersStayWhole == S!Spec => []PeersAreWhole
<1>1. StateInv => PeersAreWhole
  <2>1. SUFFICES ASSUME StateInv, up, NEW i \in DOMAIN memory.peers
                 PROVE  \E k \in DOMAIN intended.peers :
                            \A field \in {"id", "alias", "host", "port"} :
                                memory.peers[i][field] = intended.peers[k][field]
    BY DEF PeersAreWhole, S!PeersAreWhole
  <2>2. PICK k \in DOMAIN intended.peers : Matches(memory.peers[i], intended.peers[k])
    BY <2>1 DEF StateInv, AllMatch
  <2> QED
    BY <2>2 DEF Matches
<1> QED
  BY <1>1, StateInvariant, PTL

------------------------------------------------------------------------------
(* DiagnosticLog.                                                          *)

\* The number of the oldest entry the log holds, or will hold next.
Oldest == next_sequence - Len(log_entries)

\* The log holds consecutive entries, the newest of them written last.
Consecutive ==
    /\ next_sequence \in Nat
    /\ log_entries \in Seq(Nat)
    /\ Oldest > 0
    /\ \A i \in 1..Len(log_entries) : log_entries[i] = Oldest + i - 1

\* The page has what the log still holds up to its cursor, and an answer under way
\* begins where the page or the log begins.
PageInv ==
    fresh =>
        /\ cursor \in Nat /\ cursor < next_sequence
        /\ \A n \in Oldest..cursor : n \in shown
        /\ \A after \in requests : after \in 0..cursor
        /\ \A entries \in answers :
              \E low \in Nat, high \in Nat :
                  /\ entries = low..high
                  /\ high < next_sequence
                  /\ low <= cursor + 1 \/ low <= Oldest

LogInv == Consecutive /\ PageInv

LEMMA HeldConsecutive == ASSUME Consecutive PROVE G!Held = Oldest..(next_sequence - 1)
<1>1. /\ Len(log_entries) \in Nat /\ DOMAIN log_entries = 1..Len(log_entries)
      /\ next_sequence \in Nat /\ Oldest \in Nat /\ next_sequence = Oldest + Len(log_entries)
  BY DEF Consecutive, Oldest
<1>2. ASSUME NEW entry \in G!Held PROVE entry \in Oldest..(next_sequence - 1)
  <2>1. PICK i \in 1..Len(log_entries) : entry = log_entries[i]
    BY <1>1 DEF G!Held
  <2> QED
    BY <1>1, <2>1 DEF Consecutive
<1>3. ASSUME NEW entry \in Oldest..(next_sequence - 1) PROVE entry \in G!Held
  <2> DEFINE i == entry - Oldest + 1
  <2>1. i \in 1..Len(log_entries)
    BY <1>1
  <2>2. log_entries[i] = entry
    BY <1>1, <2>1 DEF Consecutive
  <2> QED
    BY <1>1, <2>1, <2>2 DEF G!Held
<1> QED
  BY <1>2, <1>3

LEMMA WriteInv == ASSUME LogInv, G!Write PROVE LogInv'
<1> DEFINE pushed == Append(log_entries, next_sequence)
<1>1. /\ pushed \in Seq(Nat) /\ Len(pushed) = Len(log_entries) + 1
      /\ \A i \in 1..Len(pushed) : pushed[i] = Oldest + i - 1
  BY DEF LogInv, Consecutive, Oldest
<1>2. Consecutive' /\ Oldest' >= Oldest
  <2>0. /\ next_sequence \in Nat /\ next_sequence' = next_sequence + 1
        /\ Len(log_entries) \in Nat /\ Oldest = next_sequence - Len(log_entries) /\ Oldest > 0
        /\ Oldest \in Nat /\ Oldest' = next_sequence' - Len(log_entries')
    BY DEF G!Write, LogInv, Consecutive, Oldest
  <2>1. CASE log_entries' = pushed
    <3>1. Len(log_entries') = Len(log_entries) + 1
      BY <1>1, <2>1
    <3>2. Oldest' = Oldest
      BY <2>0, <3>1
    <3>3. \A i \in 1..Len(log_entries') : log_entries'[i] = Oldest' + i - 1
      BY <1>1, <2>1, <3>2
    <3> QED
      BY <1>1, <2>0, <2>1, <3>2, <3>3 DEF Consecutive
  <2>2. CASE log_entries' = Tail(pushed)
    <3>1. /\ Tail(pushed) \in Seq(Nat) /\ Len(Tail(pushed)) = Len(log_entries)
          /\ \A i \in 1..Len(log_entries) : Tail(pushed)[i] = pushed[i + 1]
      BY <1>1, HeadTailProperties DEF LogInv, Consecutive
    <3>2. Len(log_entries') = Len(log_entries)
      BY <2>2, <3>1
    <3>3. Oldest' = Oldest + 1
      BY <2>0, <3>2
    <3>4. \A i \in 1..Len(log_entries') : log_entries'[i] = Oldest' + i - 1
      <4> SUFFICES ASSUME NEW i \in 1..Len(log_entries)
                   PROVE  Tail(pushed)[i] = Oldest' + i - 1
        BY <2>2, <3>1
      <4>1. Tail(pushed)[i] = pushed[i + 1] /\ i + 1 \in 1..Len(pushed)
        BY <1>1, <2>0, <3>1
      <4>2. pushed[i + 1] = Oldest + (i + 1) - 1
        BY <1>1, <4>1
      <4> QED
        BY <2>0, <3>3, <4>1, <4>2
    <3>5. next_sequence' \in Nat /\ log_entries' \in Seq(Nat)
      BY <2>0, <2>2, <3>1
    <3>6. Oldest' > 0 /\ Oldest' >= Oldest
      BY <2>0, <3>3
    <3> QED
      BY <3>4, <3>5, <3>6 DEF Consecutive
  <2> QED
    BY <2>1, <2>2 DEF G!Write
<1>3. PageInv'
  <2> SUFFICES ASSUME fresh PROVE PageInv'
    BY DEF G!Write, G!page, PageInv
  <2>1. next_sequence' = next_sequence + 1 /\ UNCHANGED <<cursor, shown, fresh, requests, answers>>
    BY DEF G!Write, G!page
  <2>2. Oldest \in Nat /\ Oldest' \in Nat
    BY <1>2 DEF LogInv, Consecutive, Oldest
  <2>3. \A n \in Oldest'..cursor' : n \in shown'
    BY <1>2, <2>1, <2>2 DEF LogInv, PageInv
  <2>4. \A entries \in answers' :
           \E low \in Nat, high \in Nat :
               entries = low..high /\ high < next_sequence' /\ (low <= cursor' + 1 \/ low <= Oldest')
    BY <1>2, <2>1, <2>2 DEF LogInv, PageInv, Consecutive
  <2> QED
    BY <2>1, <2>3, <2>4 DEF LogInv, PageInv, Consecutive
<1> QED
  BY <1>2, <1>3 DEF LogInv

LEMMA ServeInv == ASSUME LogInv, NEW after \in requests, G!Serve(after) PROVE LogInv'
<1>1. Consecutive'
  BY DEF G!Serve, LogInv, Consecutive, Oldest
<1>2. PageInv'
  <2> SUFFICES ASSUME fresh PROVE PageInv'
    BY DEF G!Serve, G!page, PageInv
  <2>1. UNCHANGED <<log_entries, next_sequence, cursor, shown, fresh>>
    BY DEF G!Serve, G!page
  <2> DEFINE low == IF after + 1 > Oldest THEN after + 1 ELSE Oldest
             high == next_sequence - 1
  <2>2. after \in Nat /\ after <= cursor /\ Oldest \in Nat \ {0} /\ next_sequence \in Nat
    BY DEF LogInv, PageInv, Consecutive, Oldest
  <2>3. high \in Nat
    BY <2>2 DEF LogInv, Consecutive, Oldest
  <2>4. G!entries_after(after) = low..high
    BY <2>2, HeldConsecutive DEF G!entries_after, LogInv
  <2>5. low \in Nat /\ (low <= cursor + 1 \/ low <= Oldest) /\ high < next_sequence
    BY <2>2 DEF LogInv, PageInv
  <2>6. \A entries \in answers' :
           \E l \in Nat, h \in Nat :
               entries = l..h /\ h < next_sequence' /\ (l <= cursor' + 1 \/ l <= Oldest')
    <3> SUFFICES ASSUME NEW entries \in answers'
                 PROVE  \E l \in Nat, h \in Nat :
                            entries = l..h /\ h < next_sequence' /\ (l <= cursor' + 1 \/ l <= Oldest')
      OBVIOUS
    <3>1. CASE entries \in answers
      BY <2>1, <3>1 DEF LogInv, PageInv, Oldest
    <3>2. CASE entries = G!entries_after(after)
      BY <2>1, <2>3, <2>4, <2>5, <3>2 DEF Oldest
    <3> QED
      BY <3>1, <3>2 DEF G!Serve
  <2> QED
    BY <2>1, <2>6 DEF G!Serve, LogInv, PageInv, Oldest
<1> QED
  BY <1>1, <1>2 DEF LogInv

LEMMA StillReached ==
    ASSUME NEW low \in Nat, NEW from \in Nat, NEW to \in Nat, NEW oldest \in Nat,
           from <= to, low <= from + 1 \/ low <= oldest
    PROVE  low <= to + 1 \/ low <= oldest
OBVIOUS

LEMMA ShowInv == ASSUME LogInv, NEW entries \in answers, G!Show(entries) PROVE LogInv'
<1>1. Consecutive'
  BY DEF G!Show, LogInv, Consecutive, Oldest
<1>2. PageInv'
  <2> SUFFICES ASSUME fresh PROVE PageInv'
    BY DEF G!Show, PageInv
  <2>1. UNCHANGED <<log_entries, next_sequence, requests, fresh>> /\ Oldest' = Oldest
    BY DEF G!Show, Oldest
  <2>2. PICK low \in Nat, high \in Nat :
            /\ entries = low..high
            /\ high < next_sequence
            /\ low <= cursor + 1 \/ low <= Oldest
    BY DEF LogInv, PageInv
  <2>3. cursor \in Nat /\ cursor < next_sequence /\ Oldest \in Nat /\ next_sequence \in Nat
    BY DEF LogInv, PageInv, Consecutive, Oldest
  <2> DEFINE known == entries \cup {cursor}
             top == IF low <= high /\ cursor < high THEN high ELSE cursor
  <2>4. top \in known /\ \A m \in known : m <= top
    BY <2>2, <2>3
  <2>5. cursor' = CHOOSE n \in known : \A m \in known : m <= n
    BY DEF G!Show
  <2>6. cursor' \in known /\ \A m \in known : m <= cursor'
    BY <2>4, <2>5
  <2>7. cursor' = top
    BY <2>2, <2>3, <2>4, <2>6
  <2>8. \A n \in Oldest'..cursor' : n \in shown'
    <3> SUFFICES ASSUME NEW n \in Oldest..top PROVE n \in shown \cup entries
      BY <2>1, <2>7 DEF G!Show
    <3>1. CASE n <= cursor
      BY <2>3, <3>1 DEF LogInv, PageInv
    <3>2. CASE n > cursor
      BY <2>2, <2>3, <3>2
    <3> QED
      BY <2>3, <2>7, <3>1, <3>2
  <2>9. \A e \in answers' :
           \E l \in Nat, h \in Nat :
               e = l..h /\ h < next_sequence' /\ (l <= cursor' + 1 \/ l <= Oldest')
    <3> SUFFICES ASSUME NEW e \in answers'
                 PROVE  \E l \in Nat, h \in Nat :
                            e = l..h /\ h < next_sequence' /\ (l <= cursor' + 1 \/ l <= Oldest')
      OBVIOUS
    <3>0. e \in answers
      BY DEF G!Show
    <3>1. PICK l \in Nat, h \in Nat :
              /\ e = l..h
              /\ h < next_sequence
              /\ l <= cursor + 1 \/ l <= Oldest
      BY <3>0 DEF LogInv, PageInv
    <3>2. cursor <= cursor' /\ cursor' \in Nat
      BY <2>2, <2>3, <2>7
    <3>3. h < next_sequence'
      BY <2>1, <3>1
    <3>4. l <= cursor' + 1 \/ l <= Oldest'
      BY <2>1, <2>3, <3>1, <3>2, StillReached
    <3> QED
      BY <3>1, <3>3, <3>4
  <2>10. cursor' \in Nat /\ cursor' < next_sequence' /\ cursor <= cursor'
    BY <2>1, <2>2, <2>3, <2>7
  <2>11. \A after \in requests' : after \in 0..cursor'
    BY <2>1, <2>3, <2>10 DEF LogInv, PageInv
  <2> QED
    BY <2>8, <2>9, <2>10, <2>11 DEF PageInv
<1> QED
  BY <1>1, <1>2 DEF LogInv

LEMMA LogInvStep == LogInv /\ [G!Next]_(G!vars) => LogInv'
<1> SUFFICES ASSUME LogInv, [G!Next]_(G!vars) PROVE LogInv'
  OBVIOUS
<1>1. CASE G!Write
  BY <1>1, WriteInv
<1>2. CASE G!Ask
  <2>1. UNCHANGED <<log_entries, next_sequence, cursor, shown, fresh, answers>>
    BY <1>2 DEF G!Ask, G!page
  <2>2. fresh => \A after \in requests' : after \in 0..cursor
    BY <1>2 DEF G!Ask, LogInv, PageInv
  <2> QED
    BY <2>1, <2>2 DEF LogInv, Consecutive, PageInv, Oldest
<1>3. CASE G!Lose
  <2>1. UNCHANGED <<log_entries, next_sequence, cursor, shown, fresh>>
    BY <1>3 DEF G!Lose, G!page
  <2>2. requests' \subseteq requests /\ answers' \subseteq answers
    BY <1>3 DEF G!Lose
  <2> QED
    BY <2>1, <2>2 DEF LogInv, Consecutive, PageInv, Oldest
<1>4. CASE G!Restart
  BY <1>4 DEF G!Restart, LogInv, Consecutive, PageInv, Oldest
<1>5. CASE G!Reload
  BY <1>5 DEF G!Reload, LogInv, Consecutive, PageInv, Oldest
<1>6. ASSUME NEW after \in requests, G!Serve(after) PROVE LogInv'
  BY <1>6, ServeInv
<1>7. ASSUME NEW entries \in answers, G!Show(entries) PROVE LogInv'
  BY <1>7, ShowInv
<1>8. CASE UNCHANGED G!vars
  BY <1>8 DEF G!vars, LogInv, Consecutive, PageInv, Oldest
<1> QED
  BY <1>1, <1>2, <1>3, <1>4, <1>5, <1>6, <1>7, <1>8 DEF G!Next

THEOREM LogInvariant == G!Spec => []LogInv
<1>1. G!Init => LogInv
  BY DEF G!Init, LogInv, Consecutive, PageInv, Oldest
<1> QED
  BY <1>1, LogInvStep, PTL DEF G!Spec

\* A page asking for what follows the last sequence it saw misses no entry the log
\* still holds, in whatever order its overlapping requests are answered
\* (diagnostic_log.cpp:30-36, main.ts:84-90).
THEOREM NothingIsSkipped == G!Spec => []NothingSkipped
<1>1. LogInv => NothingSkipped
  BY HeldConsecutive DEF LogInv, PageInv, Consecutive, Oldest, NothingSkipped, G!NothingSkipped
<1> QED
  BY <1>1, LogInvariant, PTL

------------------------------------------------------------------------------
(* DeviceList.                                                             *)

\* What the enumerations found is hardware; what stayed is in them; the page shows
\* what the enumerations it was made of contain.
ListInv ==
    /\ plugged \subseteq Hardware
    /\ captures \subseteq D!Reported("capture")
    /\ sinks \subseteq D!Reported("playback")
    /\ step # "captures" =>
          \A h \in Hardware : D!Steady(h) /\ h.capture # Nothing => h.capture \in captures
    /\ step \notin {"captures", "sinks"} =>
          \A h \in Hardware : D!Steady(h) /\ h.playback # Nothing => h.playback \in sinks
    /\ step = "done" =>
          /\ page.sources = {s \in D!Sources(captures, sinks) : ~s.default}
          /\ page.sinks \subseteq D!Reported("playback")
    /\ step # "done" => matrix = D!NoMatrix

Link(link) == link = [source |-> link.source, loopback |-> link.loopback, sink |-> link.sink]

\* A matrix of offered links: each route has its indices in range, and a source has
\* one loopback flag, that of every offered link from it.
MatrixOf(m, links) ==
    /\ m.links \in Seq(links) /\ m.routes \in Seq([source: Nat, sink: Nat])
    /\ m.sources \in Seq({l.source : l \in links}) /\ m.sinks \in Seq({l.sink : l \in links})
    /\ m.loopback \in Seq({l.loopback : l \in links})
    /\ Len(m.routes) = Len(m.links) /\ Len(m.loopback) = Len(m.sources)
    /\ \A i \in 1..Len(m.links) :
          /\ m.routes[i].source \in 1..Len(m.sources)
          /\ m.routes[i].sink \in 1..Len(m.sinks)
          /\ m.links[i] = [source |-> m.sources[m.routes[i].source],
                           loopback |-> m.loopback[m.routes[i].source],
                           sink |-> m.sinks[m.routes[i].sink]]
    /\ \A k \in 1..Len(m.sources) :
          \E link \in links : link.source = m.sources[k] /\ link.loopback = m.loopback[k]

MatrixInv == step = "done" => MatrixOf(matrix, D!Offered)

DeviceInv == ListInv /\ MatrixInv

\* Links from one source are all render loopbacks, or none is.
OneFlag(links) ==
    \A l, k \in links : l.source = k.source => l.loopback = k.loopback

LEMMA ReportedDevices ==
    D!Reported("capture") \subseteq D!Device /\ D!Reported("playback") \subseteq D!Device
<1>1. Hardware \subseteq [capture: D!Device \cup {Nothing}, playback: D!Device \cup {Nothing},
                       mirror: BOOLEAN]
  BY HardwareIsKnown DEF D!HardwareAssumption
<1> QED
  BY <1>1 DEF D!Reported

LEMMA ReportedBy ==
    ASSUME NEW h \in Hardware
    PROVE  /\ h.capture # Nothing => h.capture \in D!Reported("capture")
           /\ h.playback # Nothing => h.playback \in D!Reported("playback")
<1>1. Hardware \subseteq [capture: D!Device \cup {Nothing}, playback: D!Device \cup {Nothing},
                       mirror: BOOLEAN]
  BY HardwareIsKnown DEF D!HardwareAssumption
<1>2. h["capture"] = h.capture /\ h["playback"] = h.playback
  BY <1>1
<1> QED
  BY <1>2 DEF D!Reported

\* A source is a capture that no sink shadows, or the loopback of a WASAPI sink.
IsCapture(s, c) ==
    /\ \A k \in sinks : k.id.device # c.id.device
    /\ s.id = c.id /\ s.default = c.default /\ s.loopback_of = D!Mirrored(c, sinks)

IsRender(s, k) ==
    /\ ~k.default /\ k.id.factory = "wasapi2sink"
    /\ s.id = [factory |-> "wasapi2src", device |-> k.id.device]
    /\ s.default = k.default /\ s.loopback_of = k.id

LEMMA SourcesAre ==
    ASSUME ListInv, NEW s \in D!Sources(captures, sinks)
    PROVE  \/ \E c \in captures : IsCapture(s, c)
           \/ \E k \in sinks : IsRender(s, k)
<1>1. captures \subseteq D!Device /\ sinks \subseteq D!Device
  BY ReportedDevices DEF ListInv
<1>2. CASE \E c \in captures : /\ c.id.device \notin {k.id.device : k \in sinks}
                               /\ s = D!Source(c, D!Mirrored(c, sinks))
  BY <1>1, <1>2 DEF D!Source, IsCapture
<1>3. CASE \E k \in sinks : /\ ~k.default /\ D!IsWasapi(k)
                            /\ s = D!Source([k EXCEPT !.id.factory = "wasapi2src"], k.id)
  <2>1. PICK k \in sinks : /\ ~k.default /\ D!IsWasapi(k)
                           /\ s = D!Source([k EXCEPT !.id.factory = "wasapi2src"], k.id)
    BY <1>3
  <2>2. k \in [id: [factory: STRING, device: STRING], name: STRING, monitor_of: STRING, default: BOOLEAN]
    BY <1>1 DEF D!Device, D!Selector
  <2>3. /\ [k EXCEPT !.id.factory = "wasapi2src"].id = [factory |-> "wasapi2src", device |-> k.id.device]
        /\ [k EXCEPT !.id.factory = "wasapi2src"].default = k.default
    BY <2>2
  <2>4. s.id = [factory |-> "wasapi2src", device |-> k.id.device] /\ s.default = k.default /\ s.loopback_of = k.id
    BY <2>1, <2>3 DEF D!Source
  <2> QED
    BY <2>1, <2>4 DEF IsRender, D!IsWasapi
<1> QED
  BY <1>2, <1>3 DEF D!Sources

LEMMA CapturesListed ==
    ASSUME ListInv, NEW c \in captures, \A k \in sinks : k.id.device # c.id.device
    PROVE  \E s \in D!Sources(captures, sinks) : s.id = c.id /\ s.default = c.default
<1> DEFINE s == D!Source(c, D!Mirrored(c, sinks))
<1>1. s \in D!Sources(captures, sinks)
  BY DEF D!Sources
<1>2. s.id = c.id /\ s.default = c.default
  BY DEF D!Source
<1> QED
  BY <1>1, <1>2

LEMMA RendersListed ==
    ASSUME ListInv, NEW k \in sinks, ~k.default, k.id.factory = "wasapi2sink"
    PROVE  \E s \in D!Sources(captures, sinks) :
              s.id = [factory |-> "wasapi2src", device |-> k.id.device] /\ s.default = k.default
<1> DEFINE s == D!Source([k EXCEPT !.id.factory = "wasapi2src"], k.id)
<1>1. s \in D!Sources(captures, sinks)
  BY DEF D!Sources, D!IsWasapi
<1>2. k \in [id: [factory: STRING, device: STRING], name: STRING, monitor_of: STRING, default: BOOLEAN]
  BY ReportedDevices DEF ListInv, D!Device, D!Selector
<1>3. /\ [k EXCEPT !.id.factory = "wasapi2src"].id = [factory |-> "wasapi2src", device |-> k.id.device]
      /\ [k EXCEPT !.id.factory = "wasapi2src"].default = k.default
  BY <1>2
<1>4. s.id = [factory |-> "wasapi2src", device |-> k.id.device] /\ s.default = k.default
  BY <1>3 DEF D!Source
<1> QED
  BY <1>1, <1>4

\* The playback found for a monitor is one of its name.
LEMMA MirroredIs ==
    ASSUME ListInv, NEW c \in captures
    PROVE  \/ D!Mirrored(c, sinks) = Nothing
           \/ \E k \in sinks : /\ c.monitor_of # "" /\ k.name = c.monitor_of
                               /\ D!Mirrored(c, sinks) = k.id
BY DEF D!Mirrored

LEMMA MirroredNamed ==
    ASSUME ListInv, NEW c \in captures, NEW k \in sinks, c.monitor_of # "", k.name = c.monitor_of
    PROVE  \E j \in sinks : j.name = c.monitor_of /\ D!Mirrored(c, sinks) = j.id
BY DEF D!Mirrored

LEMMA NeverNothing ==
    ASSUME ListInv, NEW k \in sinks
    PROVE  k.id # Nothing
<1>1. k.id \in D!Selector
  BY ReportedDevices DEF ListInv, D!Device
<1> QED
  BY <1>1, HardwareIsKnown DEF D!HardwareAssumption

------------------------------------------------------------------------------

LEMMA ListInvStep == ListInv /\ [D!Next]_(D!vars) => ListInv'
<1> SUFFICES ASSUME ListInv, [D!Next]_(D!vars) PROVE ListInv'
  OBVIOUS
<1>1. ASSUME NEW h \in Hardware, D!Move(h) PROVE ListInv'
  <2>1. \A g \in Hardware : D!Steady(g)' => D!Steady(g)
    BY <1>1 DEF D!Move, D!Steady
  <2>2. /\ plugged' \subseteq Hardware /\ step # "done"
        /\ UNCHANGED <<step, captures, sinks, page, matrix>>
    BY <1>1 DEF D!Move, ListInv
  <2> QED
    BY <2>1, <2>2 DEF ListInv
<1>2. CASE D!ListCaptures
  <2>1. /\ step' = "sinks" /\ step = "captures" /\ moved' = {}
        /\ UNCHANGED <<plugged, sinks, page, matrix>>
    BY <1>2 DEF D!ListCaptures
  <2>2. captures' = {h["capture"] : h \in plugged} \ {Nothing}
    BY <1>2 DEF D!ListCaptures, D!Listed
  <2>3. captures' \subseteq D!Reported("capture")
    BY <2>2 DEF D!Reported, ListInv
  <2>4. \A h \in Hardware : D!Steady(h)' /\ h.capture # Nothing => h.capture \in captures'
    <3> SUFFICES ASSUME NEW h \in plugged, h \in Hardware, h.capture # Nothing PROVE h.capture \in captures'
      BY <2>1 DEF D!Steady
    <3>1. h["capture"] = h.capture
      BY HardwareIsKnown DEF D!HardwareAssumption
    <3> QED
      BY <2>2, <3>1
  <2> QED
    BY <2>1, <2>3, <2>4 DEF ListInv
<1>3. CASE D!ListPlaybacks
  <2>1. /\ step' = "page" /\ step = "sinks"
        /\ UNCHANGED <<plugged, moved, captures, page, matrix>>
    BY <1>3 DEF D!ListPlaybacks
  <2>2. sinks' = {h["playback"] : h \in plugged} \ {Nothing}
    BY <1>3 DEF D!ListPlaybacks, D!Listed
  <2>3. sinks' \subseteq D!Reported("playback")
    BY <2>2 DEF D!Reported, ListInv
  <2>4. \A h \in Hardware : D!Steady(h)' /\ h.playback # Nothing => h.playback \in sinks'
    <3> SUFFICES ASSUME NEW h \in plugged, h \in Hardware, h.playback # Nothing PROVE h.playback \in sinks'
      BY <2>1 DEF D!Steady
    <3>1. h["playback"] = h.playback
      BY HardwareIsKnown DEF D!HardwareAssumption
    <3> QED
      BY <2>2, <3>1
  <2> QED
    BY <2>1, <2>3, <2>4 DEF ListInv, D!Steady
<1>4. CASE D!DevicesJson
  <2>1. /\ step' = "done" /\ step = "page"
        /\ UNCHANGED <<plugged, moved, captures, sinks, matrix>>
        /\ page'.sources = {s \in D!Sources(captures, sinks) : ~s.default}
        /\ page'.sinks = {s \in D!Listed("playback") : ~s.default}
    BY <1>4 DEF D!DevicesJson
  <2>2. D!Listed("playback") \subseteq D!Reported("playback")
    BY DEF D!Listed, D!Reported, ListInv
  <2> QED
    BY <2>1, <2>2 DEF ListInv, D!Steady
<1>5. ASSUME NEW link \in D!Offered, D!AddLink(link) PROVE ListInv'
  BY <1>5 DEF D!AddLink, ListInv, D!Steady
<1>6. CASE UNCHANGED D!vars
  BY <1>6 DEF D!vars, ListInv, D!Steady
<1> QED
  BY <1>1, <1>2, <1>3, <1>4, <1>5, <1>6 DEF D!Next

LEMMA OnceFromList == ListInv => EachEndpointOnce
<1> SUFFICES ASSUME ListInv, step = "done" PROVE D!EachEndpointOnce
  BY DEF EachEndpointOnce, D!EachEndpointOnce
<1>1. ASSUME NEW x \in page.sources, NEW y \in page.sources, x.id.device = y.id.device, x.id.device # ""
      PROVE  x = y
  <2>1. x \in D!Sources(captures, sinks) /\ y \in D!Sources(captures, sinks)
    BY DEF ListInv
  <2>2. captures \subseteq D!Reported("capture") /\ sinks \subseteq D!Reported("playback")
    BY DEF ListInv
  <2>3. ASSUME NEW s \in D!Sources(captures, sinks)
        PROVE  \/ \E c \in captures : /\ \A k \in sinks : k.id.device # c.id.device
                                      /\ s.id.device = c.id.device
                                      /\ s = D!Source(c, D!Mirrored(c, sinks))
               \/ \E k \in sinks : /\ s.id.device = k.id.device
                                   /\ s = D!Source([k EXCEPT !.id.factory = "wasapi2src"], k.id)
    <3>1. ASSUME NEW c \in captures, s = D!Source(c, D!Mirrored(c, sinks))
          PROVE  s.id.device = c.id.device
      BY <3>1 DEF D!Source
    <3>2. ASSUME NEW k \in sinks, s = D!Source([k EXCEPT !.id.factory = "wasapi2src"], k.id)
          PROVE  s.id.device = k.id.device
      <4>1. k \in [id: [factory: STRING, device: STRING], name: STRING, monitor_of: STRING, default: BOOLEAN]
        BY <2>2, ReportedDevices DEF D!Device, D!Selector
      <4>2. [k EXCEPT !.id.factory = "wasapi2src"].id.device = k.id.device
        BY <4>1
      <4> QED
        BY <3>2, <4>2 DEF D!Source
    <3> QED
      BY <3>1, <3>2 DEF D!Sources
  <2>4. \A c, d \in captures : c.id.device = d.id.device /\ c.id.device # "" => c = d
    BY <2>2, HardwareIsKnown DEF D!HardwareAssumption
  <2>5. \A c, d \in sinks : c.id.device = d.id.device /\ c.id.device # "" => c = d
    BY <2>2, HardwareIsKnown DEF D!HardwareAssumption
  <2>6. CASE \E c \in captures : /\ \A k \in sinks : k.id.device # c.id.device
                                 /\ x.id.device = c.id.device
                                 /\ x = D!Source(c, D!Mirrored(c, sinks))
    BY <1>1, <2>1, <2>3, <2>4, <2>6
  <2>7. CASE \E k \in sinks : /\ x.id.device = k.id.device
                              /\ x = D!Source([k EXCEPT !.id.factory = "wasapi2src"], k.id)
    BY <1>1, <2>1, <2>3, <2>5, <2>7
  <2> QED
    BY <2>1, <2>3, <2>6, <2>7
<1>2. ASSUME NEW h \in Hardware, D!Steady(h), h.capture # Nothing, ~h.capture.default,
             h.capture.id.device # "", ~D!Shadowed(h.capture)
      PROVE  \E s \in page.sources : s.id = h.capture.id
  <2>1. h.capture \in captures /\ h.capture \in D!Reported("capture")
    BY <1>2 DEF ListInv
  <2>2. \A s \in D!Sources(captures, sinks) : ~s.default => s \in page.sources
    BY DEF ListInv
  <2>3. CASE \A k \in sinks : k.id.device # h.capture.id.device
    BY <1>2, <2>1, <2>2, <2>3, CapturesListed
  <2>4. ASSUME NEW k \in sinks, k.id.device = h.capture.id.device
        PROVE  \E s \in page.sources : s.id = h.capture.id
    <3>1. k \in D!Reported("playback")
      BY DEF ListInv
    <3>0. h.capture.id.factory = "wasapi2src"
      BY <1>2, <2>4 DEF D!Shadowed
    <3>2. h.capture.id.factory = "wasapi2src" /\ k.id.factory = "wasapi2sink" /\ h.capture.default = k.default
      BY <1>2, <2>1, <2>4, <3>0, <3>1, HardwareIsKnown DEF D!HardwareAssumption
    <3>3. h.capture.id \in [factory: STRING, device: STRING]
      BY <2>1, ReportedDevices DEF D!Device, D!Selector
    <3>4. h.capture.id = [factory |-> "wasapi2src", device |-> k.id.device]
      BY <2>4, <3>2, <3>3
    <3>5. \E s \in D!Sources(captures, sinks) : s.id = h.capture.id /\ s.default = k.default
      BY <1>2, <3>2, <3>4, RendersListed
    <3> QED
      BY <1>2, <2>2, <3>2, <3>5
  <2> QED
    BY <2>3, <2>4
<1> QED
  BY <1>1, <1>2 DEF D!EachEndpointOnce

LEMMA NoFeedbackFromList == ListInv => NoFeedback
<1> SUFFICES ASSUME ListInv, step = "done", NEW h \in Hardware,
                    D!Steady(h), h.playback # Nothing, h.capture # Nothing,
                    D!Linked(h),
                    NEW link \in D!Offered
             PROVE  ~(link.source = h.capture.id /\ link.sink = h.playback.id)
  BY DEF NoFeedback, D!NoFeedback, D!Mirrors, D!FeedsBack
<1> SUFFICES ASSUME link.source = h.capture.id, link.sink = h.playback.id
             PROVE  FALSE
  OBVIOUS
<1>2. h.capture \in captures /\ h.playback \in sinks
  BY DEF ListInv
<1>3. /\ captures \subseteq D!Reported("capture") /\ sinks \subseteq D!Reported("playback")
      /\ D!Reported("capture") \subseteq D!Device /\ D!Reported("playback") \subseteq D!Device
  BY ReportedDevices DEF ListInv
<1>4. ASSUME h.capture.id.factory # "wasapi2src", NEW k \in sinks, k.name = h.playback.name
      PROVE  k = h.playback
  <2>1. PICK g \in Hardware : k = g["playback"] /\ k # Nothing
    BY <1>3 DEF D!Reported
  <2>2. g["playback"] = g.playback
    BY HardwareIsKnown DEF D!HardwareAssumption
  <2>3. g = h
    BY <1>4, <2>1, <2>2 DEF D!Linked
  <2> QED
    BY <2>1, <2>2, <2>3
<1>5. PICK x \in page.sources, y \in page.sinks :
          x.id = h.capture.id /\ y.id = h.playback.id /\ D!Choice(x, y)
  BY DEF D!Offered
<1>6. x \in D!Sources(captures, sinks)
  BY DEF ListInv
<1>7. x.loopback_of = Nothing \/ D!Endpoint(x) # h.playback.id.device
  BY <1>5 DEF D!Choice, D!IsLoopback
<1>9. ASSUME NEW c \in captures, IsCapture(x, c) PROVE FALSE
  <2>1. c.id = h.capture.id /\ x.loopback_of = D!Mirrored(c, sinks)
    BY <1>5, <1>9 DEF IsCapture
  <2>2. c.id.device # h.playback.id.device
    BY <1>2, <1>9 DEF IsCapture
  <2>3. h.capture.id.factory # "wasapi2src"
    BY <2>1, <2>2 DEF D!Linked
  <2>4. h.capture.monitor_of # "" /\ h.capture.monitor_of = h.playback.name
    BY <2>3 DEF D!Linked
  <2>5. c = h.capture
    BY <1>2, <1>3, <2>1, <2>4, HardwareIsKnown DEF D!HardwareAssumption
  <2>6. D!Mirrored(c, sinks) = h.playback.id
    BY <1>2, <1>4, <2>3, <2>4, <2>5, MirroredNamed
  <2>7. h.playback.id # Nothing
    BY <1>2, NeverNothing
  <2> QED
    BY <1>7, <2>1, <2>6, <2>7 DEF D!Endpoint, D!IsLoopback
<1>10. ASSUME NEW k \in sinks, IsRender(x, k) PROVE FALSE
  <2>1. x.id = [factory |-> "wasapi2src", device |-> k.id.device] /\ x.loopback_of = k.id
    BY <1>10 DEF IsRender
  <2>2. h.capture.id.factory = "wasapi2src" /\ h.capture.id.device = k.id.device
    BY <1>5, <2>1
  <2>3. h.capture.id.device = h.playback.id.device
    BY <2>2 DEF D!Linked
  <2>4. k.id # Nothing
    BY NeverNothing
  <2> QED
    BY <1>7, <2>1, <2>2, <2>3, <2>4 DEF D!Endpoint, D!IsLoopback
<1> QED
  BY <1>6, <1>9, <1>10, SourcesAre

\* Offered links from one source agree on the loopback flag.
LEMMA OfferedOneFlag == ListInv /\ step = "done" => OneFlag(D!Offered)
<1> SUFFICES ASSUME ListInv, step = "done", NEW x \in page.sources, NEW y \in page.sources, x.id = y.id
             PROVE  D!IsLoopback(x) = D!IsLoopback(y)
  <2>1. \A link \in D!Offered :
            \E s \in page.sources : link.source = s.id /\ link.loopback = D!IsLoopback(s)
    BY DEF D!Offered
  <2> QED
    BY <2>1 DEF OneFlag, D!IsLoopback
<1>1. x \in D!Sources(captures, sinks) /\ y \in D!Sources(captures, sinks)
  BY DEF ListInv
<1>2. captures \subseteq D!Reported("capture") /\ sinks \subseteq D!Reported("playback")
  BY DEF ListInv
<1>3. ASSUME NEW c \in captures, NEW d \in captures, IsCapture(x, c), IsCapture(y, d)
      PROVE  D!IsLoopback(x) = D!IsLoopback(y)
  <2>1. c.id.device = d.id.device
    BY <1>3 DEF IsCapture
  <2>2. CASE c.id.device # ""
    <3>1. c = d
      BY <1>2, <2>1, <2>2, HardwareIsKnown DEF D!HardwareAssumption
    <3> QED
      BY <1>3, <3>1 DEF IsCapture, D!IsLoopback
  <2>3. CASE c.id.device = ""
    <3>1. c.monitor_of = "" /\ d.monitor_of = ""
      BY <1>2, <2>1, <2>3, HardwareIsKnown DEF D!HardwareAssumption
    <3>2. D!Mirrored(c, sinks) = Nothing /\ D!Mirrored(d, sinks) = Nothing
      BY <3>1 DEF D!Mirrored
    <3> QED
      BY <1>3, <3>2 DEF IsCapture, D!IsLoopback
  <2> QED
    BY <2>2, <2>3
<1>4. ASSUME NEW k \in sinks, IsRender(x, k) PROVE D!IsLoopback(x) /\ D!IsLoopback(y)
  <2>1. x.id.device = k.id.device
    BY <1>4 DEF IsRender
  <2>2. \A c \in captures : ~IsCapture(y, c)
    BY <2>1 DEF IsCapture
  <2>3. PICK j \in sinks : IsRender(y, j)
    BY <1>1, <2>2, SourcesAre
  <2> QED
    BY <1>4, <2>3, NeverNothing DEF IsRender, D!IsLoopback
<1>5. ASSUME NEW k \in sinks, IsRender(y, k) PROVE D!IsLoopback(x) /\ D!IsLoopback(y)
  <2>1. y.id.device = k.id.device
    BY <1>5 DEF IsRender
  <2>2. \A c \in captures : ~IsCapture(x, c)
    BY <2>1 DEF IsCapture
  <2>3. PICK j \in sinks : IsRender(x, j)
    BY <1>1, <2>2, SourcesAre
  <2> QED
    BY <1>5, <2>3, NeverNothing DEF IsRender, D!IsLoopback
<1> QED
  BY <1>1, <1>3, <1>4, <1>5, SourcesAre DEF D!IsLoopback

\* An endpoint has a place in the vector, new or known, and the others keep theirs.
PushedAsNew(Elements, list, x, new) ==
    /\ new \in Seq(Elements)
    /\ \A i \in 1..Len(list) : i \in 1..Len(new) /\ new[i] = list[i]
    /\ D!PlaceOf(new, x) \in 1..Len(new) /\ new[D!PlaceOf(new, x)] = x
    /\ \/ new = list
       \/ /\ new = Append(list, x) /\ new # list
          /\ Len(new) = Len(list) + 1 /\ D!PlaceOf(new, x) = Len(list) + 1

LEMMA PushedBack ==
    ASSUME NEW Elements, NEW list \in Seq(Elements), NEW x \in Elements
    PROVE  PushedAsNew(Elements, list, x, D!PushBackNew(list, x))
<1> DEFINE new == D!PushBackNew(list, x)
<1>1. CASE \E i \in DOMAIN list : list[i] = x
  <2>1. new = list
    BY <1>1 DEF D!PushBackNew
  <2>2. D!PlaceOf(new, x) \in DOMAIN list /\ list[D!PlaceOf(new, x)] = x
    BY <1>1, <2>1 DEF D!PlaceOf
  <2> QED
    BY <2>1, <2>2 DEF PushedAsNew
<1>2. CASE ~\E i \in DOMAIN list : list[i] = x
  <2>1. new = Append(list, x)
    BY <1>2 DEF D!PushBackNew
  <2>2. /\ new \in Seq(Elements) /\ Len(new) = Len(list) + 1 /\ DOMAIN new = 1..(Len(list) + 1)
        /\ \A i \in 1..Len(list) : new[i] = list[i]
        /\ new[Len(list) + 1] = x
    BY <2>1
  <2>3. Len(list) + 1 \in DOMAIN new
    BY <2>2
  <2>4. D!PlaceOf(new, x) \in DOMAIN new /\ new[D!PlaceOf(new, x)] = x
    BY <2>2, <2>3 DEF D!PlaceOf
  <2>5. D!PlaceOf(new, x) = Len(list) + 1
    BY <1>2, <2>2, <2>4
  <2> QED
    BY <2>1, <2>2, <2>4, <2>5 DEF PushedAsNew
<1> QED
  BY <1>1, <1>2

LEMMA LinkKeepsMatrix ==
    ASSUME NEW links, \A l \in links : Link(l), OneFlag(links),
           NEW m, MatrixOf(m, links), NEW link \in links
    PROVE  MatrixOf(D!LinkAdded(m, link), links)
<1> DEFINE sources == D!PushBackNew(m.sources, link.source)
           outputs == D!PushBackNew(m.sinks, link.sink)
           s == D!PlaceOf(sources, link.source)
           o == D!PlaceOf(outputs, link.sink)
           loopback == IF sources = m.sources THEN m.loopback ELSE Append(m.loopback, link.loopback)
           routes == Append(m.routes, [source |-> s, sink |-> o])
           all == Append(m.links, link)
<1> DEFINE Sources == {l.source : l \in links}
           Sinks == {l.sink : l \in links}
           Flags == {l.loopback : l \in links}
<1>1. /\ link.source \in Sources /\ link.sink \in Sinks /\ link.loopback \in Flags
      /\ link = [source |-> link.source, loopback |-> link.loopback, sink |-> link.sink]
  BY DEF Link
<1>2. /\ m.links \in Seq(links) /\ m.routes \in Seq([source: Nat, sink: Nat])
      /\ m.sources \in Seq(Sources) /\ m.sinks \in Seq(Sinks) /\ m.loopback \in Seq(Flags)
      /\ Len(m.routes) = Len(m.links) /\ Len(m.loopback) = Len(m.sources)
  BY DEF MatrixOf
<1> HIDE DEF Sources, Sinks, Flags
<1>3. /\ sources \in Seq(Sources)
      /\ \A i \in 1..Len(m.sources) : i \in 1..Len(sources) /\ sources[i] = m.sources[i]
      /\ s \in 1..Len(sources) /\ sources[s] = link.source
      /\ \/ sources = m.sources
         \/ /\ sources = Append(m.sources, link.source) /\ sources # m.sources
            /\ Len(sources) = Len(m.sources) + 1 /\ s = Len(m.sources) + 1
  <2>1. PushedAsNew(Sources, m.sources, link.source, sources)
    BY <1>1, <1>2, PushedBack
  <2> QED
    BY <2>1 DEF PushedAsNew
<1>4. /\ outputs \in Seq(Sinks)
      /\ \A i \in 1..Len(m.sinks) : i \in 1..Len(outputs) /\ outputs[i] = m.sinks[i]
      /\ o \in 1..Len(outputs) /\ outputs[o] = link.sink
  <2>1. PushedAsNew(Sinks, m.sinks, link.sink, outputs)
    BY <1>1, <1>2, PushedBack
  <2> QED
    BY <2>1 DEF PushedAsNew
<1> HIDE DEF s, o, outputs
<1>5. /\ loopback \in Seq(Flags) /\ Len(loopback) = Len(sources)
      /\ \A k \in 1..Len(m.sources) : loopback[k] = m.loopback[k]
      /\ \A k \in 1..Len(sources) :
            \E l \in links : l.source = sources[k] /\ l.loopback = loopback[k]
  <2>1. CASE sources = m.sources
    BY <1>2, <2>1 DEF MatrixOf
  <2>2. CASE /\ sources = Append(m.sources, link.source) /\ sources # m.sources
             /\ Len(sources) = Len(m.sources) + 1 /\ s = Len(m.sources) + 1
    <3>1. loopback = Append(m.loopback, link.loopback)
      BY <2>2
    <3> HIDE DEF loopback, sources
    <3>2. /\ loopback \in Seq(Flags) /\ Len(loopback) = Len(sources)
          /\ \A k \in 1..Len(m.sources) : loopback[k] = m.loopback[k]
          /\ loopback[Len(m.sources) + 1] = link.loopback
      BY <1>1, <1>2, <2>2, <3>1
    <3>3. ASSUME NEW k \in 1..Len(sources)
          PROVE  \E l \in links : l.source = sources[k] /\ l.loopback = loopback[k]
      <4>1. CASE k \in 1..Len(m.sources)
        BY <1>3, <3>2, <4>1 DEF MatrixOf
      <4>2. CASE k = Len(m.sources) + 1
        BY <1>3, <2>2, <3>2, <4>2
      <4> QED
        BY <1>2, <2>2, <4>1, <4>2
    <3> QED
      BY <3>2, <3>3
  <2> QED
    BY <1>3, <2>1, <2>2
<1> HIDE DEF sources, loopback
<1>6. loopback[s] = link.loopback
  <2>1. PICK l \in links : l.source = sources[s] /\ l.loopback = loopback[s]
    BY <1>3, <1>5
  <2> QED
    BY <1>3, <2>1 DEF OneFlag
<1>7. /\ all \in Seq(links) /\ routes \in Seq([source: Nat, sink: Nat])
      /\ Len(all) = Len(m.links) + 1 /\ Len(routes) = Len(all)
      /\ \A i \in 1..Len(m.links) : all[i] = m.links[i] /\ routes[i] = m.routes[i]
      /\ all[Len(m.links) + 1] = link /\ routes[Len(m.links) + 1] = [source |-> s, sink |-> o]
  BY <1>2, <1>3, <1>4
<1> HIDE DEF all, routes
<1>8. ASSUME NEW i \in 1..Len(all)
      PROVE  /\ routes[i].source \in 1..Len(sources) /\ routes[i].sink \in 1..Len(outputs)
             /\ all[i] = [source |-> sources[routes[i].source],
                          loopback |-> loopback[routes[i].source],
                          sink |-> outputs[routes[i].sink]]
  <2>1. CASE i \in 1..Len(m.links)
    <3>1. /\ m.routes[i].source \in 1..Len(m.sources) /\ m.routes[i].sink \in 1..Len(m.sinks)
          /\ m.links[i] = [source |-> m.sources[m.routes[i].source],
                           loopback |-> m.loopback[m.routes[i].source],
                           sink |-> m.sinks[m.routes[i].sink]]
      BY <2>1 DEF MatrixOf
    <3>2. routes[i] = m.routes[i] /\ all[i] = m.links[i]
      BY <1>7, <2>1
    <3>3. /\ m.routes[i].source \in 1..Len(sources) /\ m.routes[i].sink \in 1..Len(outputs)
          /\ sources[m.routes[i].source] = m.sources[m.routes[i].source]
          /\ outputs[m.routes[i].sink] = m.sinks[m.routes[i].sink]
          /\ loopback[m.routes[i].source] = m.loopback[m.routes[i].source]
      BY <1>3, <1>4, <1>5, <3>1
    <3> QED
      BY <3>1, <3>2, <3>3
  <2>2. CASE i = Len(m.links) + 1
    BY <1>1, <1>3, <1>4, <1>6, <1>7, <2>2
  <2> QED
    BY <1>2, <1>7, <2>1, <2>2
<1>9. D!LinkAdded(m, link) =
          [links |-> all, sources |-> sources, sinks |-> outputs, loopback |-> loopback, routes |-> routes]
  BY DEF D!LinkAdded, all, sources, outputs, loopback, routes, s, o
<1> QED
  BY <1>3, <1>4, <1>5, <1>7, <1>8, <1>9 DEF MatrixOf, Sources, Sinks, Flags

LEMMA OfferedAreLinks == ASSUME NEW link \in D!Offered PROVE Link(link)
BY DEF D!Offered, Link

LEMMA DeviceInvStep == DeviceInv /\ [D!Next]_(D!vars) => DeviceInv'
<1> SUFFICES ASSUME DeviceInv, [D!Next]_(D!vars) PROVE MatrixInv'
  BY ListInvStep DEF DeviceInv
<1>1. ASSUME NEW link \in D!Offered, D!AddLink(link) PROVE MatrixInv'
  <2>1. /\ step = "done" /\ page' = page
        /\ matrix' = D!LinkAdded(matrix, link)
    BY <1>1 DEF D!AddLink
  <2>2. D!Offered' = D!Offered
    BY <2>1 DEF D!Offered
  <2>3. MatrixOf(D!LinkAdded(matrix, link), D!Offered)
    BY <2>1, LinkKeepsMatrix, OfferedAreLinks, OfferedOneFlag DEF DeviceInv, MatrixInv
  <2> QED
    BY <2>1, <2>2, <2>3 DEF MatrixInv
<1>2. CASE D!DevicesJson
  <2>1. matrix' = D!NoMatrix
    BY <1>2 DEF D!DevicesJson, DeviceInv, ListInv
  <2>2. MatrixOf(D!NoMatrix, D!Offered')
    BY DEF MatrixOf, D!NoMatrix
  <2> QED
    BY <2>1, <2>2 DEF MatrixInv
<1>3. CASE step' # "done"
  BY <1>3 DEF MatrixInv
<1>4. CASE UNCHANGED <<step, page, matrix>>
  <2>1. D!Offered' = D!Offered
    BY <1>4 DEF D!Offered
  <2> QED
    BY <1>4, <2>1 DEF DeviceInv, MatrixInv
<1> QED
  BY <1>1, <1>2, <1>3, <1>4 DEF D!Next, D!Move, D!ListCaptures, D!ListPlaybacks, D!vars

\* Of the devices listed, and the matrix made of them.
THEOREM DeviceInvariant == D!Spec => []DeviceInv
<1>1. D!Init => DeviceInv
  BY DEF D!Init, DeviceInv, ListInv, MatrixInv
<1> QED
  BY <1>1, DeviceInvStep, PTL DEF D!Spec

\* Each endpoint is presented exactly once, whatever is plugged or unplugged between
\* the enumerations of one answer (audio_backend.cpp:92-94), but for a capture of
\* another system than WASAPI that shares its device with a sink, as ALSA's do.
THEOREM EndpointsAreListedOnce == D!Spec => []EachEndpointOnce
<1>1. DeviceInv => EachEndpointOnce
  BY OnceFromList DEF DeviceInv
<1> QED
  BY <1>1, DeviceInvariant, PTL

\* No offered link sends what a device plays back to it (main.ts:370) when
\* list_sources can tell which playback the capture mirrors.
THEOREM NoLinkFeedsBack == D!Spec => []NoFeedback
<1>1. DeviceInv => NoFeedback
  BY NoFeedbackFromList DEF DeviceInv
<1> QED
  BY <1>1, DeviceInvariant, PTL

\* The matrix plays exactly the links selected (web_server.cpp:616-629).
THEOREM LinksAreKept == D!Spec => []MatrixKeepsLinks
<1>1. DeviceInv => MatrixKeepsLinks
  <2>1. ASSUME DeviceInv, step = "done" PROVE MatrixKeepsLinks
    <3>1. MatrixOf(matrix, D!Offered)
      BY <2>1 DEF DeviceInv, MatrixInv
    <3>2. DOMAIN matrix.links = 1..Len(matrix.links)
      BY <3>1 DEF MatrixOf
    <3> QED
      BY <3>1, <3>2 DEF MatrixOf, MatrixKeepsLinks, D!MatrixKeepsLinks
  <2>2. CASE step # "done"
    BY <2>2 DEF DeviceInv, ListInv, D!NoMatrix, MatrixKeepsLinks, D!MatrixKeepsLinks
  <2> QED
    BY <2>1, <2>2
<1> QED
  BY <1>1, DeviceInvariant, PTL

------------------------------------------------------------------------------
(* PairedRoutes: what PairedRoutes_proofs shows holds of this instance.    *)

P == INSTANCE PairedRoutes_proofs

LEMMA SameAssumption == P!PairedAssumption
BY StoresAssumption DEF R!PairedAssumption, P!PairedAssumption, R!Call, P!Call,
   R!Kinds, P!Kinds, R!Ports, P!Ports

LEMMA SameBegin ==
    ASSUME NEW n \in Nodes, NEW kind, NEW with, R!Begin(n, kind, with)
    PROVE  P!Begin(n, kind, with)
BY DEF R!Begin, P!Begin, R!Free, P!Free, R!MediaPort, P!MediaPort, R!Ask, P!Ask,
   R!Counterpart, P!Counterpart, R!Single, P!Single, R!SetToBag, P!SetToBag, R!(+), P!(+),
   R!Room, P!Room, R!BagCardinality, P!BagCardinality

LEMMA SameWebThread == ASSUME NEW n \in Nodes, R!WebThread(n) PROVE P!WebThread(n)
<1>1. ASSUME NEW m \in Nodes, NEW kind \in R!Directions, R!PairedRoute(n, kind, m)
      PROVE  P!PairedRoute(n, kind, m)
  BY <1>1, SameBegin DEF R!PairedRoute, P!PairedRoute
<1>2. ASSUME NEW with, R!PairedMixer(n, with) PROVE P!PairedMixer(n, with)
  BY <1>2, SameBegin DEF R!PairedMixer, P!PairedMixer
<1>3. R!AskNext(n) => P!AskNext(n)
  BY DEF R!AskNext, P!AskNext, R!Granted, P!Granted, R!MoreToAsk, P!MoreToAsk, R!Agreed, P!Agreed,
     R!Free, P!Free, R!MediaPort, P!MediaPort, R!Ask, P!Ask, R!Counterpart, P!Counterpart,
     R!Single, P!Single, R!SetToBag, P!SetToBag, R!(+), P!(+),
     R!Room, P!Room, R!BagCardinality, P!BagCardinality
<1>4. R!Finish(n) => P!Finish(n)
  BY DEF R!Finish, P!Finish, R!Granted, P!Granted, R!MoreToAsk, P!MoreToAsk, R!Agreed, P!Agreed,
     R!Free, P!Free, R!AddLeg, P!AddLeg, R!LocalPorts, P!LocalPorts, R!MayFail, P!MayFail
<1>5. R!GiveUp(n) => P!GiveUp(n)
  BY DEF R!GiveUp, P!GiveUp, R!Free, P!Free
<1>6. R!Disconnect(n) => P!Disconnect(n)
  BY DEF R!Disconnect, P!Disconnect, R!BagToSet, P!BagToSet, R!Single, P!Single,
     R!SetToBag, P!SetToBag, R!(+), P!(+), R!(-), P!(-)
<1> QED
  BY <1>1, <1>2, <1>3, <1>4, <1>5, <1>6
  DEF R!WebThread, P!WebThread, R!Directions, P!Directions, R!BoundedSeq, P!BoundedSeq, R!SeqOf, P!SeqOf

LEMMA SameWorker ==
    ASSUME NEW post
    PROVE  (R!HandleRoute(post) => P!HandleRoute(post)) /\ (R!Lose(post) => P!Lose(post))
BY DEF R!HandleRoute, P!HandleRoute, R!Lose, P!Lose, R!Ready, P!Ready, R!AddLeg, P!AddLeg,
   R!MayFail, P!MayFail, R!Replied, P!Replied, R!Single, P!Single, R!SetToBag, P!SetToBag,
   R!(-), P!(-)

LEMMA SameSpec == R!Spec => P!Spec
<1>1. R!Init => P!Init
  BY DEF R!Init, P!Init, R!EmptyBag, P!EmptyBag, R!SetToBag, P!SetToBag
<1>2. R!Next => P!Next
  BY SameWebThread, SameWorker DEF R!Next, P!Next, R!BagToSet, P!BagToSet
<1>3. [R!Next]_(R!vars) => [P!Next]_(P!vars)
  BY <1>2 DEF R!vars, P!vars
<1> QED
  BY <1>1, <1>3, PTL DEF R!Spec, P!Spec

\* The sources of a mixer are received on different ports, unless PortRange ids or
\* more are drawn while they are asked for one by one (web_server.cpp:539-557).
THEOREM MixersKeepApart == R!Spec => []MixerPortsDiffer
<1>1. P!Spec => []P!MixerPortsDiffer
  BY SameAssumption, P!MixersPortsDiffer
<1>2. P!MixerPortsDiffer => MixerPortsDiffer
  BY DEF P!MixerPortsDiffer, R!MixerPortsDiffer, MixerPortsDiffer
<1> QED
  BY <1>1, <1>2, SameSpec, PTL

\* A request ends with a leg only if every computer it asked granted the port of that
\* leg (web_server.cpp:576).
THEOREM LegsWereGranted == R!Spec => LegsAreGranted
<1>1. P!Spec => P!LegsAreGranted
  BY SameAssumption, P!LegsWereGranted
<1>2. P!LegsAreGranted => LegsAreGranted
  BY PTL DEF P!LegsAreGranted, R!LegsAreGranted, LegsAreGranted, R!Free, P!Free, R!Ask, P!Ask,
     R!Counterpart, P!Counterpart, R!vars, P!vars
<1> QED
  BY <1>1, <1>2, SameSpec, PTL
=============================================================================
