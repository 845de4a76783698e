--------------------------- MODULE ResourcesProofs ---------------------------
(***************************************************************************)
(* The reference count of a connection is the number of its holders, and   *)
(* consumers close what they read through any chain of mapped streams, for *)
(* any number of connections and streams and any program.                  *)
(***************************************************************************)
EXTENDS Resources, FiniteSetTheorems, TLAPS

(* A connection that was never opened is held by nobody.                    *)
Unopened ==
  \A c \in Connections : conn[c].db = "none" => conn[c].refs = 0 /\ Holders(c) = {}

IInv == TypeOK /\ RefsCountHolders /\ Unopened

Share(c) == IF conn[c].closed THEN 0 ELSE 1

(* What Release does to a state with a reference left.                      *)
LEMMA ReleaseDrops ==
  ASSUME NEW state \in [db : {"none", "open", "gone"}, closed : BOOLEAN, refs : Nat],
         state.refs > 0
  PROVE  /\ Release(state).refs = state.refs - 1
         /\ Release(state).closed = state.closed
         /\ Release(state).db = IF state.refs = 1 THEN "gone" ELSE state.db
         /\ Release(state) \in [db : {"none", "open", "gone"}, closed : BOOLEAN, refs : Nat]
<1>1. state.refs \in Nat /\ state.db \in {"none", "open", "gone"} /\ state.closed \in BOOLEAN
  OBVIOUS
<1>2. Release(state) = [db |-> IF state.refs = 1 THEN "gone" ELSE state.db,
                        closed |-> state.closed, refs |-> state.refs - 1]
  BY <1>1 DEF Release
<1>3. state.refs - 1 \in Nat
  BY <1>1
<1> QED
  BY <1>1, <1>2, <1>3

(* Holders of a connection are finitely many.                               *)
LEMMA HoldersFinite ==
  ASSUME NEW c
  PROVE  IsFiniteSet(Holders(c)) /\ Cardinality(Holders(c)) \in Nat
  <1>1. Holders(c) \subseteq RowStreams
    BY DEF Holders
  <1>2. IsFiniteSet(Holders(c))
    BY <1>1, ResourcesAssumption, FS_Subset DEF ResourcesAssumption
  <1> QED
    BY <1>2, FS_CardinalityType

(* A row stream that has not ended is one of the holders of its connection. *)
LEMMA StreamIsHolder ==
  ASSUME TypeOK, NEW r \in RowStreams, ~Fresh(r), ~rows[r].finalized
  PROVE  /\ rows[r].connection \in Connections
         /\ r \in Holders(rows[r].connection)
         /\ Cardinality(Holders(rows[r].connection)) >= 1
         /\ Cardinality(Holders(rows[r].connection) \ {r})
              = Cardinality(Holders(rows[r].connection)) - 1
  <1>1. rows[r].connection \in Connections /\ r \in Holders(rows[r].connection)
    BY DEF TypeOK, Fresh, Holders
  <1>2. IsFiniteSet(Holders(rows[r].connection))
    BY HoldersFinite
  <1>3. Cardinality(Holders(rows[r].connection) \ {r})
          = Cardinality(Holders(rows[r].connection)) - 1
    BY <1>1, <1>2, FS_RemoveElement
  <1>4. Cardinality(Holders(rows[r].connection) \ {r}) \in Nat
    BY <1>2, FS_RemoveElement, FS_CardinalityType
  <1> QED
    BY <1>1, <1>2, <1>3, <1>4, HoldersFinite

(* Closing a row stream keeps the invariant, whichever stream it is and     *)
(* however its statement ended.                                             *)
LEMMA ClosingRowsKeepsCounts ==
  ASSUME IInv, NEW r \in RowStreams, NEW statement, CloseRows(r, statement)
  PROVE  IInv'
<1>1. CASE Fresh(r) \/ rows[r].finalized
  BY <1>1 DEF CloseRows, IInv, TypeOK, RefsCountHolders, Unopened, Holders
<1>2. CASE ~(Fresh(r) \/ rows[r].finalized)
  <2>0. PICK k \in Connections : k = rows[r].connection
    BY <1>2, StreamIsHolder DEF IInv
  <2>1. /\ conn' = [conn EXCEPT ![k] = Release(@)]
        /\ rows' = [rows EXCEPT ![r].statement = "none", ![r].finalized = TRUE]
    BY <1>2, <2>0 DEF CloseRows
  <2>2. k \in Connections /\ r \in Holders(k) /\ Cardinality(Holders(k)) >= 1
    BY <1>2, <2>0, StreamIsHolder DEF IInv
  <2>3. Cardinality(Holders(k) \ {r}) = Cardinality(Holders(k)) - 1
    BY <1>2, <2>0, StreamIsHolder DEF IInv
  <2>4. Cardinality(Holders(k)) \in Nat
    BY HoldersFinite
  <2>5. conn[k] \in [db : {"none", "open", "gone"}, closed : BOOLEAN, refs : Nat]
    BY <2>2 DEF IInv, TypeOK
  <2>6. conn[k].db # "none"
    BY <2>2 DEF IInv, Unopened
  <2>7. conn[k].refs = Share(k) + Cardinality(Holders(k)) /\ (conn[k].db = "open" <=> conn[k].refs > 0)
    BY <2>2, <2>6 DEF IInv, RefsCountHolders, Share
  <2>8. Share(k) \in Nat
    BY DEF Share
  <2>9. conn[k].refs > 0
    BY <2>2, <2>4, <2>7, <2>8
  <2>10. /\ conn'[k].refs = conn[k].refs - 1 /\ conn'[k].closed = conn[k].closed
         /\ conn'[k].db = IF conn[k].refs = 1 THEN "gone" ELSE conn[k].db
         /\ conn'[k] \in [db : {"none", "open", "gone"}, closed : BOOLEAN, refs : Nat]
    <3>1. conn'[k] = Release(conn[k])
      BY <2>1, <2>2 DEF IInv, TypeOK
    <3> QED
      BY <3>1, <2>5, <2>9, ReleaseDrops
  <2>11. \A c \in Connections : c # k => conn'[c] = conn[c]
    BY <2>1 DEF IInv, TypeOK
  <2>12. \A q \in RowStreams : /\ q # r => rows'[q] = rows[q]
                               /\ rows'[q].connection = rows[q].connection
    BY <2>1 DEF IInv, TypeOK
  <2>13. rows'[r].finalized
    BY <2>1 DEF IInv, TypeOK
  <2>14. Holders(k)' = Holders(k) \ {r}
    BY <2>0, <2>12, <2>13 DEF Holders
  <2>15. \A c \in Connections : c # k => Holders(c)' = Holders(c)
    BY <2>0, <2>2, <2>12, <2>13 DEF Holders
  <2>16. TypeOK'
    <3>1. conn' \in [Connections -> [db : {"none", "open", "gone"}, closed : BOOLEAN, refs : Nat]]
      BY <2>1, <2>2, <2>10, <2>11 DEF IInv, TypeOK
    <3>2. rows' \in [RowStreams -> [connection : Connections \cup {NoConnection},
                                    statement : {"none", "live"}, finalized : BOOLEAN]]
      BY <2>1 DEF IInv, TypeOK
    <3> QED
      BY <3>1, <3>2 DEF TypeOK
  <2>17. RefsCountHolders'
    <3>1. SUFFICES ASSUME NEW c \in Connections, conn'[c].db # "none"
                   PROVE  /\ conn'[c].refs = Share(c)' + Cardinality(Holders(c)')
                          /\ conn'[c].db = "open" <=> conn'[c].refs > 0
      BY DEF RefsCountHolders, Share
    <3>2. CASE c = k
      <4>1. Share(k)' = Share(k)
        BY <2>10 DEF Share
      <4>2. conn'[k].refs = conn[k].refs - 1
        BY <2>10
      <4>3. Cardinality(Holders(k)') = Cardinality(Holders(k)) - 1
        BY <2>3, <2>14
      <4>4. conn'[k].refs = Share(k)' + Cardinality(Holders(k)')
        BY <4>1, <4>2, <4>3, <2>4, <2>7, <2>8
      <4>5. conn[k].db = "open" /\ conn'[k].db = IF conn[k].refs = 1 THEN "gone" ELSE "open"
        BY <2>7, <2>9, <2>10
      <4>6. conn[k].refs \in Nat
        BY <2>5
      <4>7. conn'[k].db = "open" <=> conn'[k].refs > 0
        BY <4>2, <4>5, <4>6, <2>9
      <4> QED
        BY <3>2, <4>4, <4>7
    <3>3. CASE c # k
      <4>1. conn'[c] = conn[c] /\ Holders(c)' = Holders(c)
        BY <3>3, <2>11, <2>15
      <4> QED
        BY <3>1, <4>1 DEF IInv, RefsCountHolders, Share
    <3> QED
      BY <3>2, <3>3
  <2>18. Unopened'
    <3>1. SUFFICES ASSUME NEW c \in Connections, conn'[c].db = "none"
                   PROVE  conn'[c].refs = 0 /\ Holders(c)' = {}
      BY DEF Unopened
    <3>2. c # k
      BY <3>1, <2>6, <2>10
    <3> QED
      BY <3>1, <3>2, <2>11, <2>15 DEF IInv, Unopened
  <2> QED
    BY <2>16, <2>17, <2>18 DEF IInv
<1> QED
  BY <1>1, <1>2

LEMMA InitEstablishes == Init => IInv
<1> SUFFICES ASSUME Init PROVE IInv
  OBVIOUS
<1>1. TypeOK
  BY DEF Init, TypeOK
<1>2. \A c \in Connections : Holders(c) = {}
  BY ResourcesAssumption DEF Init, Holders, ResourcesAssumption
<1>3. RefsCountHolders
  BY DEF Init, RefsCountHolders
<1>4. Unopened
  BY <1>2 DEF Init, Unopened
<1> QED
  BY <1>1, <1>3, <1>4 DEF IInv

(* Opening gives a connection its first holder, the program.                *)
LEMMA OpenKeepsCounts ==
  ASSUME IInv, NEW c \in Connections, Open(c)
  PROVE  IInv'
<1>1. TypeOK'
  BY DEF IInv, TypeOK, Open
<1>2. \A d \in Connections : Holders(d)' = Holders(d)
  BY DEF Open, Holders
<1>3. \A d \in Connections : d # c => conn'[d] = conn[d]
  BY DEF Open, IInv, TypeOK
<1>4. conn'[c] = [db |-> "open", closed |-> FALSE, refs |-> 1]
  BY DEF Open, IInv, TypeOK
<1>5. Holders(c) = {}
  BY DEF Open, IInv, Unopened
<1>6. RefsCountHolders'
  <2>1. SUFFICES ASSUME NEW d \in Connections, conn'[d].db # "none"
                 PROVE  /\ conn'[d].refs = Share(d)' + Cardinality(Holders(d)')
                        /\ conn'[d].db = "open" <=> conn'[d].refs > 0
    BY DEF RefsCountHolders, Share
  <2>2. CASE d = c
    BY <2>2, <1>2, <1>4, <1>5, FS_EmptySet DEF Share
  <2>3. CASE d # c
    BY <2>1, <2>3, <1>2, <1>3 DEF IInv, RefsCountHolders, Share
  <2> QED
    BY <2>2, <2>3
<1>7. Unopened'
  BY <1>2, <1>3, <1>4 DEF IInv, Unopened
<1> QED
  BY <1>1, <1>6, <1>7 DEF IInv

(* Closing a connection takes the program's reference, and no other.        *)
LEMMA CloseConnectionKeepsCounts ==
  ASSUME IInv, NEW c \in Connections, CloseConnection(c)
  PROVE  IInv'
<1> DEFINE flagged == [conn[c] EXCEPT !.closed = TRUE]
<1>1. /\ conn[c].refs = 1 + Cardinality(Holders(c))
      /\ conn[c].db = "open" <=> conn[c].refs > 0
  BY DEF CloseConnection, IInv, RefsCountHolders
<1>2. Cardinality(Holders(c)) \in Nat
  BY HoldersFinite
<1>3. conn[c] \in [db : {"none", "open", "gone"}, closed : BOOLEAN, refs : Nat]
  BY DEF IInv, TypeOK
<1>4. /\ flagged \in [db : {"none", "open", "gone"}, closed : BOOLEAN, refs : Nat]
      /\ flagged.refs = conn[c].refs /\ flagged.db = conn[c].db /\ flagged.closed = TRUE
  BY <1>3
<1>5. flagged.refs > 0
  BY <1>1, <1>2, <1>4
<1>6. conn'[c] = Release(flagged)
  BY DEF CloseConnection, IInv, TypeOK
<1>7. /\ conn'[c].refs = conn[c].refs - 1 /\ conn'[c].closed = TRUE
      /\ conn'[c].db = IF conn[c].refs = 1 THEN "gone" ELSE conn[c].db
      /\ conn'[c] \in [db : {"none", "open", "gone"}, closed : BOOLEAN, refs : Nat]
  <2> HIDE DEF flagged
  <2> QED
    BY <1>4, <1>5, <1>6, ReleaseDrops
<1>8. \A d \in Connections : d # c => conn'[d] = conn[d]
  BY DEF CloseConnection, IInv, TypeOK
<1>9. \A d \in Connections : Holders(d)' = Holders(d)
  BY DEF CloseConnection, Holders
<1>10. TypeOK'
  <2>1. conn' = [conn EXCEPT ![c] = Release(flagged)] /\ rows' = rows
    BY DEF CloseConnection
  <2>2. conn' \in [Connections -> [db : {"none", "open", "gone"}, closed : BOOLEAN, refs : Nat]]
    <3> HIDE DEF flagged
    <3> QED
      BY <2>1, <1>6, <1>7 DEF IInv, TypeOK
  <2> QED
    BY <2>1, <2>2 DEF IInv, TypeOK
<1>11. RefsCountHolders'
  <2>1. SUFFICES ASSUME NEW d \in Connections, conn'[d].db # "none"
                 PROVE  /\ conn'[d].refs = Share(d)' + Cardinality(Holders(d)')
                        /\ conn'[d].db = "open" <=> conn'[d].refs > 0
    BY DEF RefsCountHolders, Share
  <2>2. CASE d = c
    <3>1. Share(c)' = 0
      BY <1>7 DEF Share
    <3>2. conn'[c].refs = Share(c)' + Cardinality(Holders(c)')
      BY <3>1, <1>1, <1>2, <1>7, <1>9
    <3>3. conn[c].db = "open" /\ conn[c].refs \in Nat
      BY <1>1, <1>2
    <3>4. conn'[c].db = "open" <=> conn'[c].refs > 0
      BY <3>3, <1>1, <1>2, <1>7
    <3> QED
      BY <2>2, <3>2, <3>4
  <2>3. CASE d # c
    BY <2>1, <2>3, <1>8, <1>9 DEF IInv, RefsCountHolders, Share
  <2> QED
    BY <2>2, <2>3
<1>12. Unopened'
  <2>1. conn'[c].db # "none"
    BY <1>7 DEF CloseConnection
  <2> QED
    BY <2>1, <1>8, <1>9 DEF IInv, Unopened
<1> QED
  BY <1>10, <1>11, <1>12 DEF IInv

(* A query adds a holder and a reference.                                   *)
LEMMA QueryKeepsCounts ==
  ASSUME IInv, NEW c \in Connections, NEW r \in RowStreams, NEW n \in Names, Query(c, r, n)
  PROVE  IInv'
<1>1. /\ conn' = [conn EXCEPT ![c] = Retain(@)]
      /\ rows' = [rows EXCEPT ![r] = [connection |-> c, statement |-> "live", finalized |-> FALSE]]
      /\ conn[c].db = "open" /\ ~conn[c].closed /\ rows[r].connection = NoConnection
  BY DEF Query, Usable, Fresh
<1>2. conn[c] \in [db : {"none", "open", "gone"}, closed : BOOLEAN, refs : Nat]
  BY DEF IInv, TypeOK
<1>3. /\ conn'[c].refs = conn[c].refs + 1 /\ conn'[c].closed = conn[c].closed
      /\ conn'[c].db = "open"
      /\ conn'[c] \in [db : {"none", "open", "gone"}, closed : BOOLEAN, refs : Nat]
  BY <1>1, <1>2 DEF IInv, TypeOK, Retain
<1>4. \A d \in Connections : d # c => conn'[d] = conn[d]
  BY <1>1 DEF IInv, TypeOK
<1>5. /\ \A q \in RowStreams : q # r => rows'[q] = rows[q]
      /\ rows'[r] = [connection |-> c, statement |-> "live", finalized |-> FALSE]
  BY <1>1 DEF IInv, TypeOK
<1>6. c # NoConnection
  BY ResourcesAssumption DEF ResourcesAssumption
<1>7. Holders(c)' = Holders(c) \cup {r} /\ r \notin Holders(c)
  BY <1>1, <1>5, <1>6 DEF Holders
<1>8. \A d \in Connections : d # c => Holders(d)' = Holders(d)
  <2>1. \A d \in Connections : d # NoConnection
    BY ResourcesAssumption DEF ResourcesAssumption
  <2> QED
    BY <2>1, <1>1, <1>5 DEF Holders
<1>9. Cardinality(Holders(c)') = Cardinality(Holders(c)) + 1 /\ Cardinality(Holders(c)) \in Nat
  BY <1>7, HoldersFinite, FS_AddElement
<1>10. TypeOK'
  BY <1>1, <1>3 DEF IInv, TypeOK
<1>11. RefsCountHolders'
  <2>1. SUFFICES ASSUME NEW d \in Connections, conn'[d].db # "none"
                 PROVE  /\ conn'[d].refs = Share(d)' + Cardinality(Holders(d)')
                        /\ conn'[d].db = "open" <=> conn'[d].refs > 0
    BY DEF RefsCountHolders, Share
  <2>2. CASE d = c
    <3>1. Share(c)' = Share(c) /\ Share(c) \in Nat
      BY <1>3 DEF Share
    <3>2. conn[c].refs = Share(c) + Cardinality(Holders(c))
      BY <1>1 DEF IInv, RefsCountHolders, Share
    <3> QED
      BY <2>2, <3>1, <3>2, <1>3, <1>9
  <2>3. CASE d # c
    BY <2>1, <2>3, <1>4, <1>8 DEF IInv, RefsCountHolders, Share
  <2> QED
    BY <2>2, <2>3
<1>12. Unopened'
  BY <1>3, <1>4, <1>8 DEF IInv, Unopened
<1> QED
  BY <1>10, <1>11, <1>12 DEF IInv

(* query_all gives back the reference it took.                              *)
LEMMA QueryAllKeepsCounts ==
  ASSUME IInv, NEW c \in Connections, NEW r \in RowStreams, QueryAll(c, r)
  PROVE  IInv'
<1>1. /\ conn' = [conn EXCEPT ![c] = Release(Retain(@))]
      /\ rows' = [rows EXCEPT ![r] = [connection |-> c, statement |-> "none", finalized |-> TRUE]]
      /\ conn[c].db = "open" /\ rows[r].connection = NoConnection
  BY DEF QueryAll, Usable, Fresh
<1>2. conn[c] \in [db : {"none", "open", "gone"}, closed : BOOLEAN, refs : Nat] /\ conn[c].refs > 0
  BY <1>1 DEF IInv, TypeOK, RefsCountHolders
<1>3. Release(Retain(conn[c])) = conn[c]
  <2>1. Retain(conn[c]).refs = conn[c].refs + 1 /\ Retain(conn[c]).db = conn[c].db
          /\ Retain(conn[c]).closed = conn[c].closed
    BY <1>2 DEF Retain
  <2>2. Retain(conn[c]).refs # 0 /\ Retain(conn[c]).refs # 1 /\ Retain(conn[c]).refs - 1 = conn[c].refs
    BY <2>1, <1>2
  <2>3. Release(Retain(conn[c]))
          = [db |-> conn[c].db, closed |-> conn[c].closed, refs |-> conn[c].refs]
    BY <2>1, <2>2 DEF Release
  <2> QED
    BY <2>3, <1>2
<1>4. conn' = conn
  BY <1>1, <1>3 DEF IInv, TypeOK
<1>5. /\ \A q \in RowStreams : q # r => rows'[q] = rows[q]
      /\ rows'[r].finalized
  BY <1>1 DEF IInv, TypeOK
<1>6. \A d \in Connections : Holders(d)' = Holders(d)
  <2>1. \A d \in Connections : d # NoConnection
    BY ResourcesAssumption DEF ResourcesAssumption
  <2> QED
    BY <2>1, <1>1, <1>5 DEF Holders
<1>7. TypeOK'
  BY <1>1, <1>4 DEF IInv, TypeOK
<1> QED
  BY <1>4, <1>6, <1>7 DEF IInv, RefsCountHolders, Unopened

(* A step that leaves connections and row streams alone.                    *)
LEMMA IdleKeepsCounts ==
  ASSUME IInv, UNCHANGED <<conn, rows>>
  PROVE  IInv'
  BY DEF IInv, TypeOK, RefsCountHolders, Unopened, Holders

(* A consumer ends at most one row stream, and changes nothing else that    *)
(* the count depends on.                                                    *)
LEMMA ConsumeKeepsCounts ==
  ASSUME IInv, NEW n, NEW reading, NEW statement, NEW closing,
         Consume(n, reading, statement, closing)
  PROVE  IInv'
<1>1. \/ \E r \in RowStreams : CloseRows(r, statement)
      \/ UNCHANGED <<conn, rows>>
  BY DEF Consume
<1> QED
  BY <1>1, ClosingRowsKeepsCounts, IdleKeepsCounts

LEMMA NextKeepsCounts == IInv /\ [Next]_vars => IInv'
<1> SUFFICES ASSUME IInv, [Next]_vars PROVE IInv'
  OBVIOUS
<1>1. CASE UNCHANGED vars
  BY <1>1, IdleKeepsCounts DEF vars
<1>2. ASSUME NEW c \in Connections, Open(c) \/ CloseConnection(c) PROVE IInv'
  BY <1>2, OpenKeepsCounts, CloseConnectionKeepsCounts
<1>3. ASSUME NEW c \in Connections, NEW r \in RowStreams,
             QueryAll(c, r) \/ \E n \in Names : Query(c, r, n)
      PROVE  IInv'
  BY <1>3, QueryAllKeepsCounts, QueryKeepsCounts
<1>4. ASSUME NEW n \in Names,
             \/ \E f \in FileStreams : OpenFile(f, n)
             \/ \E to \in Names : Copy(n, to) \/ \E m \in Maps : Map(n, m, to)
             \/ UseFile(n)
      PROVE  IInv'
  <2>1. UNCHANGED <<conn, rows>>
    BY <1>4 DEF OpenFile, Copy, Map, UseFile
  <2> QED
    BY <2>1, IdleKeepsCounts
<1>5. ASSUME NEW n \in Names, ToSeq(n) \/ Drain(n) \/ CloseStream(n) PROVE IInv'
  BY <1>5, ConsumeKeepsCounts DEF ToSeq, Drain, CloseStream
<1> QED
  BY <1>1, <1>2, <1>3, <1>4, <1>5 DEF Next

(* fa_sqlite_retain and fa_sqlite_release keep the count exact: a database  *)
(* is open as long as the program or a row stream holds it, and no longer.  *)
THEOREM CountsAreExact == Spec => []RefsCountHolders
<1>1. IInv => RefsCountHolders
  BY DEF IInv
<1> QED
  BY <1>1, InitEstablishes, NextKeepsCounts, PTL DEF Spec

-----------------------------------------------------------------------------
(* Streams and what is below them.                                         *)

Values == [stream : Streams \cup {NoStream}, closed : BOOLEAN]
Up(m)  == maps[m].upstream.stream

(* The types of the other variables; what has no stream is not bound.       *)
StreamTypes ==
  /\ backend \in {"c", "llvm"}
  /\ files \in [FileStreams -> {"none", "open", "freed"}]
  /\ maps \in [Maps -> [upstream : Values, closed : BOOLEAN]]
  /\ names \in [Names -> Values]
  /\ \A n \in Names : names[n].stream = NoStream => names[n] = Unbound
  /\ \A m \in Maps : Up(m) = NoStream => maps[m].upstream = Unbound

(* Values are of streams that were made.                                    *)
Made(s) ==
  \/ s \in RowStreams /\ ~Fresh(s)
  \/ s \in FileStreams /\ files[s] # "none"
  \/ s \in Mapped
References ==
  /\ \A n \in Names : names[n] # Unbound => Made(names[n].stream)
  /\ \A m \in Mapped : Made(Up(m))

(* A chain of mapped streams comes to an end, and so does a function that   *)
(* is computed along it: low says what it is at the end, step how it goes   *)
(* on.                                                                      *)
NoCycle == \A S \in SUBSET Mapped : (\A m \in S : Up(m) \in S) => S = {}
Follows(f, low, step) ==
  f = [s \in Streams |-> IF s \in Mapped THEN step[s][f[Up(s)]] ELSE low[s]]
Solvable ==
  \A D : \A low \in [Streams -> D], step \in [Streams -> [D -> D]] :
    \E f \in [Streams -> D] : Follows(f, low, step)

Chains == StreamTypes /\ References /\ NoCycle /\ Solvable

(* What a stream is tells what it is not.                                   *)
LEMMA KindsApart ==
  /\ RowStreams \cap FileStreams = {} /\ Maps \cap Sources = {}
  /\ NoStream \notin Streams /\ Streams = Sources \cup Maps
  /\ Sources = RowStreams \cup FileStreams /\ Mapped \subseteq Maps
BY ResourcesAssumption DEF ResourcesAssumption, Sources, Streams, Mapped

(* A stream that was made and is not a context is a source.                 *)
LEMMA MadeStreams ==
  ASSUME Chains
  PROVE  /\ \A s : Made(s) => s \in Streams
         /\ \A m \in Mapped : Made(Up(m)) /\ Up(m) \in Streams
         /\ \A m \in Maps \ Mapped : ~Made(m)
         /\ \A s : s \in Streams \ Mapped /\ Made(s) => s \in Sources
BY KindsApart DEF Chains, References, Made

(* Source, Reads and Closes are what their equations say of them: along     *)
(* chains that end there is a function that satisfies each.                 *)
LEMMA SourceUnfolds ==
  ASSUME Chains
  PROVE  \A s \in Streams : Source[s] = IF s \in Mapped THEN Source[Up(s)] ELSE s
<1> DEFINE low  == [s \in Streams |-> s]
           step == [s \in Streams |-> [x \in Streams |-> x]]
<1>1. PICK f \in [Streams -> Streams] : Follows(f, low, step)
  <2>1. low \in [Streams -> Streams] /\ step \in [Streams -> [Streams -> Streams]] OBVIOUS
  <2> HIDE DEF low, step
  <2> QED BY <2>1 DEF Chains, Solvable
<1>2. f = [s \in Streams |-> IF s \in Mapped THEN f[Up(s)] ELSE s]
  <2>1. \A s \in Streams : f[s] = IF s \in Mapped THEN f[Up(s)] ELSE s
    <3> SUFFICES ASSUME NEW s \in Streams PROVE f[s] = IF s \in Mapped THEN f[Up(s)] ELSE s
      OBVIOUS
    <3>1. f[s] = IF s \in Mapped THEN step[s][f[Up(s)]] ELSE low[s] BY <1>1 DEF Follows
    <3>2. s \in Mapped => f[Up(s)] \in Streams BY <1>1, MadeStreams
    <3> QED BY <3>1, <3>2
  <2> QED BY <2>1
<1>3. Source = [s \in Streams |-> IF s \in Mapped THEN Source[Up(s)] ELSE s]
  BY <1>2 DEF Source, Up
<1> QED BY <1>3

(* Where next of a C context stops.                                         *)
Cut(m) == backend = "c" /\ maps[m].closed

(* What next reaches.                                                       *)
LEMMA ReadsUnfolds ==
  ASSUME Chains
  PROVE  \A s \in Streams : Reads[s] = IF s \notin Mapped THEN s
                                       ELSE IF Cut(s) THEN NoStream ELSE Reads[Up(s)]
<1> DEFINE D    == Streams \cup {NoStream}
           low  == [s \in Streams |-> s]
           step == [s \in Streams |-> [x \in D |-> IF Cut(s) THEN NoStream ELSE x]]
<1>1. PICK f \in [Streams -> D] : Follows(f, low, step)
  <2>1. low \in [Streams -> D] /\ step \in [Streams -> [D -> D]] OBVIOUS
  <2> HIDE DEF low, step, D
  <2> QED BY <2>1 DEF Chains, Solvable
<1>2. \A s \in Streams : f[s] = IF s \notin Mapped THEN s
                                ELSE IF Cut(s) THEN NoStream ELSE f[Up(s)]
  <2> SUFFICES ASSUME NEW s \in Streams
               PROVE f[s] = IF s \notin Mapped THEN s ELSE IF Cut(s) THEN NoStream ELSE f[Up(s)]
    OBVIOUS
  <2>1. f[s] = IF s \in Mapped THEN step[s][f[Up(s)]] ELSE low[s] BY <1>1 DEF Follows
  <2>2. s \in Mapped => f[Up(s)] \in D BY <1>1, MadeStreams
  <2> QED BY <2>1, <2>2
<1>3. f = [s \in Streams |-> IF s \notin Mapped THEN s
                             ELSE IF Cut(s) THEN NoStream ELSE f[Up(s)]]
  BY <1>2
<1>4. Reads = [s \in Streams |-> IF s \notin Mapped THEN s
                                 ELSE IF Cut(s) THEN NoStream ELSE Reads[Up(s)]]
  BY <1>3 DEF Reads, Up, Cut
<1> QED BY <1>4

(* What close closes.                                                       *)
LEMMA ClosesUnfolds ==
  ASSUME Chains
  PROVE  \A s \in Streams :
           Closes[s] = IF s \notin Mapped THEN {s}
                       ELSE IF backend = "llvm" THEN {s} \cup Closes[Up(s)]
                       ELSE IF maps[s].closed THEN {}
                       ELSE IF maps[s].upstream.closed THEN {s}
                       ELSE {s} \cup Closes[Up(s)]
<1> DEFINE D == SUBSET Streams
           Next1(s, x) == IF backend = "llvm" THEN {s} \cup x
                          ELSE IF maps[s].closed THEN {}
                          ELSE IF maps[s].upstream.closed THEN {s}
                          ELSE {s} \cup x
           low  == [s \in Streams |-> {s}]
           step == [s \in Streams |-> [x \in D |-> Next1(s, x)]]
<1>1. PICK f \in [Streams -> D] : Follows(f, low, step)
  <2>1. low \in [Streams -> D] OBVIOUS
  <2>2. \A s \in Streams, x \in D : Next1(s, x) \in D OBVIOUS
  <2> HIDE DEF Next1
  <2>3. step \in [Streams -> [D -> D]] BY <2>2
  <2> HIDE DEF low, step, D
  <2> QED BY <2>1, <2>3 DEF Chains, Solvable
<1>2. \A s \in Streams : f[s] = IF s \notin Mapped THEN {s} ELSE Next1(s, f[Up(s)])
  <2> SUFFICES ASSUME NEW s \in Streams
               PROVE f[s] = IF s \notin Mapped THEN {s} ELSE Next1(s, f[Up(s)])
    OBVIOUS
  <2> HIDE DEF Next1
  <2>1. f[s] = IF s \in Mapped THEN step[s][f[Up(s)]] ELSE low[s] BY <1>1 DEF Follows
  <2>2. s \in Mapped => f[Up(s)] \in D BY <1>1, MadeStreams
  <2> QED BY <2>1, <2>2
<1>3. f = [s \in Streams |-> IF s \notin Mapped THEN {s} ELSE Next1(s, f[Up(s)])]
  <2> HIDE DEF Next1
  <2> QED BY <1>2
<1>4. Closes = [s \in Streams |-> IF s \notin Mapped THEN {s} ELSE Next1(s, Closes[Up(s)])]
  BY <1>3 DEF Closes, Up
<1> QED BY <1>4

(* What was closed through a value or in a context has ended.               *)
Ended(s) == IF s \in RowStreams THEN rows[s].finalized ELSE files[s] = "freed"
FlagsMean ==
  /\ \A n \in Names : names[n].closed => Ended(Source[names[n].stream])
  /\ \A m \in Mapped : maps[m].closed \/ maps[m].upstream.closed => Ended(Source[m])

(* The end of a chain, and what next and close do on the way to it.         *)
LEMMA AlongTheChain ==
  ASSUME Chains, FlagsMean, NEW s, Made(s)
  PROVE  /\ Source[s] \in Sources /\ Made(Source[s])
         /\ Reads[s] = Source[s] \/ (Reads[s] = NoStream /\ Ended(Source[s]))
         /\ Source[s] \in Closes[s] \/ Ended(Source[s])
         /\ \A x \in Closes[s] : Made(x) /\ Source[x] = Source[s]
<1> DEFINE Fine(x) ==
      /\ Source[x] \in Sources /\ Made(Source[x])
      /\ Reads[x] = Source[x] \/ (Reads[x] = NoStream /\ Ended(Source[x]))
      /\ Source[x] \in Closes[x] \/ Ended(Source[x])
      /\ \A y \in Closes[x] : Made(y) /\ Source[y] = Source[x]
    Bad == {m \in Mapped : ~Fine(m)}
<1>1. ASSUME NEW x, Made(x), x \notin Mapped PROVE Fine(x)
  <2>1. x \in Streams /\ x \in Sources BY <1>1, MadeStreams
  <2>2. Source[x] = x /\ Reads[x] = x /\ Closes[x] = {x}
    BY <1>1, <2>1, SourceUnfolds, ReadsUnfolds, ClosesUnfolds
  <2> QED BY <1>1, <2>1, <2>2
<1>2. ASSUME NEW m \in Mapped, Fine(Up(m)) PROVE Fine(m)
  <2>1. m \in Streams /\ Made(m) /\ Up(m) \in Streams BY MadeStreams DEF Made
  <2>2. Source[m] = Source[Up(m)] BY <2>1, SourceUnfolds
  <2>3. Reads[m] = IF Cut(m) THEN NoStream ELSE Reads[Up(m)] BY <2>1, ReadsUnfolds
  <2>4. Closes[m] = {m} \cup Closes[Up(m)] \/
        ((maps[m].closed \/ maps[m].upstream.closed) /\ Closes[m] \in {{}, {m}})
    BY <2>1, ClosesUnfolds
  <2>5. maps[m].closed \/ maps[m].upstream.closed => Ended(Source[m]) BY DEF FlagsMean
  <2>6. Source[m] \in Sources /\ Made(Source[m]) BY <1>2, <2>2
  <2>7. Reads[m] = Source[m] \/ (Reads[m] = NoStream /\ Ended(Source[m]))
    BY <1>2, <2>2, <2>3, <2>5 DEF Cut
  <2>8. /\ Source[m] \in Closes[m] \/ Ended(Source[m])
        /\ \A y \in Closes[m] : Made(y) /\ Source[y] = Source[m]
    BY <1>2, <2>1, <2>2, <2>4, <2>5
  <2> QED BY <2>6, <2>7, <2>8
<1> HIDE DEF Fine
<1>3. Bad = {}
  <2>1. ASSUME NEW m \in Bad PROVE Up(m) \in Bad
    <3>1. Made(Up(m)) /\ ~Fine(Up(m)) BY <1>2, MadeStreams
    <3> QED BY <1>1, <3>1
  <2>2. Bad \in SUBSET Mapped OBVIOUS
  <2> HIDE DEF Bad
  <2> QED BY <2>1, <2>2 DEF Chains, NoCycle
<1>4. Fine(s)
  <2>1. CASE s \in Mapped BY <1>3, <2>1
  <2>2. CASE s \notin Mapped BY <1>1, <2>2
  <2> QED BY <2>1, <2>2
<1> QED BY <1>4 DEF Fine

(* The equation of Source, and the one of the state after a step.           *)
SourceEquation == \A s \in Streams : Source[s] = IF s \in Mapped THEN Source[Up(s)] ELSE s
LEMMA SourceSolves == Chains => SourceEquation
  BY SourceUnfolds DEF SourceEquation
LEMMA SourceSolvesNext == Chains' => SourceEquation'
  BY SourceSolves, PTL

(* A chain keeps its end.                                                   *)
LEMMA SourceKept ==
  ASSUME Chains, Chains',
         \A m \in Mapped : m \in Mapped' /\ Up(m)' = Up(m),
         NEW s, Made(s)
  PROVE  Source'[s] = Source[s]
<1> DEFINE Bad == {m \in Mapped : Source'[m] # Source[m]}
<1>1. \A x \in Streams : Source'[x] = IF x \in Mapped' THEN Source'[Up(x)'] ELSE x
  BY SourceSolvesNext DEF SourceEquation
<1>2. ASSUME NEW x \in Sources PROVE Source'[x] = Source[x]
  <2>1. x \in Streams /\ x \notin Maps BY KindsApart
  <2>2. x \notin Mapped /\ x \notin Mapped' BY <2>1 DEF Mapped
  <2> QED BY <1>1, <2>1, <2>2, SourceUnfolds
<1>3. Bad = {}
  <2>1. ASSUME NEW m \in Bad PROVE Up(m) \in Bad
    <3>1. /\ m \in Streams /\ m \in Mapped' /\ Up(m)' = Up(m) /\ Made(Up(m)) /\ Up(m) \in Streams
      BY MadeStreams, KindsApart
    <3>2. Source'[m] = Source'[Up(m)] /\ Source[m] = Source[Up(m)]
      BY <1>1, <3>1, SourceUnfolds
    <3>3. Up(m) \in Sources \/ Up(m) \in Mapped BY <3>1, MadeStreams
    <3> QED BY <1>2, <3>2, <3>3
  <2>2. Bad \in SUBSET Mapped OBVIOUS
  <2> HIDE DEF Bad
  <2> QED BY <2>1, <2>2 DEF Chains, NoCycle
<1>4. CASE s \in Mapped BY <1>3, <1>4
<1>5. CASE s \notin Mapped BY <1>2, <1>5, MadeStreams
<1> QED BY <1>4, <1>5

(* A step that makes no context keeps the chains.                           *)
LEMMA ChainsKept ==
  ASSUME Chains, StreamTypes', Mapped' = Mapped,
         \A m \in Mapped : Up(m)' = Up(m),
         \A s : Made(s) => Made(s)',
         \A n \in Names : (names[n] # Unbound => Made(names[n].stream))'
  PROVE  Chains'
<1>1. References'
  <2>1. ASSUME NEW m \in Mapped PROVE Made(Up(m))'
    <3>1. PICK s : s = Up(m) OBVIOUS
    <3>2. Made(s)' /\ Up(m)' = s BY <3>1 DEF Chains, References
    <3> QED BY <3>2 DEF Made
  <2> QED BY <2>1 DEF References
<1>2. NoCycle' BY DEF Chains, NoCycle
<1>3. Solvable'
  <2> SUFFICES ASSUME NEW D, NEW low \in [Streams -> D], NEW step \in [Streams -> [D -> D]]
               PROVE (\E f \in [Streams -> D] : Follows(f, low, step))'
    BY DEF Solvable
  <2>1. PICK f \in [Streams -> D] : Follows(f, low, step) BY DEF Chains, Solvable
  <2>2. \A s \in Streams : (IF s \in Mapped THEN step[s][f[Up(s)]] ELSE low[s])
                         = (IF s \in Mapped' THEN step[s][f[Up(s)']] ELSE low[s])
    OBVIOUS
  <2>3. Follows(f, low, step)' BY <2>1, <2>2 DEF Follows
  <2> QED BY <2>3
<1> QED BY <1>1, <1>2, <1>3 DEF Chains

(* A new context goes on from a stream that was there before it.            *)
LEMMA ChainsExtended ==
  ASSUME Chains, StreamTypes', References', NEW m \in Maps, m \notin Mapped,
         Mapped' = Mapped \cup {m}, \A x \in Mapped : Up(x)' = Up(x),
         Made(Up(m)')
  PROVE  Chains'
<1>1. /\ ~Made(m) /\ Up(m)' # m /\ Up(m)' \in Streams
      /\ \A x \in Mapped : Up(x) # m /\ Up(x) \in Streams
  BY MadeStreams
<1>2. NoCycle'
  <2> SUFFICES ASSUME NEW S \in SUBSET Mapped', \A x \in S : Up(x)' \in S PROVE S = {}
    BY DEF NoCycle
  <2>1. S \ {m} \in SUBSET Mapped /\ \A x \in S \ {m} : Up(x) \in S \ {m} BY <1>1
  <2>2. S \ {m} = {} BY <2>1 DEF Chains, NoCycle
  <2>3. m \notin S BY <1>1, <2>2
  <2> QED BY <2>2, <2>3
<1>3. Solvable'
  <2> SUFFICES ASSUME NEW D, NEW low \in [Streams -> D], NEW step \in [Streams -> [D -> D]]
               PROVE (\E f \in [Streams -> D] : Follows(f, low, step))'
    BY DEF Solvable
  <2>1. PICK f \in [Streams -> D] : Follows(f, low, step) BY DEF Chains, Solvable
  <2>2. \A s \in Streams : f[s] = IF s \in Mapped THEN step[s][f[Up(s)]] ELSE low[s]
    BY <2>1 DEF Follows
  <2>3. m \in Streams /\ step[m] \in [D -> D] /\ f[Up(m)'] \in D BY <1>1, KindsApart
  <2>4. PICK g \in [Streams -> D] : g = [f EXCEPT ![m] = step[m][f[Up(m)']]] BY <2>3
  <2>5. g[m] = step[m][f[Up(m)']] /\ \A s \in Streams : s # m => g[s] = f[s] BY <2>3, <2>4
  <2>6. \A s \in Streams : g[s] = IF s \in Mapped' THEN step[s][g[Up(s)']] ELSE low[s]
    <3> SUFFICES ASSUME NEW s \in Streams
                 PROVE g[s] = IF s \in Mapped' THEN step[s][g[Up(s)']] ELSE low[s]
      OBVIOUS
    <3>1. CASE s = m BY <3>1, <1>1, <2>5
    <3>2. CASE s # m /\ s \in Mapped
      <4>1. g[s] = step[s][f[Up(s)]] /\ Up(s)' = Up(s) BY <3>2, <2>2, <2>5
      <4>2. g[Up(s)] = f[Up(s)] BY <3>2, <1>1, <2>5
      <4> QED BY <3>2, <4>1, <4>2
    <3>3. CASE s # m /\ s \notin Mapped BY <3>3, <2>2, <2>5
    <3> QED BY <3>1, <3>2, <3>3
  <2>7. Follows(g, low, step)' BY <2>6 DEF Follows
  <2> QED BY <2>7
<1> QED BY <1>2, <1>3 DEF Chains

(* Sources stay made, those that ended stay so, and contexts keep their     *)
(* place.                                                                   *)
Grows ==
  /\ \A s \in Sources : Made(s) => (Made(s)' /\ (Ended(s) => Ended(s)'))
  /\ \A m \in Mapped : m \in Mapped' /\ Up(m)' = Up(m)

(* What was to be closed is; only consumers free a file; what was read      *)
(* after that is a source, and a closed connection was opened.              *)
SpentEnded == \A s \in spent : s \in Sources /\ Made(s) /\ Ended(s)
FreedSpent == \A f \in FileStreams : files[f] = "freed" => f \in spent
StaleMade  == StaleReadsAreReuses /\ \A s \in stale : s \in Sources /\ Made(s)
ClosedMade == \A c \in Connections : conn[c].closed => conn[c].db # "none"

(* Sources end and stay so; a flag says that its source did.                *)
StreamInv ==
  IInv /\ Chains /\ FlagsMean /\ SpentEnded /\ FreedSpent /\ StaleMade /\ ClosedMade

(* The source of a stream stays its source, and ended if it was.            *)
LEMMA EndsStay ==
  ASSUME Chains, FlagsMean, Chains', Grows, NEW s, Made(s)
  PROVE  /\ Source'[s] = Source[s]
         /\ Ended(Source[s]) => Ended(Source[s])'
<1>1. Source'[s] = Source[s] BY SourceKept DEF Grows
<1>2. Source[s] \in Sources /\ Made(Source[s]) BY AlongTheChain
<1> QED BY <1>1, <1>2 DEF Grows, Ended

(* Flags go from value to value with what they say.                         *)
LEMMA FlagsKept ==
  ASSUME Chains, FlagsMean, Chains', Grows,
         \A n \in Names : \/ ~names'[n].closed
                          \/ \E k \in Names : names'[n] = names[k] /\ names[k] # Unbound,
         \A m \in Mapped' : m \in Mapped /\ maps'[m] = maps[m]
  PROVE  FlagsMean'
<1>1. ASSUME NEW n \in Names, names'[n].closed PROVE Ended(Source[names[n].stream])'
  <2>1. PICK k \in Names : names'[n] = names[k] /\ names[k] # Unbound BY <1>1
  <2>2. Made(names[k].stream) /\ Ended(Source[names[k].stream])
    BY <1>1, <2>1 DEF Chains, References, FlagsMean
  <2>3. PICK s : s = names[k].stream OBVIOUS
  <2>4. Source'[s] = Source[s] /\ Ended(Source[s])' BY <2>2, <2>3, EndsStay
  <2> QED BY <2>1, <2>3, <2>4 DEF Ended
<1>2. ASSUME NEW m \in Mapped', maps'[m].closed \/ maps'[m].upstream.closed
      PROVE Ended(Source[m])'
  <2>1. m \in Mapped /\ Made(m) BY DEF Made
  <2>2. Ended(Source[m]) BY <1>2, <2>1 DEF FlagsMean
  <2> QED BY <2>1, <2>2, EndsStay
<1> QED BY <1>1, <1>2 DEF FlagsMean

(* A step that makes no context, closes nothing and copies values at most.  *)
Quiet ==
  /\ UNCHANGED <<backend, maps, spent, reused, stale>>
  /\ files' \in [FileStreams -> {"none", "open", "freed"}]
  /\ names' \in [Names -> Values]
  /\ \A s \in Sources : Made(s) => (Made(s)' /\ (Ended(s) => Ended(s)'))
  /\ \A n \in Names : \/ \E k \in Names : names'[n] = names[k]
                      \/ Made(names[n].stream)' /\ ~names'[n].closed
  /\ \A f \in FileStreams : files'[f] = "freed" => files[f] = "freed"
  /\ \A r \in RowStreams : ~Fresh(r) => rows'[r].connection = rows[r].connection
  /\ \A c \in Connections : /\ conn[c].closed => conn'[c].closed
                            /\ conn'[c].closed => conn'[c].db # "none"

(* What no step takes back.                                                 *)
LEMMA RestKept ==
  ASSUME StreamInv, IInv', Chains', FlagsMean', Grows,
         UNCHANGED <<spent, reused, stale>>,
         \A f \in FileStreams : files'[f] = "freed" => files[f] = "freed",
         \A r \in RowStreams : ~Fresh(r) => rows'[r].connection = rows[r].connection,
         \A c \in Connections : /\ conn[c].closed => conn'[c].closed
                                /\ conn'[c].closed => conn'[c].db # "none"
  PROVE  StreamInv'
<1>1. SpentEnded' BY DEF StreamInv, SpentEnded, Grows
<1>2. FreedSpent' BY DEF StreamInv, FreedSpent
<1>3. StaleMade'
  <2>1. \A s \in stale : s \in Sources /\ Made(s)' BY DEF StreamInv, StaleMade, Grows
  <2>2. ASSUME NEW s \in stale, s \in RowStreams PROVE Held(s)'.closed
    <3>1. Made(s) /\ Held(s).closed BY <2>2 DEF StreamInv, StaleMade, StaleReadsAreReuses
    <3>2. ~Fresh(s) BY <2>2, <3>1, KindsApart DEF Made
    <3>3. rows'[s].connection = rows[s].connection /\ rows[s].connection \in Connections
      BY <2>2, <3>2 DEF StreamInv, IInv, TypeOK, Fresh
    <3> QED BY <3>1, <3>3 DEF Held
  <2> QED BY <2>1, <2>2 DEF StreamInv, StaleMade, StaleReadsAreReuses
<1>4. ClosedMade' BY DEF ClosedMade
<1> QED BY <1>1, <1>2, <1>3, <1>4 DEF StreamInv

(* Such a step keeps the invariant.                                         *)
LEMMA QuietKeepsStreams ==
  ASSUME StreamInv, IInv', Quiet
  PROVE  StreamInv'
<1>1. Mapped' = Mapped /\ \A m \in Maps : Up(m)' = Up(m) BY DEF Quiet, Mapped, Up
<1>2. \A s : Made(s) => Made(s)'
  <2>1. \A s : Made(s) => s \in Sources \/ s \in Mapped BY MadeStreams DEF StreamInv
  <2> QED BY <1>1, <2>1 DEF Quiet, Made
<1>3. ASSUME NEW n \in Names
      PROVE  /\ (names[n] # Unbound => Made(names[n].stream))'
             /\ (names[n].stream = NoStream => names[n] = Unbound)'
  <2>1. CASE \E k \in Names : names'[n] = names[k]
    <3>1. PICK k \in Names : names'[n] = names[k] BY <2>1
    <3>2. PICK s : s = names[k].stream OBVIOUS
    <3>3. names[k] # Unbound => Made(s)'
      BY <1>2, <3>2 DEF StreamInv, Chains, References
    <3>4. names[k].stream = NoStream => names[k] = Unbound
      BY DEF StreamInv, Chains, StreamTypes
    <3> QED BY <3>1, <3>2, <3>3, <3>4 DEF Made, Unbound
  <2>2. CASE Made(names[n].stream)'
    <3>1. names'[n].stream # NoStream BY <2>2, KindsApart DEF Made, Mapped
    <3> QED BY <2>2, <3>1
  <2> QED BY <2>1, <2>2 DEF Quiet
<1>4. StreamTypes'
  BY <1>3 DEF StreamInv, Chains, StreamTypes, Quiet, Up, Unbound, Values, Streams, Sources
<1>5. Chains'
  <2>1. \A n \in Names : (names[n] # Unbound => Made(names[n].stream))' BY <1>3
  <2>2. \A m \in Mapped : Up(m)' = Up(m) BY <1>1, KindsApart
  <2> QED BY <1>1, <1>2, <1>4, <2>1, <2>2, ChainsKept DEF StreamInv
<1>6. Grows BY <1>1, KindsApart DEF Grows, Quiet
<1>7. FlagsMean'
  <2>1. ASSUME NEW n \in Names
        PROVE  \/ ~names'[n].closed
               \/ \E k \in Names : names'[n] = names[k] /\ names[k] # Unbound
    BY DEF Quiet, Unbound
  <2>2. \A m \in Mapped' : m \in Mapped /\ maps'[m] = maps[m] BY <1>1 DEF Quiet
  <2> QED BY <1>5, <1>6, <2>1, <2>2, FlagsKept DEF StreamInv
<1> QED BY <1>5, <1>6, <1>7, RestKept DEF Quiet

(* Opening and closing a connection end no stream.                          *)
LEMMA ConnectionStepsKeepStreams ==
  ASSUME StreamInv, IInv', NEW c \in Connections, Open(c) \/ CloseConnection(c)
  PROVE  StreamInv'
<1>1. UNCHANGED <<backend, rows, files, maps, names, spent, reused, stale>>
  BY DEF Open, CloseConnection
<1>2. \A d \in Connections : /\ conn[d].closed => conn'[d].closed
                             /\ conn'[d].closed => conn'[d].db # "none"
  <2>1. CASE Open(c)
    BY <2>1 DEF Open, StreamInv, IInv, TypeOK, ClosedMade
  <2>2. CASE CloseConnection(c)
    <3> DEFINE flagged == [conn[c] EXCEPT !.closed = TRUE]
    <3>1. flagged.db = conn[c].db /\ conn[c].db # "none" /\ flagged.closed
      BY <2>2 DEF CloseConnection, StreamInv, IInv, TypeOK
    <3>2. conn' = [conn EXCEPT ![c] = Release(flagged)] BY <2>2 DEF CloseConnection
    <3>3. Release(flagged).closed /\ Release(flagged).db # "none"
      <4> HIDE DEF flagged
      <4> QED BY <3>1 DEF Release
    <3> HIDE DEF flagged
    <3>4. conn'[c] = Release(flagged) /\ \A d \in Connections : d # c => conn'[d] = conn[d]
      BY <3>2 DEF StreamInv, IInv, TypeOK
    <3> QED BY <3>3, <3>4 DEF StreamInv, ClosedMade
  <2> QED BY <2>1, <2>2
<1>3. Quiet
  BY <1>1, <1>2 DEF Quiet, Made, Fresh, Mapped, Ended, StreamInv, Chains, StreamTypes
<1> QED BY <1>3, QuietKeepsStreams

(* A query makes a row stream of its own, and ends no other.                *)
LEMMA QueriesKeepStreams ==
  ASSUME StreamInv, IInv', NEW c \in Connections, NEW r \in RowStreams,
         QueryAll(c, r) \/ \E n \in Names : Query(c, r, n)
  PROVE  StreamInv'
<1>1. /\ UNCHANGED <<backend, files, maps, spent, reused, stale>>
      /\ Fresh(r) /\ Usable(c)
      /\ rows'[r].connection = c /\ \A q \in RowStreams : q # r => rows'[q] = rows[q]
      /\ c # NoConnection
  BY ResourcesAssumption DEF QueryAll, Query, StreamInv, IInv, TypeOK, ResourcesAssumption
<1>2. \A s \in Sources : Made(s) => (Made(s)' /\ (Ended(s) => Ended(s)'))
  BY <1>1, KindsApart DEF Made, Fresh, Ended, Mapped
<1>3. \A d \in Connections : /\ conn[d].closed => conn'[d].closed
                             /\ conn'[d].closed => conn'[d].db # "none"
  <2>1. ~conn[c].closed /\ conn[c].db = "open" BY <1>1 DEF Usable
  <2>2. conn[c] \in [db : {"none", "open", "gone"}, closed : BOOLEAN, refs : Nat]
    BY DEF StreamInv, IInv, TypeOK
  <2>3. /\ Retain(conn[c]).closed = conn[c].closed
        /\ Retain(conn[c]).db = conn[c].db
    BY <2>2 DEF Retain
  <2>4. Release(Retain(conn[c])).closed = conn[c].closed
    BY <2>3 DEF Release
  <2>5. conn' = [conn EXCEPT ![c] = Retain(@)] \/ conn' = [conn EXCEPT ![c] = Release(Retain(@))]
    BY DEF Query, QueryAll
  <2>6. ~conn'[c].closed /\ \A d \in Connections : d # c => conn'[d] = conn[d]
    BY <2>1, <2>3, <2>4, <2>5 DEF StreamInv, IInv, TypeOK
  <2> QED BY <2>1, <2>6 DEF StreamInv, ClosedMade
<1>4. names' \in [Names -> Values] /\
      \A n \in Names : \/ \E k \in Names : names'[n] = names[k]
                       \/ Made(names[n].stream)' /\ ~names'[n].closed
  <2>0. names \in [Names -> Values] BY DEF StreamInv, Chains, StreamTypes
  <2>1. CASE names' = names BY <2>0, <2>1
  <2>2. CASE \E n \in Names : Query(c, r, n)
    <3>1. PICK n \in Names : names' = [names EXCEPT ![n] = [stream |-> r, closed |-> FALSE]]
      BY <2>2 DEF Query
    <3>2. [stream |-> r, closed |-> FALSE] \in Values BY KindsApart DEF Values
    <3>3. names' \in [Names -> Values] BY <2>0, <3>1, <3>2
    <3>4. names'[n].stream = r /\ ~names'[n].closed BY <2>0, <3>1
    <3>5. Made(r)' BY <1>1 DEF Made, Fresh
    <3>6. \A k \in Names : k # n => names'[k] = names[k] BY <2>0, <3>1
    <3> QED BY <3>3, <3>4, <3>5, <3>6 DEF Made
  <2> QED BY <2>1, <2>2 DEF QueryAll
<1>5. files' \in [FileStreams -> {"none", "open", "freed"}]
  BY <1>1 DEF StreamInv, Chains, StreamTypes
<1>6. Quiet BY <1>1, <1>2, <1>3, <1>4, <1>5 DEF Quiet, Fresh
<1> QED BY <1>6, QuietKeepsStreams

(* A file is opened once; copies carry their flag.                          *)
LEMMA ValuesKeepStreams ==
  ASSUME StreamInv, IInv', NEW n \in Names,
         (\E f \in FileStreams : OpenFile(f, n)) \/ (\E to \in Names : Copy(n, to))
  PROVE  StreamInv'
<1>0. names \in [Names -> Values] /\ files \in [FileStreams -> {"none", "open", "freed"}]
  BY DEF StreamInv, Chains, StreamTypes
<1>1. UNCHANGED <<backend, conn, rows, maps, spent, reused, stale>>
  BY DEF OpenFile, Copy
<1>2. CASE \E f \in FileStreams : OpenFile(f, n)
  <2>1. PICK f \in FileStreams : OpenFile(f, n) BY <1>2
  <2>2. /\ files[f] = "none" /\ files'[f] = "open"
        /\ \A g \in FileStreams : g # f => files'[g] = files[g]
        /\ files' \in [FileStreams -> {"none", "open", "freed"}]
    BY <1>0, <2>1 DEF OpenFile
  <2>3. names' = [names EXCEPT ![n] = [stream |-> f, closed |-> FALSE]] BY <2>1 DEF OpenFile
  <2>4. [stream |-> f, closed |-> FALSE] \in Values BY KindsApart DEF Values
  <2>5. names' \in [Names -> Values] BY <1>0, <2>3, <2>4
  <2>6. names'[n].stream = f /\ ~names'[n].closed BY <1>0, <2>3
  <2>7. Made(names[n].stream)' BY <2>2, <2>6 DEF Made
  <2>8. \A k \in Names : k # n => names'[k] = names[k] BY <1>0, <2>3
  <2>9. \A s \in Sources : Made(s) => (Made(s)' /\ (Ended(s) => Ended(s)'))
    BY <1>1, <2>2, KindsApart DEF Made, Fresh, Ended, Mapped
  <2>10. Quiet
    BY <1>1, <2>2, <2>5, <2>6, <2>7, <2>8, <2>9 DEF Quiet, StreamInv, ClosedMade
  <2> QED BY <2>10, QuietKeepsStreams
<1>3. CASE \E to \in Names : Copy(n, to)
  <2>1. PICK to \in Names : names' = [names EXCEPT ![to] = names[n]] /\ files' = files
    BY <1>3 DEF Copy
  <2>2. names' \in [Names -> Values] /\ \A k \in Names : \E j \in Names : names'[k] = names[j]
    BY <1>0, <2>1
  <2>3. \A s \in Sources : Made(s) => (Made(s)' /\ (Ended(s) => Ended(s)'))
    BY <1>1, <2>1 DEF Made, Fresh, Ended, Mapped
  <2>4. Quiet BY <1>0, <1>1, <2>1, <2>2, <2>3 DEF Quiet, StreamInv, ClosedMade
  <2> QED BY <2>4, QuietKeepsStreams
<1> QED BY <1>2, <1>3

(* A context is made of a stream that was there, and takes over its flag.   *)
LEMMA MappingKeepsStreams ==
  ASSUME StreamInv, IInv', NEW n \in Names, NEW m \in Maps, NEW to \in Names, Map(n, m, to)
  PROVE  StreamInv'
<1>0. names \in [Names -> Values] /\ maps \in [Maps -> [upstream : Values, closed : BOOLEAN]]
  BY DEF StreamInv, Chains, StreamTypes
<1>1. /\ UNCHANGED <<backend, conn, rows, files, spent, reused, stale>>
      /\ names[n] # Unbound /\ m \notin Mapped
  BY DEF Map, Mapped
<1>2. PICK v \in Values : v = names[n] BY <1>0
<1>3. /\ maps'[m] = [upstream |-> v, closed |-> FALSE]
      /\ \A x \in Maps : x # m => maps'[x] = maps[x]
      /\ maps' \in [Maps -> [upstream : Values, closed : BOOLEAN]]
  BY <1>0, <1>2 DEF Map
<1>4. /\ names'[to] = [stream |-> m, closed |-> FALSE]
      /\ \A k \in Names : k # to => names'[k] = names[k]
      /\ names' \in [Names -> Values]
  <2>1. [stream |-> m, closed |-> FALSE] \in Values BY KindsApart DEF Values
  <2>2. names' = [names EXCEPT ![to] = [stream |-> m, closed |-> FALSE]] BY DEF Map
  <2> QED BY <1>0, <2>1, <2>2
<1>5. /\ Mapped' = Mapped \cup {m} /\ Up(m)' = v.stream
      /\ \A x \in Mapped : Up(x)' = Up(x)
  BY <1>1, <1>2, <1>3, KindsApart DEF Mapped, Up
<1>6. Made(v.stream) BY <1>1, <1>2 DEF StreamInv, Chains, References
<1>7. \A s : Made(s) => Made(s)' BY <1>1, <1>5 DEF Made, Fresh
<1>8. StreamTypes'
  <2>1. \A k \in Names : names'[k].stream = NoStream => names'[k] = Unbound
    BY <1>4, KindsApart DEF StreamInv, Chains, StreamTypes
  <2>2. \A x \in Maps : Up(x)' = NoStream => maps'[x].upstream = Unbound
    BY <1>2, <1>3 DEF StreamInv, Chains, StreamTypes, Up
  <2> QED BY <1>1, <1>3, <1>4, <2>1, <2>2
    DEF StreamInv, Chains, StreamTypes, Values, Streams, Sources, Unbound
<1>9. References'
  <2>1. ASSUME NEW k \in Names, names'[k] # Unbound PROVE Made(names[k].stream)'
    <3>1. PICK s : s = names'[k].stream OBVIOUS
    <3>2. Made(s)'
      <4>1. CASE k = to BY <3>1, <4>1, <1>4, <1>5 DEF Made
      <4>2. CASE k # to
        BY <2>1, <3>1, <4>2, <1>4, <1>7 DEF StreamInv, Chains, References
      <4> QED BY <4>1, <4>2
    <3> QED BY <3>1, <3>2 DEF Made
  <2>2. ASSUME NEW x \in Mapped' PROVE Made(Up(x))'
    <3>1. PICK s : s = Up(x)' OBVIOUS
    <3>2. Made(s)
      <4>1. CASE x = m BY <3>1, <4>1, <1>5, <1>6
      <4>2. CASE x # m BY <3>1, <4>2, <1>5 DEF StreamInv, Chains, References
      <4> QED BY <4>1, <4>2
    <3>3. Made(s)' BY <3>2, <1>7
    <3> QED BY <3>1, <3>3 DEF Made
  <2> QED BY <2>1, <2>2 DEF References, Unbound
<1>10. Chains'
  <2>1. Made(Up(m)') BY <1>5, <1>6
  <2> QED BY <1>1, <1>5, <1>8, <1>9, <2>1, ChainsExtended DEF StreamInv
<1>11. Grows BY <1>1, <1>5, <1>7 DEF Grows, Ended
<1>12. FlagsMean'
  <2>1. ASSUME NEW k \in Names, names'[k].closed PROVE Ended(Source[names[k].stream])'
    <3>1. PICK s : s = names[k].stream OBVIOUS
    <3>2. names'[k] = names[k] /\ names[k] # Unbound BY <2>1, <1>4 DEF Unbound
    <3>3. Made(s) /\ Ended(Source[s])
      BY <2>1, <3>1, <3>2 DEF StreamInv, Chains, References, FlagsMean
    <3>4. Source'[s] = Source[s] /\ Ended(Source[s])'
      BY <3>3, <1>10, <1>11, EndsStay DEF StreamInv
    <3> QED BY <3>1, <3>2, <3>4 DEF Ended
  <2>2. ASSUME NEW x \in Mapped, maps'[x].closed \/ maps'[x].upstream.closed
        PROVE  Ended(Source[x])'
    <3>1. maps'[x] = maps[x] /\ Made(x) BY <1>1, <1>3, KindsApart DEF Made
    <3>2. Ended(Source[x]) BY <2>2, <3>1 DEF StreamInv, FlagsMean
    <3> QED BY <3>1, <3>2, <1>10, <1>11, EndsStay DEF StreamInv
  <2>3. ASSUME maps'[m].closed \/ maps'[m].upstream.closed PROVE Ended(Source[m])'
    <3>1. names[n].closed BY <2>3, <1>2, <1>3
    <3>2. PICK s : s = v.stream OBVIOUS
    <3>3. Ended(Source[s]) BY <3>1, <3>2, <1>2 DEF StreamInv, FlagsMean
    <3>4. Ended(Source[s])' BY <3>2, <3>3, <1>6, <1>10, <1>11, EndsStay DEF StreamInv
    <3>5. Source'[m] = Source'[s]
      BY <3>2, <1>5, <1>10, SourceSolvesNext, KindsApart DEF SourceEquation
    <3> QED BY <3>4, <3>5 DEF Ended
  <2> QED BY <2>1, <2>2, <2>3, <1>5 DEF FlagsMean
<1> QED BY <1>1, <1>10, <1>11, <1>12, RestKept DEF StreamInv, ClosedMade

(* A use of a freed file comes after its consumer.                          *)
LEMMA UsingKeepsStreams ==
  ASSUME StreamInv, IInv', NEW n \in Names, UseFile(n)
  PROVE  StreamInv'
<1>1. UNCHANGED <<backend, conn, rows, files, maps, names, spent>> BY DEF UseFile
<1>2. PICK source : source = Source[names[n].stream] OBVIOUS
<1>3. /\ source \in FileStreams
      /\ stale' = IF files[source] = "freed" THEN stale \cup {source} ELSE stale
      /\ reused' = IF source \in spent THEN reused \cup {source} ELSE reused
  BY <1>2 DEF UseFile, Use
<1>4. Mapped' = Mapped /\ (\A m \in Maps : Up(m)' = Up(m)) /\ \A s : Made(s)' = Made(s)
  BY <1>1 DEF Mapped, Up, Made, Fresh
<1>5. Chains'
  <2>1. StreamTypes' BY <1>1 DEF StreamInv, Chains, StreamTypes, Up
  <2>2. \A k \in Names : (names[k] # Unbound => Made(names[k].stream))'
    BY <1>1 DEF StreamInv, Chains, References, Made, Fresh, Mapped, Unbound
  <2> QED BY <1>4, <2>1, <2>2, KindsApart, ChainsKept DEF StreamInv
<1>6. Grows BY <1>1, <1>4, KindsApart DEF Grows, Ended
<1>7. FlagsMean'
  <2>1. \A k \in Names : \/ ~names'[k].closed
                         \/ \E j \in Names : names'[k] = names[j] /\ names[j] # Unbound
    BY <1>1 DEF Unbound
  <2> QED BY <1>1, <1>4, <1>5, <1>6, <2>1, FlagsKept DEF StreamInv
<1>8. SpentEnded' /\ FreedSpent' /\ ClosedMade'
  BY <1>1, <1>4 DEF StreamInv, SpentEnded, FreedSpent, ClosedMade, Ended
<1>9. StaleMade'
  <2>1. ASSUME NEW s \in stale' PROVE s \in Sources /\ Made(s)'
    <3>1. CASE s \in stale BY <3>1, <1>4 DEF StreamInv, StaleMade
    <3>2. CASE s \notin stale
      <4>1. s = source /\ files[s] = "freed" BY <2>1, <3>2, <1>3
      <4> QED BY <4>1, <1>3, <1>4, KindsApart DEF Made
    <3> QED BY <3>1, <3>2
  <2>2. ASSUME NEW s \in stale'
        PROVE  (IF s \in RowStreams THEN Held(s).closed ELSE s \in reused)'
    <3>1. CASE s \in stale
      BY <3>1, <1>1, <1>3 DEF StreamInv, StaleMade, StaleReadsAreReuses, Held
    <3>2. CASE s \notin stale
      <4>1. s = source /\ files[s] = "freed" /\ s \in FileStreams BY <2>2, <3>2, <1>3
      <4>2. s \in spent BY <4>1 DEF StreamInv, FreedSpent
      <4> QED BY <4>1, <4>2, <1>3, KindsApart
    <3> QED BY <3>1, <3>2
  <2> QED BY <2>1, <2>2 DEF StaleMade, StaleReadsAreReuses
<1> QED BY <1>5, <1>7, <1>8, <1>9 DEF StreamInv

(* What closing a row stream leaves behind.                                 *)
LEMMA RowsEnd ==
  ASSUME StreamInv, NEW r \in RowStreams, NEW statement, Made(r), CloseRows(r, statement)
  PROVE  /\ rows'[r].finalized
         /\ \A q \in RowStreams : /\ rows'[q].connection = rows[q].connection
                                  /\ rows[q].finalized => rows'[q].finalized
         /\ \A c \in Connections : /\ conn[c].closed => conn'[c].closed
                                   /\ conn'[c].closed => conn'[c].db # "none"
         /\ stale' = stale \/ (stale' = stale \cup {r} /\ Held(r)'.closed)
<1>0. ~Fresh(r) BY KindsApart DEF Made
<1>1. CASE rows[r].finalized
  BY <1>0, <1>1 DEF CloseRows, StreamInv, ClosedMade
<1>2. CASE ~rows[r].finalized
  <2>1. PICK k \in Connections : k = rows[r].connection
    BY <1>0, <1>2, StreamIsHolder DEF StreamInv, IInv
  <2>2. /\ conn' = [conn EXCEPT ![k] = Release(@)]
        /\ rows' = [rows EXCEPT ![r].statement = "none", ![r].finalized = TRUE]
        /\ stale' = IF ReadsGoneHandle(r, statement) THEN stale \cup {r} ELSE stale
    BY <1>0, <1>2, <2>1 DEF CloseRows
  <2>3. /\ rows'[r].finalized
        /\ \A q \in RowStreams : /\ rows'[q].connection = rows[q].connection
                                 /\ rows[q].finalized => rows'[q].finalized
    BY <2>2 DEF StreamInv, IInv, TypeOK
  <2>4. /\ conn[k] \in [db : {"none", "open", "gone"}, closed : BOOLEAN, refs : Nat]
        /\ Cardinality(Holders(k)) >= 1 /\ Cardinality(Holders(k)) \in Nat
        /\ k \in Connections /\ r \in Holders(k)
    BY <1>0, <1>2, <2>1, StreamIsHolder, HoldersFinite DEF StreamInv, IInv, TypeOK
  <2>5. conn[k].db # "none" BY <2>4 DEF StreamInv, IInv, Unopened
  <2>6. /\ conn[k].refs = Share(k) + Cardinality(Holders(k)) /\ Share(k) \in Nat
        /\ conn[k].db = "open" <=> conn[k].refs > 0
    BY <2>5 DEF StreamInv, IInv, RefsCountHolders, Share
  <2>7. conn[k].refs > 0 /\ conn[k].db = "open" /\ conn[k].refs \in Nat BY <2>4, <2>6
  <2>8. /\ Release(conn[k]).closed = conn[k].closed
        /\ Release(conn[k]).db = IF conn[k].refs = 1 THEN "gone" ELSE conn[k].db
    BY <2>4, <2>7, ReleaseDrops
  <2>9. conn'[k] = Release(conn[k]) /\ \A c \in Connections : c # k => conn'[c] = conn[c]
    BY <2>2, <2>4 DEF StreamInv, IInv, TypeOK
  <2>10. \A c \in Connections : /\ conn[c].closed => conn'[c].closed
                                /\ conn'[c].closed => conn'[c].db # "none"
    BY <2>7, <2>8, <2>9 DEF StreamInv, ClosedMade
  <2>11. ASSUME ReadsGoneHandle(r, statement) PROVE Held(r)'.closed
    <3>1. Release(conn[k]).db = "gone" BY <2>1, <2>11 DEF ReadsGoneHandle, Held
    <3>2. conn[k].refs = 1 BY <3>1, <2>7, <2>8
    <3>3. Share(k) = 0 BY <3>2, <2>4, <2>6
    <3>4. conn[k].closed BY <3>3 DEF Share
    <3> QED BY <3>4, <2>1, <2>3, <2>10 DEF Held
  <2> QED BY <2>2, <2>3, <2>10, <2>11
<1> QED BY <1>1, <1>2

(* A consumer reaches the source below its value, and nothing else; it      *)
(* leaves it ended if it closes, or reads rows.                             *)
LEMMA ConsumerEnds ==
  ASSUME StreamInv, NEW n \in Names, names[n] # Unbound,
         NEW reading \in BOOLEAN, NEW statement, NEW closing \in BOOLEAN,
         Consume(n, reading, statement, closing),
         NEW source, source = Source[names[n].stream]
  PROVE  /\ source \in Sources /\ Made(source)
         /\ closing \/ (reading /\ source \in RowStreams) => Ended(source)'
         /\ \A s \in Sources : Made(s) => (Made(s)' /\ (Ended(s) => Ended(s)'))
         /\ \A f \in FileStreams : files'[f] # files[f] => f = source /\ closing
         /\ files' \in [FileStreams -> {"none", "open", "freed"}]
         /\ \A r \in RowStreams : rows'[r].connection = rows[r].connection
         /\ \A c \in Connections : /\ conn[c].closed => conn'[c].closed
                                   /\ conn'[c].closed => conn'[c].db # "none"
         /\ \/ stale' = stale
            \/ /\ stale' = stale \cup {source}
               /\ IF source \in RowStreams THEN Held(source)'.closed
                  ELSE files[source] = "freed"
<1> DEFINE value   == names[n]
           reached == IF reading THEN Reads[value.stream] ELSE NoStream
           closed  == IF closing THEN Closing(value) ELSE {}
           ended   == ({reached} \cup closed) \cap RowStreams
           freed   == closed \cap FileStreams
<1>1. /\ IF ended # {} THEN \E r \in ended : CloseRows(r, statement) /\ UNCHANGED files
         ELSE IF freed # {}
         THEN \E f \in freed : CloseFile(f) /\ UNCHANGED <<conn, rows>>
         ELSE /\ stale' = IF reached \in FileStreams /\ files[reached] = "freed"
                          THEN stale \cup {reached} ELSE stale
              /\ UNCHANGED <<conn, rows, files>>
      /\ maps' = [m \in Maps |-> IF m \in closed /\ backend = "c"
                                 THEN [maps[m] EXCEPT !.closed = TRUE] ELSE maps[m]]
  BY DEF Consume
<1>2. Made(value.stream) BY DEF StreamInv, Chains, References
<1>3. /\ source \in Sources /\ Made(source)
      /\ Reads[value.stream] = source \/ (Reads[value.stream] = NoStream /\ Ended(source))
      /\ source \in Closes[value.stream] \/ Ended(source)
      /\ \A x \in Closes[value.stream] : Made(x) /\ Source[x] = source
  BY <1>2, AlongTheChain DEF StreamInv
<1>4. \A x \in closed : Made(x) /\ Source[x] = source BY <1>3 DEF Closing
<1>5. \A x \in closed : x \in Sources => x = source
  <2>1. \A x \in Sources : x \in Streams /\ x \notin Mapped BY KindsApart
  <2>2. \A x \in Sources : Source[x] = x BY <2>1, SourceUnfolds DEF StreamInv
  <2> QED BY <1>4, <2>2
<1>6. reached = source \/ reached = NoStream BY <1>3
<1>7. ended \subseteq {source} /\ freed \subseteq {source} BY <1>5, <1>6, KindsApart
<1>8. closing => source \in closed \/ Ended(source)
  BY <1>3 DEF Closing, StreamInv, FlagsMean
<1>9. reading => reached = source \/ Ended(source) BY <1>3
<1>10. files \in [FileStreams -> {"none", "open", "freed"}]
  BY DEF StreamInv, Chains, StreamTypes
<1>11. Mapped' = Mapped
  <2>1. \A m \in Maps : maps'[m].upstream = maps[m].upstream
    <3> HIDE DEF closed
    <3> QED BY <1>1 DEF StreamInv, Chains, StreamTypes
  <2> QED BY <2>1 DEF Mapped
<1>12. closed = {} \/ closing OBVIOUS
<1> HIDE DEF reached, closed
<1>13. CASE ended # {}
  <2>1. source \in RowStreams /\ CloseRows(source, statement) /\ files' = files
    BY <1>1, <1>7, <1>13
  <2>2. /\ rows'[source].finalized
        /\ \A q \in RowStreams : /\ rows'[q].connection = rows[q].connection
                                 /\ rows[q].finalized => rows'[q].finalized
        /\ \A c \in Connections : /\ conn[c].closed => conn'[c].closed
                                  /\ conn'[c].closed => conn'[c].db # "none"
        /\ stale' = stale \/ (stale' = stale \cup {source} /\ Held(source)'.closed)
    BY <2>1, <1>3, RowsEnd
  <2>3. \A s \in Sources : Made(s) => (Made(s)' /\ (Ended(s) => Ended(s)'))
    BY <2>1, <2>2, <1>11 DEF Made, Fresh, Ended
  <2>4. Ended(source)' BY <2>1, <2>2 DEF Ended
  <2> QED BY <1>3, <1>10, <2>1, <2>2, <2>3, <2>4
<1>14. CASE ended = {} /\ freed # {}
  <2>1. /\ source \in FileStreams /\ source \in closed /\ CloseFile(source)
        /\ UNCHANGED <<conn, rows>>
    BY <1>1, <1>7, <1>14
  <2>2. /\ files'[source] = "freed" /\ \A f \in FileStreams : f # source => files'[f] = files[f]
        /\ files' \in [FileStreams -> {"none", "open", "freed"}]
        /\ stale' = IF files[source] = "freed" THEN stale \cup {source} ELSE stale
    BY <1>10, <2>1 DEF CloseFile
  <2>3. \A s \in Sources : Made(s) => (Made(s)' /\ (Ended(s) => Ended(s)'))
    BY <2>1, <2>2, <1>11, KindsApart DEF Made, Fresh, Ended
  <2>4. Ended(source)' /\ source \notin RowStreams BY <2>1, <2>2, KindsApart DEF Ended
  <2>5. closing BY <2>1, <1>12
  <2> QED BY <1>3, <2>1, <2>2, <2>3, <2>4, <2>5 DEF StreamInv, ClosedMade
<1>15. CASE ended = {} /\ freed = {}
  <2>1. /\ stale' = IF reached \in FileStreams /\ files[reached] = "freed"
                    THEN stale \cup {reached} ELSE stale
        /\ UNCHANGED <<conn, rows, files>>
    BY <1>1, <1>15
  <2>2. \A s \in Sources : Made(s) => (Made(s)' /\ (Ended(s) => Ended(s)'))
    BY <2>1, <1>11 DEF Made, Fresh, Ended
  <2>3. closing \/ (reading /\ source \in RowStreams) => Ended(source)
    BY <1>3, <1>8, <1>9, <1>15, KindsApart
  <2>4. reached \in FileStreams => reached = source /\ source \notin RowStreams
    BY <1>6, KindsApart
  <2>5. Ended(source) => Ended(source)' BY <2>2, <1>3
  <2> QED BY <1>3, <1>10, <2>1, <2>2, <2>3, <2>4, <2>5 DEF StreamInv, ClosedMade
<1> QED BY <1>13, <1>14, <1>15

(* A context keeps what it maps when it is closed.                          *)
LEMMA FlagRaised ==
  ASSUME NEW context \in [upstream : Values, closed : BOOLEAN]
  PROVE  /\ [context EXCEPT !.closed = TRUE] \in [upstream : Values, closed : BOOLEAN]
         /\ [context EXCEPT !.closed = TRUE].upstream = context.upstream
OBVIOUS

(* A value whose consumer closed is flagged, if its own flag is.            *)
LEMMA ConsumingKeepsStreams ==
  ASSUME StreamInv, IInv', NEW n \in Names, names[n] # Unbound,
         NEW reading \in BOOLEAN, NEW statement, NEW closing \in BOOLEAN,
         closing \/ reading, Consume(n, reading, statement, closing),
         backend' = backend,
         names' = names \/ (closing /\ names' = [names EXCEPT ![n].closed = TRUE])
  PROVE  StreamInv'
<1>1. PICK source : source = Source[names[n].stream] OBVIOUS
<1>2. /\ source \in Sources /\ Made(source)
      /\ closing \/ (reading /\ source \in RowStreams) => Ended(source)'
      /\ \A s \in Sources : Made(s) => (Made(s)' /\ (Ended(s) => Ended(s)'))
      /\ \A f \in FileStreams : files'[f] # files[f] => f = source /\ closing
      /\ files' \in [FileStreams -> {"none", "open", "freed"}]
      /\ \A r \in RowStreams : rows'[r].connection = rows[r].connection
      /\ \A c \in Connections : /\ conn[c].closed => conn'[c].closed
                                /\ conn'[c].closed => conn'[c].db # "none"
      /\ \/ stale' = stale
         \/ /\ stale' = stale \cup {source}
            /\ IF source \in RowStreams THEN Held(source)'.closed
               ELSE files[source] = "freed"
  BY <1>1, ConsumerEnds
<1>3. /\ spent' = IF closing \/ source \in RowStreams THEN spent \cup {source} ELSE spent
      /\ reused' = IF source \in spent THEN reused \cup {source} ELSE reused
  BY <1>1 DEF Consume, Use
<1>4. PICK closed : /\ closed = IF closing THEN Closing(names[n]) ELSE {}
                    /\ maps' = [m \in Maps |-> IF m \in closed /\ backend = "c"
                                  THEN [maps[m] EXCEPT !.closed = TRUE] ELSE maps[m]]
  BY DEF Consume
<1>5. \A x \in closed : closing /\ Made(x) /\ Source[x] = source
  <2>1. Made(names[n].stream) BY DEF StreamInv, Chains, References
  <2>2. \A x \in Closes[names[n].stream] : Made(x) /\ Source[x] = source
    BY <1>1, <2>1, AlongTheChain DEF StreamInv
  <2> QED BY <1>4, <2>2 DEF Closing
<1>6. /\ maps' \in [Maps -> [upstream : Values, closed : BOOLEAN]]
      /\ \A m \in Maps : /\ maps'[m].upstream = maps[m].upstream
                         /\ maps'[m].closed => maps[m].closed \/ m \in closed
  <2>0. maps \in [Maps -> [upstream : Values, closed : BOOLEAN]]
    BY DEF StreamInv, Chains, StreamTypes
  <2>1. ASSUME NEW m \in Maps
        PROVE  /\ maps'[m] \in [upstream : Values, closed : BOOLEAN]
               /\ maps'[m].upstream = maps[m].upstream
               /\ maps'[m].closed => maps[m].closed \/ m \in closed
    <3>1. maps[m] \in [upstream : Values, closed : BOOLEAN] BY <2>0
    <3>2. PICK raised : raised = [maps[m] EXCEPT !.closed = TRUE] OBVIOUS
    <3>3. /\ raised \in [upstream : Values, closed : BOOLEAN]
          /\ raised.upstream = maps[m].upstream
      BY <3>1, <3>2, FlagRaised
    <3>4. maps'[m] = maps[m] \/ (m \in closed /\ maps'[m] = raised) BY <1>4, <3>2
    <3> QED BY <3>1, <3>3, <3>4
  <2> QED BY <1>4, <2>1
<1>7. /\ names' \in [Names -> Values]
      /\ \A k \in Names : /\ names'[k].stream = names[k].stream
                          /\ names'[k] # Unbound => names[k] # Unbound
                          /\ names'[k].closed => names[k].closed \/ (k = n /\ closing)
                          /\ names[k] = Unbound => names'[k] = Unbound
  <2>1. names \in [Names -> Values] BY DEF StreamInv, Chains, StreamTypes
  <2>2. CASE names' = names BY <2>1, <2>2
  <2>3. CASE closing /\ names' = [names EXCEPT ![n].closed = TRUE]
    <3>1. \A k \in Names : k # n => names'[k] = names[k] BY <2>1, <2>3
    <3>2. names'[n] = [stream |-> names[n].stream, closed |-> TRUE] BY <2>1, <2>3 DEF Values
    <3>3. names' \in [Names -> Values] BY <2>1, <2>3 DEF Values
    <3> QED BY <2>3, <3>1, <3>2, <3>3
  <2> QED BY <2>2, <2>3
<1>8. Mapped' = Mapped /\ \A m \in Maps : Up(m)' = Up(m) BY <1>6 DEF Mapped, Up
<1>9. \A s : Made(s) => Made(s)'
  <2>1. \A s : Made(s) => s \in Sources \/ s \in Mapped BY MadeStreams DEF StreamInv
  <2> QED BY <1>2, <1>8, <2>1 DEF Made
<1>10. Chains'
  <2>1. StreamTypes'
    <3>1. \A k \in Names : (names[k].stream = NoStream => names[k] = Unbound)'
      BY <1>7 DEF StreamInv, Chains, StreamTypes, Unbound
    <3>2. \A m \in Maps : (Up(m) = NoStream => maps[m].upstream = Unbound)'
      BY <1>6, <1>8 DEF StreamInv, Chains, StreamTypes, Up, Unbound
    <3>3. backend' \in {"c", "llvm"} BY DEF StreamInv, Chains, StreamTypes
    <3>4. (names \in [Names -> Values])' /\ (maps \in [Maps -> [upstream : Values, closed : BOOLEAN]])'
      BY <1>6, <1>7 DEF Values, Streams, Sources
    <3> QED BY <1>2, <3>1, <3>2, <3>3, <3>4 DEF StreamTypes
  <2>2. ASSUME NEW k \in Names PROVE (names[k] # Unbound => Made(names[k].stream))'
    <3>1. PICK s : s = names[k].stream OBVIOUS
    <3>2. names'[k] # Unbound => Made(s)'
      BY <3>1, <1>7, <1>9 DEF StreamInv, Chains, References
    <3> QED BY <3>1, <3>2, <1>7 DEF Made, Unbound
  <2> QED BY <1>8, <1>9, <2>1, <2>2, KindsApart, ChainsKept DEF StreamInv
<1>11. Grows BY <1>2, <1>8, KindsApart DEF Grows
<1>12. closing => Ended(source)' BY <1>2
<1>13. FlagsMean'
  <2>1. ASSUME NEW k \in Names, names'[k].closed PROVE Ended(Source[names[k].stream])'
    <3>1. PICK s : s = names[k].stream OBVIOUS
    <3>2. names[k] # Unbound BY <2>1, <1>7 DEF Unbound
    <3>3. Made(s) BY <3>1, <3>2 DEF StreamInv, Chains, References
    <3>4. Source'[s] = Source[s] /\ (Ended(Source[s]) => Ended(Source[s])')
      BY <3>3, <1>10, <1>11, EndsStay DEF StreamInv
    <3>5. Ended(Source[s])'
      <4>1. CASE names[k].closed BY <4>1, <3>1, <3>4 DEF StreamInv, FlagsMean
      <4>2. CASE k = n /\ closing BY <4>2, <3>1, <3>4, <1>1, <1>12 DEF Ended
      <4> QED BY <4>1, <4>2, <2>1, <1>7
    <3> QED BY <3>1, <3>5, <1>7 DEF Ended
  <2>2. ASSUME NEW m \in Mapped, maps'[m].closed \/ maps'[m].upstream.closed
        PROVE  Ended(Source[m])'
    <3>1. Made(m) /\ m \in Maps BY KindsApart DEF Made
    <3>2. Source'[m] = Source[m] /\ (Ended(Source[m]) => Ended(Source[m])')
      BY <3>1, <1>10, <1>11, EndsStay DEF StreamInv
    <3>3. CASE maps[m].closed \/ maps[m].upstream.closed
      BY <3>2, <3>3 DEF StreamInv, FlagsMean
    <3>4. CASE m \in closed BY <3>2, <3>4, <1>5, <1>12 DEF Ended
    <3> QED BY <2>2, <3>1, <3>3, <3>4, <1>6
  <2> QED BY <2>1, <2>2, <1>8 DEF FlagsMean
<1>14. SpentEnded'
  <2>1. closing \/ source \in RowStreams => Ended(source)' BY <1>2
  <2>2. \A s \in spent : s \in Sources /\ Made(s)' /\ Ended(s)'
    BY <1>2 DEF StreamInv, SpentEnded
  <2> QED BY <1>2, <1>3, <2>1, <2>2 DEF SpentEnded
<1>15. FreedSpent' BY <1>2, <1>3 DEF StreamInv, FreedSpent
<1>16. ClosedMade' BY <1>2 DEF ClosedMade
<1>17. StaleMade'
  <2>1. \A s \in stale' : s \in Sources /\ Made(s)' BY <1>2 DEF StreamInv, StaleMade
  <2>2. ASSUME NEW s \in stale' PROVE (IF s \in RowStreams THEN Held(s).closed ELSE s \in reused)'
    <3>1. CASE s \in stale /\ s \in RowStreams
      <4>1. Made(s) /\ Held(s).closed BY <3>1 DEF StreamInv, StaleMade, StaleReadsAreReuses
      <4>2. rows[s].connection \in Connections
        BY <3>1, <4>1, KindsApart DEF Made, Fresh, StreamInv, IInv, TypeOK
      <4> QED BY <3>1, <4>1, <4>2, <1>2 DEF Held
    <3>2. CASE s \in stale /\ s \notin RowStreams
      BY <3>2, <1>3 DEF StreamInv, StaleMade, StaleReadsAreReuses
    <3>3. CASE s \notin stale
      <4>1. s = source /\ IF source \in RowStreams THEN Held(source)'.closed
                          ELSE files[source] = "freed"
        BY <2>2, <3>3, <1>2
      <4>2. CASE source \in RowStreams BY <4>1, <4>2 DEF Held
      <4>3. CASE source \notin RowStreams
        <5>1. source \in FileStreams BY <4>3, <1>2, KindsApart
        <5>2. source \in spent BY <4>1, <4>3, <5>1 DEF StreamInv, FreedSpent
        <5> QED BY <4>1, <4>3, <5>2, <1>3
      <4> QED BY <4>2, <4>3
    <3> QED BY <3>1, <3>2, <3>3
  <2> QED BY <2>1, <2>2 DEF StaleMade, StaleReadsAreReuses
<1> QED BY <1>10, <1>13, <1>14, <1>15, <1>16, <1>17 DEF StreamInv

(* No stream, no chain.                                                     *)
LEMMA InitStreams == Init => StreamInv
<1> SUFFICES ASSUME Init PROVE StreamInv OBVIOUS
<1>1. Mapped = {} BY DEF Init, Mapped
<1>2. StreamTypes BY DEF Init, StreamTypes, Up, Unbound, Values
<1>3. References BY <1>1 DEF Init, References, Unbound
<1>4. NoCycle BY <1>1 DEF NoCycle
<1>5. Solvable
  <2> SUFFICES ASSUME NEW D, NEW low \in [Streams -> D], NEW step \in [Streams -> [D -> D]]
               PROVE \E f \in [Streams -> D] : Follows(f, low, step)
    BY DEF Solvable
  <2>1. Follows(low, low, step) BY <1>1 DEF Follows
  <2> QED BY <2>1
<1>6. FlagsMean BY <1>1 DEF Init, FlagsMean, Unbound
<1>7. SpentEnded /\ FreedSpent /\ StaleMade /\ ClosedMade
  BY DEF Init, SpentEnded, FreedSpent, StaleMade, StaleReadsAreReuses, ClosedMade
<1> QED BY <1>2, <1>3, <1>4, <1>5, <1>6, <1>7, InitEstablishes DEF StreamInv, Chains

(* One case per call.                                                       *)
LEMMA NextKeepsStreams == StreamInv /\ [Next]_vars => StreamInv'
<1> SUFFICES ASSUME StreamInv, [Next]_vars PROVE StreamInv'
  OBVIOUS
<1>0. IInv' BY NextKeepsCounts DEF StreamInv
<1>1. CASE UNCHANGED vars
  <2>1. Quiet
    BY <1>1 DEF vars, Quiet, Made, Fresh, Mapped, Ended, StreamInv, Chains, StreamTypes, ClosedMade
  <2> QED BY <1>0, <2>1, QuietKeepsStreams
<1>2. ASSUME NEW c \in Connections, Open(c) \/ CloseConnection(c) PROVE StreamInv'
  BY <1>0, <1>2, ConnectionStepsKeepStreams
<1>3. ASSUME NEW c \in Connections, NEW r \in RowStreams,
             QueryAll(c, r) \/ \E n \in Names : Query(c, r, n)
      PROVE  StreamInv'
  BY <1>0, <1>3, QueriesKeepStreams
<1>4. ASSUME NEW n \in Names,
             (\E f \in FileStreams : OpenFile(f, n)) \/ (\E to \in Names : Copy(n, to))
      PROVE  StreamInv'
  BY <1>0, <1>4, ValuesKeepStreams
<1>5. ASSUME NEW n \in Names, NEW to \in Names, NEW m \in Maps, Map(n, m, to) PROVE StreamInv'
  BY <1>0, <1>5, MappingKeepsStreams
<1>6. ASSUME NEW n \in Names, UseFile(n) PROVE StreamInv'
  BY <1>0, <1>6, UsingKeepsStreams
<1>7. ASSUME NEW n \in Names, ToSeq(n) PROVE StreamInv'
  <2>1. PICK statement : Consume(n, TRUE, statement, backend = "c") BY <1>7 DEF ToSeq
  <2>2. PICK closing \in BOOLEAN : closing = (backend = "c") OBVIOUS
  <2>3. /\ Consume(n, TRUE, statement, closing) /\ names[n] # Unbound /\ backend' = backend
        /\ names' = names \/ (closing /\ names' = [names EXCEPT ![n].closed = TRUE])
    BY <1>7, <2>1, <2>2 DEF ToSeq
  <2> QED BY <1>0, <2>3, ConsumingKeepsStreams
<1>8. ASSUME NEW n \in Names, Drain(n) PROVE StreamInv'
  <2>1. PICK statement : Consume(n, TRUE, statement, TRUE) BY <1>8 DEF Drain
  <2>2. /\ names[n] # Unbound /\ backend' = backend
        /\ names' = [names EXCEPT ![n].closed = TRUE]
    BY <1>8 DEF Drain
  <2> QED BY <1>0, <2>1, <2>2, ConsumingKeepsStreams
<1>9. ASSUME NEW n \in Names, CloseStream(n) PROVE StreamInv'
  BY <1>0, <1>9, ConsumingKeepsStreams DEF CloseStream
<1> QED
  BY <1>1, <1>2, <1>3, <1>4, <1>5, <1>6, <1>7, <1>8, <1>9 DEF Next

(* A consumer that is meant to close has closed the file or finalized the   *)
(* statement below its value, through any number of mapped streams, copies  *)
(* and early closes, on both native back ends: the close functions of       *)
(* stdlib/fs.c and stdlib/sqlite.c and of the contexts that runtime_c.rs    *)
(* and direct_llvm.rs emit.                                                 *)
THEOREM ConsumersClose == Spec => []ConsumedStreamsAreClosed
<1>1. StreamInv => ConsumedStreamsAreClosed
  BY DEF StreamInv, SpentEnded, Ended, ConsumedStreamsAreClosed
<1> QED BY <1>1, InitStreams, NextKeepsStreams, PTL DEF Spec

(* Freed file states are read only by programs that use a stream again      *)
(* after its consumer, and freed handles only for a query that fails when   *)
(* its connection was closed under it (fa_file_stream_next,                 *)
(* fa_sqlite_row_stream_close): next and close of one consumer never meet   *)
(* what the other freed.                                                    *)
THEOREM StaleReads == Spec => []StaleReadsAreReuses
<1>1. StreamInv => StaleReadsAreReuses
  BY DEF StreamInv, StaleMade
<1> QED BY <1>1, InitStreams, NextKeepsStreams, PTL DEF Spec
=============================================================================
