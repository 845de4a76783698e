------------------------------ MODULE Resources ------------------------------
(***************************************************************************)
(* What native programs hold of the outside: SQLite connections            *)
(* (stdlib/sqlite.c), the row streams read from them, file streams         *)
(* (stdlib/fs.c), and the streams that map over either of them.  Values    *)
(* are copied freely by a program; what they point to is shared, is freed  *)
(* by the code below and never by the program.                             *)
(*                                                                         *)
(* A program is any sequence of calls.  Each call runs alone: std.sqlite,  *)
(* std.fs and std.stream are effectful nodes, and no call returns before   *)
(* it is through with what it reads.                                       *)
(***************************************************************************)
EXTENDS Naturals, FiniteSets

CONSTANTS
  Connections,   \* states of connections the program may make
  RowStreams,    \* states of row streams
  FileStreams,   \* states of file streams
  Maps,          \* contexts of mapped streams
  Names,         \* stream values of the program, each bound once
  NoStream, NoConnection

ASSUME ResourcesAssumption ==
  /\ IsFiniteSet(RowStreams)
  /\ NoConnection \notin Connections
  /\ NoStream \notin RowStreams \cup FileStreams \cup Maps
  /\ RowStreams \cap FileStreams = {}
  /\ Maps \cap (RowStreams \cup FileStreams) = {}

Sources == RowStreams \cup FileStreams
Streams == Sources \cup Maps

(* A stream value: what it reads from, and its own copy of the closed flag. *)
Unbound == [stream |-> NoStream, closed |-> FALSE]

VARIABLES
  backend,   \* what emits the program's calls: "c" or "llvm"
  conn,      \* [db : "none", "open" or "gone", closed, refs]
  rows,      \* [connection, statement : "none" or "live", finalized]
  files,     \* "none", "open" or "freed"
  maps,      \* [upstream : a stream value, closed]
  names,     \* the program's stream values
  spent,     \* history: sources whose consumer is meant to close them
  reused,    \* history: sources used again after that
  stale      \* history: streams on whose behalf something freed was read

vars == <<backend, conn, rows, files, maps, names, spent, reused, stale>>

(* Connections and the row streams that keep them; the types of the other   *)
(* variables are as their comments say.                                     *)
TypeOK ==
  /\ conn \in [Connections -> [db : {"none", "open", "gone"}, closed : BOOLEAN, refs : Nat]]
  /\ rows \in [RowStreams -> [connection : Connections \cup {NoConnection},
                              statement : {"none", "live"}, finalized : BOOLEAN]]

Init ==
  /\ backend \in {"c", "llvm"}
  /\ conn = [c \in Connections |-> [db |-> "none", closed |-> FALSE, refs |-> 0]]
  /\ rows = [r \in RowStreams |->
               [connection |-> NoConnection, statement |-> "none", finalized |-> FALSE]]
  /\ files = [f \in FileStreams |-> "none"]
  /\ maps = [m \in Maps |-> [upstream |-> Unbound, closed |-> FALSE]]
  /\ names = [n \in Names |-> Unbound]
  /\ spent = {} /\ reused = {} /\ stale = {}

-----------------------------------------------------------------------------
(* Connections and the statements that keep them.                           *)

Retain(state) == [state EXCEPT !.refs = @ + 1]

(* The last reference closes the database.                                  *)
Release(state) ==
  IF state.refs = 0 THEN state
  ELSE [db     |-> IF state.refs = 1 THEN "gone" ELSE state.db,
        closed |-> state.closed,
        refs   |-> state.refs - 1]

(* Whether fa_sqlite_db hands out the handle.                               *)
Usable(c) == ~conn[c].closed /\ conn[c].db = "open"

(* open, open_readonly, open_memory; one that fails leaves nothing.         *)
Open(c) ==
  /\ conn[c].db = "none"
  /\ conn' = [conn EXCEPT ![c] = [db |-> "open", closed |-> FALSE, refs |-> 1]]
  /\ UNCHANGED <<backend, rows, files, maps, names, spent, reused, stale>>

(* Closing twice faults and changes nothing.                                *)
CloseConnection(c) ==
  /\ conn[c].db # "none" /\ ~conn[c].closed
  /\ conn' = [conn EXCEPT ![c] = Release([@ EXCEPT !.closed = TRUE])]
  /\ UNCHANGED <<backend, rows, files, maps, names, spent, reused, stale>>

Fresh(r) == rows[r].connection = NoConnection

(* A query whose statement was prepared and bound.                          *)
Query(c, r, n) ==
  /\ Usable(c) /\ Fresh(r) /\ names[n] = Unbound
  /\ conn' = [conn EXCEPT ![c] = Retain(@)]
  /\ rows' = [rows EXCEPT ![r] = [connection |-> c, statement |-> "live", finalized |-> FALSE]]
  /\ names' = [names EXCEPT ![n] = [stream |-> r, closed |-> FALSE]]
  /\ UNCHANGED <<backend, files, maps, spent, reused, stale>>

(* query_all: a query, its rows and its close, all within the call.         *)
QueryAll(c, r) ==
  /\ Usable(c) /\ Fresh(r)
  /\ conn' = [conn EXCEPT ![c] = Release(Retain(@))]
  /\ rows' = [rows EXCEPT ![r] = [connection |-> c, statement |-> "none", finalized |-> TRUE]]
  /\ UNCHANGED <<backend, files, maps, names, spent, reused, stale>>

-----------------------------------------------------------------------------
(* Streams.                                                                 *)

OpenFile(f, n) ==
  /\ files[f] = "none" /\ names[n] = Unbound
  /\ files' = [files EXCEPT ![f] = "open"]
  /\ names' = [names EXCEPT ![n] = [stream |-> f, closed |-> FALSE]]
  /\ UNCHANGED <<backend, conn, rows, maps, spent, reused, stale>>

(* A value bound to another name, or passed to a node.                      *)
Copy(n, to) ==
  /\ names[n] # Unbound /\ names[to] = Unbound
  /\ names' = [names EXCEPT ![to] = names[n]]
  /\ UNCHANGED <<backend, conn, rows, files, maps, spent, reused, stale>>

(* The context of a mapped stream holds a copy of the value it maps.        *)
Map(n, m, to) ==
  /\ names[n] # Unbound /\ names[to] = Unbound
  /\ maps[m].upstream = Unbound
  /\ maps' = [maps EXCEPT ![m] = [upstream |-> names[n], closed |-> FALSE]]
  /\ names' = [names EXCEPT ![to] = [stream |-> m, closed |-> FALSE]]
  /\ UNCHANGED <<backend, conn, rows, files, spent, reused, stale>>

(* The contexts that there are.                                             *)
Mapped == {m \in Maps : maps[m].upstream # Unbound}

(* The source below a stream.                                               *)
Source[s \in Streams] == IF s \in Mapped THEN Source[maps[s].upstream.stream] ELSE s

(* The source that next reaches: a C context that is closed ends there, an  *)
(* LLVM one has no flag.                                                    *)
Reads[s \in Streams] ==
  IF s \notin Mapped THEN s
  ELSE IF backend = "c" /\ maps[s].closed THEN NoStream ELSE Reads[maps[s].upstream.stream]

(* The streams that the close function of a stream closes: a C context      *)
(* looks at its own flag and at the one in its copy of the upstream value,  *)
(* an LLVM one hands every call on.                                         *)
Closes[s \in Streams] ==
  IF s \notin Mapped THEN {s}
  ELSE IF backend = "llvm" THEN {s} \cup Closes[maps[s].upstream.stream]
  ELSE IF maps[s].closed THEN {}
  ELSE IF maps[s].upstream.closed THEN {s}
  ELSE {s} \cup Closes[maps[s].upstream.stream]

(* Not the code: the context closes and forgets the stream it maps.         *)
ClosingContext(value) == IF value.closed THEN {} ELSE {value.stream}

(* What fa_stream_close closes through a value.                             *)
Closing(value) == IF value.closed THEN {} ELSE Closes[value.stream]

(* The connection of a row stream when the stream is closed.                *)
Held(r) == conn[rows[r].connection]

(* The handle that the error message of a failed finalize is read from is   *)
(* the one taken before the reference was given up.                         *)
ReadsGoneHandle(r, statement) == statement = "failed" /\ Release(Held(r)).db = "gone"

(* Faulty variant: the flag is not looked at.                               *)
CloseRowsAgain(r, statement) ==
  /\ conn' = [conn EXCEPT ![rows[r].connection] = Release(@)]
  /\ rows' = [rows EXCEPT ![r].statement = "none", ![r].finalized = TRUE]
  /\ stale' = IF ReadsGoneHandle(r, statement) THEN stale \cup {r} ELSE stale

(* fa_sqlite_row_stream_close: the flag is in the shared state.             *)
CloseRows(r, statement) ==
  IF Fresh(r) \/ rows[r].finalized THEN UNCHANGED <<conn, rows, stale>>
  ELSE /\ conn' = [conn EXCEPT ![rows[r].connection] = Release(@)]
       /\ rows' = [rows EXCEPT ![r].statement = "none", ![r].finalized = TRUE]
       /\ stale' = IF ReadsGoneHandle(r, statement) THEN stale \cup {r} ELSE stale

(* Not the code: next closes the file at its end, as that of a query does,  *)
(* and the consumer closes it again.                                        *)
CloseFileAgain(f) ==
  /\ files' = [files EXCEPT ![f] = "freed"]
  /\ stale' = stale \cup {f}

(* fa_file_stream_close frees the state it finds the flag in.               *)
CloseFile(f) ==
  /\ files' = [files EXCEPT ![f] = "freed"]
  /\ stale' = IF files[f] = "freed" THEN stale \cup {f} ELSE stale

Use(s) == reused' = IF s \in spent THEN reused \cup {s} ELSE reused

(* A consumer of the value of a name.  `reading` is whether it first reads  *)
(* to the end or to an error, `statement` how a query then ended, `closing` *)
(* whether it calls the close function.  The rows' own next closes them at  *)
(* the end and after an error.                                              *)
Consume(n, reading, statement, closing) ==
  LET value   == names[n]
      reached == IF reading THEN Reads[value.stream] ELSE NoStream
      closed  == IF closing THEN Closing(value) ELSE {}
      source  == Source[value.stream]
      ended   == ({reached} \cup closed) \cap RowStreams
      freed   == closed \cap FileStreams
  IN /\ IF ended # {} THEN \E r \in ended : CloseRows(r, statement) /\ UNCHANGED files
        ELSE IF freed # {}
        THEN \E f \in freed : CloseFile(f) /\ UNCHANGED <<conn, rows>>
        ELSE /\ stale' = IF reached \in FileStreams /\ files[reached] = "freed"
                         THEN stale \cup {reached} ELSE stale
             /\ UNCHANGED <<conn, rows, files>>
     /\ maps' = [m \in Maps |-> IF m \in closed /\ backend = "c"
                                THEN [maps[m] EXCEPT !.closed = TRUE] ELSE maps[m]]
     /\ spent' = IF closing \/ source \in RowStreams THEN spent \cup {source} ELSE spent
     /\ Use(source)

(* to_seq closes the name's own value in C; in LLVM it does not close.      *)
ToSeq(n) ==
  /\ names[n] # Unbound
  /\ \E statement \in {"live", "failed"} : Consume(n, TRUE, statement, backend = "c")
  /\ names' = IF backend = "c" THEN [names EXCEPT ![n].closed = TRUE] ELSE names
  /\ UNCHANGED backend

(* Only the C emission has drain.                                           *)
Drain(n) ==
  /\ backend = "c" /\ names[n] # Unbound
  /\ \E statement \in {"live", "failed"} : Consume(n, TRUE, statement, TRUE)
  /\ names' = [names EXCEPT ![n].closed = TRUE]
  /\ UNCHANGED backend

(* std.fs close works on a copy of the value.                               *)
CloseStream(n) ==
  /\ names[n] # Unbound
  /\ Consume(n, FALSE, "live", TRUE)
  /\ UNCHANGED <<backend, names>>

(* size, read_at and copy_to_file use the FILE and the descriptor that the  *)
(* value itself carries, mapped or not; a row stream has none: a fault.     *)
UseFile(n) ==
  /\ names[n] # Unbound
  /\ LET source == Source[names[n].stream]
     IN /\ source \in FileStreams
        /\ stale' = IF files[source] = "freed" THEN stale \cup {source} ELSE stale
        /\ Use(source)
  /\ UNCHANGED <<backend, conn, rows, files, maps, names, spent>>

Next ==
  \/ \E c \in Connections : Open(c) \/ CloseConnection(c)
  \/ \E c \in Connections, r \in RowStreams :
       QueryAll(c, r) \/ \E n \in Names : Query(c, r, n)
  \/ \E n \in Names : \/ \E f \in FileStreams : OpenFile(f, n)
                      \/ \E to \in Names : Copy(n, to) \/ \E m \in Maps : Map(n, m, to)
                      \/ ToSeq(n) \/ Drain(n) \/ CloseStream(n) \/ UseFile(n)

Spec == Init /\ [][Next]_vars

-----------------------------------------------------------------------------
(* Properties.                                                              *)

Holders(c) == {r \in RowStreams : rows[r].connection = c /\ ~rows[r].finalized}

(* The count of a connection is the number of those who may still use it:   *)
(* the program until it closes it, and every row stream not yet finalized;  *)
(* the database is open exactly as long as there is one, whatever the       *)
(* program copies, maps, reads twice or closes early.  fa_sqlite_retain and *)
(* fa_sqlite_release against close, query, and the two ways a row stream    *)
(* ends.                                                                    *)
RefsCountHolders ==
  \A c \in Connections :
    conn[c].db # "none" =>
      /\ conn[c].refs = (IF conn[c].closed THEN 0 ELSE 1) + Cardinality(Holders(c))
      /\ conn[c].db = "open" <=> conn[c].refs > 0

(* A consumer that is meant to close has closed: through any number of      *)
(* mapped streams, copies of their values and early closes, the file below  *)
(* is closed and the statement below is finalized, so that it no longer     *)
(* keeps its connection.  to_seq of the LLVM back end closes no file.       *)
ConsumedStreamsAreClosed ==
  \A s \in spent : IF s \in RowStreams THEN rows[s].finalized ELSE files[s] = "freed"

(* The state of a file stream is only read after it was freed by programs   *)
(* that use the stream again after they consumed it, and a database handle  *)
(* only after it was given up for a query that fails when its connection    *)
(* was closed under it; within one consumer, next and close never meet what *)
(* the other freed.                                                         *)
StaleReadsAreReuses ==
  \A s \in stale : IF s \in RowStreams THEN Held(s).closed ELSE s \in reused
=============================================================================
