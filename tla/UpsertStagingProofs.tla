-------------------------- MODULE UpsertStagingProofs --------------------------
(***************************************************************************)
(* upsert_chunk, for any number of writers, tables and connections: what a *)
(* writer merges is what it loaded, unless the name of another table makes *)
(* the name of its staging table; so chunks arrive whole, Ok means that    *)
(* they did, and no writer fails for another's failure.                    *)
(***************************************************************************)
EXTENDS UpsertStaging, TLAPS

Steps == {"idle", "check", "drop", "create", "truncate", "load", "merge", "cleanup",
          "end", "failed"}

(* Each writer holds a connection while it works, and no two the same.     *)
SessionInv ==
  /\ scen \in Scenarios
  /\ pc \in [Writers -> Steps]
  /\ sess \in [Writers -> Sessions \cup {None}]
  /\ chunk \in [Writers -> Nat]
  /\ \A w \in Writers : sess[w] \in Sessions <=> Working(w)
  /\ \A v, w \in Writers : v # w /\ Working(v) => sess[v] # sess[w]

DataInv ==
  /\ loaded \in [Writers -> SUBSET Rows] /\ tries \in [Writers -> 0..MaxRetries]
  /\ DOMAIN staged \subseteq (Sessions \cup {"schema"}) \X Names
  /\ \A p \in DOMAIN staged : staged[p] \subseteq Rows
  /\ identity \in [Sessions -> Tables \cup {None}] /\ target \in [Tables -> SUBSET Rows]

(* Which steps each driver takes, and with which chunk.                    *)
StepOk(w) ==
  /\ chunk[w] <= Len(Chunks(w)) /\ (Working(w) => chunk[w] < Len(Chunks(w)))
  /\ pc[w] = "check" => Kind = "mssql"
  /\ pc[w] = "drop" => Kind # "postgres"
  /\ pc[w] = "truncate" => Kind = "postgres"
  /\ pc[w] = "cleanup" => Kind # "mssql"

(* The staging table of a writer is as its own statements left it.         *)
StagingOk(w) ==
  ~Ambiguous(Table(w)) =>
    /\ pc[w] = "drop" /\ Kind = "mssql" => Exists(w)
    /\ pc[w] = "create" /\ Kind # "postgres" => ~Exists(w)
    /\ pc[w] = "truncate" => Exists(w)
    /\ pc[w] \in {"check", "drop", "create", "truncate"} => loaded[w] = {}
    /\ pc[w] \in {"load", "merge"} => Exists(w) /\ staged[Place(w)] = loaded[w]
    /\ pc[w] = "load" => loaded[w] \subseteq Chunk(w)
    /\ pc[w] = "merge" => loaded[w] = Chunk(w)
    /\ pc[w] = "cleanup" => Chunk(w) \subseteq target[Table(w)]

(* Where IDENTITY_INSERT is ON, its writer retries a merge, or gave up.    *)
GaveUp(v) ==
  HasIdentity(v) /\ pc[v] = "failed" /\ (<<v, "deadlock">> \in hit \/ Ambiguous(Table(v)))

IdentityInv ==
  \A s \in Sessions : identity[s] # None =>
    \E v \in Writers :
      /\ Table(v) = identity[s]
      /\ GaveUp(v) \/ (HasIdentity(v) /\ pc[v] = "merge" /\ sess[v] = s)

(* The parts of OkMeansMerged and FailuresContained for one writer.        *)
Merged(w) ==
  ~Ambiguous(Table(w)) => \A i \in 1..chunk[w] : Chunks(w)[i] \subseteq target[Table(w)]

Contained(w) ==
  pc[w] = "failed" /\ ~Ambiguous(Table(w)) =>
    \/ \E h \in hit : h[1] = w
    \/ HasIdentity(w) /\ \E v \in Writers : Table(v) # Table(w) /\ GaveUp(v)

UpsertInv ==
  /\ SessionInv /\ DataInv /\ IdentityInv /\ WholeChunksOnly
  /\ \A w \in Writers : StepOk(w) /\ StagingOk(w) /\ Merged(w) /\ Contained(w)
-----------------------------------------------------------------------------
(* The jobs do not change.                                                 *)
LEMMA JobsStay ==
  ASSUME scen' = scen
  PROVE  /\ Kind' = Kind /\ Rows' = Rows /\ Tables' = Tables /\ Names' = Names
         /\ \A w : Table(w)' = Table(w) /\ Chunks(w)' = Chunks(w)
         /\ \A w : StagingName(w)' = StagingName(w) /\ (HasIdentity(w)' <=> HasIdentity(w))
         /\ \A w \in Writers : Ambiguous(Table(w))' <=> Ambiguous(Table(w))
         /\ \A t : Ambiguous(t)' <=> Ambiguous(t)
<1>1. /\ Kind' = Kind /\ Rows' = Rows /\ Tables' = Tables /\ Names' = Names
      /\ \A w : Table(w)' = Table(w) /\ Chunks(w)' = Chunks(w)
      /\ \A w : StagingName(w)' = StagingName(w) /\ (HasIdentity(w)' <=> HasIdentity(w))
  BY DEF Kind, Rows, Tables, Names, Table, Chunks, StagingName, HasIdentity
<1>2. \A t : Ambiguous(t)' <=> Ambiguous(t)
  BY <1>1 DEF Ambiguous
<1>3. \A w \in Writers : Ambiguous(Table(w))' <=> Ambiguous(Table(w))
  BY <1>1 DEF Ambiguous
<1> QED BY <1>1, <1>2, <1>3

LEMMA JobFacts ==
  ASSUME scen \in Scenarios, NEW w \in Writers
  PROVE  /\ Kind \in {"postgres", "mysql", "mssql"} /\ Table(w) \in Tables
         /\ StagingName(w) \in Names
         /\ Len(Chunks(w)) \in Nat /\ DOMAIN Chunks(w) = 1..Len(Chunks(w))
         /\ \A i \in DOMAIN Chunks(w) : Chunks(w)[i] \subseteq Rows
<1>1. Chunks(w) \in Seq(SUBSET UNION Range(Chunks(w)))
  BY JobAssumption DEF Chunks
<1>2. PICK R : R = UNION Range(Chunks(w))
  OBVIOUS
<1>3. Len(Chunks(w)) \in Nat /\ DOMAIN Chunks(w) = 1..Len(Chunks(w))
  BY <1>1, <1>2
<1>4. ASSUME NEW i \in DOMAIN Chunks(w)
      PROVE  Chunks(w)[i] \subseteq Rows
  <2>1. Chunks(w)[i] \in Range(Chunks(w))
    BY <1>4 DEF Range
  <2> QED BY <2>1 DEF Rows
<1>5. Kind \in {"postgres", "mysql", "mssql"}
  BY JobAssumption DEF Kind
<1> QED BY <1>3, <1>4, <1>5 DEF Tables, Names

(* The name of a staging table begins with the table's and ends with what  *)
(* tells its writers apart.                                                *)
Parts(w, n, c, d) ==
  /\ n \in Nat
  /\ c = None => Len(StagingName(w)) = n + 1 /\ StagingName(w)[n + 1] = d
  /\ c # None => /\ Len(StagingName(w)) = n + 2
                 /\ StagingName(w)[n + 1] = c /\ StagingName(w)[n + 2] = d

LEMMA NameParts ==
  ASSUME scen \in Scenarios, NEW w \in Writers
  PROVE  Parts(w, Len(Table(w)), scen.job[w].partition_id, scen.job[w].writer_id)
<1>1. PICK n, c, d : n = Len(Table(w)) /\ c = scen.job[w].partition_id /\ d = scen.job[w].writer_id
  OBVIOUS
<1>2. PICK t, s : t = Table(w) /\ s = StagingName(w)
  OBVIOUS
<1>3. t \in Seq(Range(t))
  BY <1>2, JobAssumption DEF Table
<1>4. PICK U : U = Range(t) \cup {c, d}
  OBVIOUS
<1>5. t \in Seq(U) /\ c \in U /\ d \in U
  BY <1>3, <1>4
<1>6. CASE c = None
  <2>1. s = t \o << >> \o <<d>>
    BY <1>1, <1>2, <1>6 DEF StagingName, Table
  <2>2. n \in Nat /\ Len(s) = n + 1 /\ s[n + 1] = d
    BY <1>1, <1>2, <1>5, <2>1
  <2> QED BY <1>1, <1>2, <1>6, <2>2 DEF Parts
<1>7. CASE c # None
  <2>1. s = t \o <<c>> \o <<d>>
    BY <1>1, <1>2, <1>7 DEF StagingName, Table
  <2>2. n \in Nat /\ Len(s) = n + 2 /\ s[n + 1] = c /\ s[n + 2] = d
    BY <1>1, <1>2, <1>5, <2>1
  <2> QED BY <1>1, <1>2, <1>7, <2>2 DEF Parts
<1> QED BY <1>6, <1>7

(* Two writers of a table have different staging tables; so have writers   *)
(* of different tables, unless these are ambiguous.                        *)
LEMMA NamesDiffer ==
  ASSUME scen \in Scenarios, NEW v \in Writers, NEW w \in Writers, v # w, ~Ambiguous(Table(v))
  PROVE  StagingName(v) # StagingName(w)
<1>1. CASE Table(v) # Table(w)
  BY <1>1 DEF Ambiguous
<1>2. CASE Table(v) = Table(w)
  <2>1. PICK n : n = Len(Table(v)) /\ n = Len(Table(w))
    BY <1>2
  <2>2. PICK p, x : p = scen.job[v].partition_id /\ x = scen.job[v].writer_id
    OBVIOUS
  <2>3. PICK q, y : q = scen.job[w].partition_id /\ y = scen.job[w].writer_id
    OBVIOUS
  <2>4. <<p, x>> # <<q, y>>
    BY <1>2, <2>2, <2>3, JobAssumption DEF Table
  <2>5. Parts(v, n, p, x) /\ Parts(w, n, q, y)
    BY <2>1, <2>2, <2>3, NameParts
  <2>6. PICK s, r : s = StagingName(v) /\ r = StagingName(w)
    OBVIOUS
  <2>7. s # r
    BY <2>4, <2>5, <2>6 DEF Parts
  <2> QED BY <2>6, <2>7
<1> QED BY <1>1, <1>2

(* A step of w leaves the others alone: it changes its own staging table,  *)
(* what belongs to its session, and its target table.                      *)
Frame(w) ==
  /\ scen' = scen
  /\ \A v \in Writers \ {w} :
       pc'[v] = pc[v] /\ sess'[v] = sess[v] /\ chunk'[v] = chunk[v] /\ loaded'[v] = loaded[v]
  /\ \A p : p # Place(w) /\ p[1] \notin Sessions \cap {sess[w]} =>
       /\ p \in DOMAIN staged' <=> p \in DOMAIN staged
       /\ p \in DOMAIN staged => staged'[p] = staged[p]
  /\ \A t \in Tables : target[t] \subseteq target'[t]
  /\ hit \subseteq hit'

LEMMA OthersStaging ==
  ASSUME UpsertInv, NEW w \in Writers, Frame(w), NEW v \in Writers \ {w}
  PROVE  StagingOk(v)'
<1>0. scen \in Scenarios /\ scen' = scen /\ StagingOk(v)
  BY DEF UpsertInv, SessionInv, Frame
<1>1. SUFFICES ASSUME ~Ambiguous(Table(v)), Working(v)
               PROVE  StagingOk(v)'
  <2>1. Ambiguous(Table(v))' <=> Ambiguous(Table(v))
    BY <1>0, JobsStay
  <2>2. pc'[v] = pc[v]
    BY DEF Frame
  <2>3. Ambiguous(Table(v))' => StagingOk(v)'
    BY DEF StagingOk
  <2>4. ~Working(v) => StagingOk(v)'
    BY <2>2 DEF StagingOk, Working
  <2> QED BY <1>1, <2>1, <2>3, <2>4
<1>2. /\ pc'[v] = pc[v] /\ loaded'[v] = loaded[v] /\ Chunk(v)' = Chunk(v)
      /\ Place(v)' = Place(v) /\ Kind' = Kind
  BY <1>0 DEF Frame, Chunk, Chunks, Place, Kind, StagingName
<1>3. Place(v) # Place(w) /\ Place(v)[1] \notin Sessions \cap {sess[w]}
  <2>1. StagingName(v) # StagingName(w)
    BY <1>0, <1>1, NamesDiffer
  <2>2. Place(v) # Place(w)
    BY <2>1 DEF Place
  <2>3. sess[v] # sess[w]
    BY <1>1 DEF UpsertInv, SessionInv
  <2>4. Place(v)[1] = IF Kind = "postgres" THEN sess[v] ELSE "schema"
    BY DEF Place
  <2> QED BY <2>2, <2>3, <2>4, StagingAssumption
<1>4. (Exists(v)' <=> Exists(v)) /\ (Exists(v) => staged'[Place(v)] = staged[Place(v)])
  <2>1. PICK p : p = Place(v)
    OBVIOUS
  <2>2. (p \in DOMAIN staged' <=> p \in DOMAIN staged)
        /\ (p \in DOMAIN staged => staged'[p] = staged[p])
    BY <1>3, <2>1 DEF Frame
  <2> QED BY <1>2, <2>1, <2>2 DEF Exists
<1>5. Table(v)' = Table(v) /\ target[Table(v)] \subseteq target'[Table(v)]
  BY <1>0, JobFacts DEF Table, Frame
<1>6. Ambiguous(Table(v))' <=> Ambiguous(Table(v))
  BY <1>0, JobsStay
<1> QED BY <1>0, <1>1, <1>2, <1>4, <1>5, <1>6 DEF StagingOk

LEMMA SessionKept ==
  ASSUME SessionInv, scen' = scen, NEW w \in Writers,
         NEW x \in Steps, pc' = [pc EXCEPT ![w] = x],
         NEW c \in Sessions \cup {None}, sess' = [sess EXCEPT ![w] = c],
         c \in Sessions <=> x \notin {"idle", "end", "failed"},
         \A v \in Writers \ {w} : c \in Sessions => sess[v] # c,
         chunk' \in [Writers -> Nat]
  PROVE  SessionInv'
<1>1. pc' \in [Writers -> Steps] /\ sess' \in [Writers -> Sessions \cup {None}]
  BY DEF SessionInv
<1>2. /\ pc'[w] = x /\ sess'[w] = c
      /\ \A v \in Writers \ {w} : pc'[v] = pc[v] /\ sess'[v] = sess[v]
  BY DEF SessionInv
<1>3. \A v \in Writers : sess'[v] \in Sessions <=> Working(v)'
  BY <1>2 DEF SessionInv, Working
<1>4. \A u, v \in Writers : u # v /\ Working(u)' => sess'[u] # sess'[v]
  BY <1>2, <1>3 DEF SessionInv, Working
<1> QED BY <1>1, <1>3, <1>4 DEF SessionInv

(* What a step of w has to show.                                           *)
LEMMA OneWriter ==
  ASSUME UpsertInv, NEW w \in Writers, Frame(w), pc[w] # "failed",
         SessionInv', DataInv', IdentityInv', WholeChunksOnly',
         StepOk(w)', StagingOk(w)', Merged(w)', Contained(w)'
  PROVE  UpsertInv'
<1>1. scen' = scen /\ scen \in Scenarios
  BY DEF UpsertInv, SessionInv, Frame
<1>2. ASSUME NEW v \in Writers \ {w}
      PROVE  StepOk(v)' /\ StagingOk(v)' /\ Merged(v)' /\ Contained(v)'
  <2>1. /\ pc'[v] = pc[v] /\ chunk'[v] = chunk[v] /\ Kind' = Kind /\ Chunks(v)' = Chunks(v)
        /\ Table(v)' = Table(v) /\ Table(v) \in Tables
        /\ (Ambiguous(Table(v))' <=> Ambiguous(Table(v)))
        /\ (HasIdentity(v)' <=> HasIdentity(v))
    BY <1>1, JobsStay, JobFacts DEF Frame
  <2>2. StepOk(v)'
    BY <2>1 DEF UpsertInv, StepOk, Working
  <2>3. Merged(v)'
    BY <2>1 DEF UpsertInv, Merged, Frame
  <2>4. \A u \in Writers : Table(u)' = Table(u) /\ (GaveUp(u) => GaveUp(u)')
    <3> TAKE u \in Writers
    <3>1. Table(u)' = Table(u) /\ (Ambiguous(Table(u))' <=> Ambiguous(Table(u)))
          /\ (HasIdentity(u)' <=> HasIdentity(u))
      BY <1>1, JobsStay
    <3>2. pc[u] = "failed" => pc'[u] = "failed"
      BY DEF Frame
    <3> QED BY <3>1, <3>2 DEF GaveUp, Frame
  <2>5. Contained(v)'
    BY <2>1, <2>4 DEF UpsertInv, Contained, Frame
  <2> QED BY <2>2, <2>3, <2>5, OthersStaging
<1> QED BY <1>2 DEF UpsertInv

LEMMA TargetSame ==
  ASSUME WholeChunksOnly, scen' = scen, target' = target
  PROVE  WholeChunksOnly'
BY JobsStay DEF WholeChunksOnly

(* The sets that a session is in the hands of, with IDENTITY_INSERT ON.    *)
LEMMA IdentitySame ==
  ASSUME IdentityInv, NEW w \in Writers, Frame(w), pc[w] # "failed", identity' = identity,
         pc[w] = "merge" /\ HasIdentity(w) =>
           IdentityRefused(w) \/ (pc'[w] = "merge" /\ sess'[w] = sess[w])
  PROVE  IdentityInv'
<1> SUFFICES ASSUME NEW s \in Sessions, identity[s] # None
             PROVE  \E v \in Writers :
                      /\ Table(v)' = identity[s]
                      /\ GaveUp(v)' \/ (HasIdentity(v)' /\ pc'[v] = "merge" /\ sess'[v] = s)
  BY DEF IdentityInv
<1>1. PICK v \in Writers :
        /\ Table(v) = identity[s]
        /\ GaveUp(v) \/ (HasIdentity(v) /\ pc[v] = "merge" /\ sess[v] = s)
  BY DEF IdentityInv
<1>2. /\ Table(v)' = Table(v) /\ (Ambiguous(Table(v))' <=> Ambiguous(Table(v)))
      /\ (HasIdentity(v)' <=> HasIdentity(v))
  BY JobsStay DEF Frame
<1>3. GaveUp(v) => GaveUp(v)'
  BY <1>2 DEF GaveUp, Frame
<1>4. HasIdentity(v) /\ pc[v] = "merge" /\ sess[v] = s => pc'[v] = "merge" /\ sess'[v] = s
  BY <1>1 DEF Frame, IdentityRefused
<1> QED BY <1>1, <1>2, <1>3, <1>4

(* A connection that is free, or about to be used by another table, may    *)
(* have been left with IDENTITY_INSERT ON only by a writer that gave up.   *)
LEMMA RefusedByAnother ==
  ASSUME UpsertInv, NEW w \in Writers, Working(w), IdentityRefused(w)
  PROVE  HasIdentity(w) /\ \E v \in Writers : Table(v) # Table(w) /\ GaveUp(v)
<1>1. HasIdentity(w) /\ identity[sess[w]] # None /\ identity[sess[w]] # Table(w) /\ sess[w] \in Sessions
  BY DEF IdentityRefused, UpsertInv, SessionInv
<1>2. PICK v \in Writers :
        /\ Table(v) = identity[sess[w]]
        /\ GaveUp(v) \/ (HasIdentity(v) /\ pc[v] = "merge" /\ sess[v] = sess[w])
  BY <1>1 DEF UpsertInv, IdentityInv
<1>3. ~(pc[v] = "merge" /\ sess[v] = sess[w])
  BY <1>1, <1>2 DEF UpsertInv, SessionInv, Working
<1> QED BY <1>1, <1>2, <1>3

(* A merge adds the chunk that was loaded, and nothing else.               *)
LEMMA MergeAdds ==
  ASSUME UpsertInv, scen' = scen, NEW w \in Writers, pc[w] = "merge", Exists(w), target' = MergedRows(w)
  PROVE  /\ target' \in [Tables -> SUBSET Rows] /\ WholeChunksOnly'
         /\ \A t \in Tables : target[t] \subseteq target'[t]
         /\ ~Ambiguous(Table(w)) => Chunk(w) \subseteq target'[Table(w)]
<1>0. /\ scen \in Scenarios /\ target \in [Tables -> SUBSET Rows] /\ Table(w) \in Tables
      /\ staged[Place(w)] \subseteq Rows
  BY JobFacts DEF UpsertInv, SessionInv, DataInv, Exists
<1>1. /\ target' \in [Tables -> SUBSET Rows]
      /\ target'[Table(w)] = target[Table(w)] \cup staged[Place(w)]
      /\ \A t \in Tables : t # Table(w) => target'[t] = target[t]
  BY <1>0 DEF MergedRows
<1>2. ~Ambiguous(Table(w)) => staged[Place(w)] = Chunk(w)
  BY DEF UpsertInv, StagingOk
<1>3. ~Ambiguous(Table(w)) => Chunk(w) \subseteq target'[Table(w)]
  BY <1>1, <1>2
<1>4. /\ chunk[w] \in Nat /\ chunk[w] + 1 \in DOMAIN Chunks(w)
      /\ Chunk(w) = Chunks(w)[chunk[w] + 1]
  BY <1>0, JobFacts DEF UpsertInv, SessionInv, StepOk, Working, Chunk
<1>5. ASSUME NEW t \in Tables, ~Ambiguous(t)
      PROVE  /\ target'[t] \subseteq UNION {UNION Range(Chunks(u)) : u \in {v \in Writers : Table(v) = t}}
             /\ \A u \in Writers : Table(u) = t =>
                  \A i \in DOMAIN Chunks(u) :
                    Chunks(u)[i] \subseteq target'[t] \/ Chunks(u)[i] \cap target'[t] = {}
  <2>1. /\ target[t] \subseteq UNION {UNION Range(Chunks(u)) : u \in {v \in Writers : Table(v) = t}}
        /\ \A u \in Writers : Table(u) = t =>
             \A i \in DOMAIN Chunks(u) :
               Chunks(u)[i] \subseteq target[t] \/ Chunks(u)[i] \cap target[t] = {}
    BY <1>5 DEF UpsertInv, WholeChunksOnly
  <2>2. CASE t # Table(w)
    BY <1>1, <2>1, <2>2
  <2>3. CASE t = Table(w)
    <3>1. target'[t] = target[t] \cup Chunk(w)
      BY <1>1, <1>2, <1>5, <2>3
    <3>2. Chunk(w) \subseteq UNION Range(Chunks(w))
      <4>1. Chunk(w) \in Range(Chunks(w))
        BY <1>4 DEF Range
      <4> QED BY <4>1
    <3>3. ASSUME NEW u \in Writers, Table(u) = t, NEW i \in DOMAIN Chunks(u)
          PROVE  Chunks(u)[i] \subseteq target'[t] \/ Chunks(u)[i] \cap target'[t] = {}
      <4>1. CASE u = w /\ i = chunk[w] + 1
        BY <1>4, <3>1, <4>1
      <4>2. CASE ~(u = w /\ i = chunk[w] + 1)
        <5>1. Chunks(u)[i] \cap Chunk(w) = {}
          BY <1>0, <1>4, <2>3, <3>3, <4>2, JobAssumption DEF Table, Chunks
        <5> QED BY <2>1, <3>1, <3>3, <5>1
      <4> QED BY <4>1, <4>2
    <3> QED BY <2>1, <2>3, <3>1, <3>2, <3>3
  <2> QED BY <2>2, <2>3
<1>6. WholeChunksOnly'
  BY <1>5, JobsStay DEF WholeChunksOnly
<1>7. \A t \in Tables : target[t] \subseteq target'[t]
  BY <1>1
<1> QED BY <1>1, <1>3, <1>6, <1>7
-----------------------------------------------------------------------------
(* A writer goes on with its connection.                                   *)
LEMMA Moves ==
  ASSUME UpsertInv, NEW w \in Writers, Working(w), scen' = scen,
         NEW x \in Steps, x \notin {"idle", "end", "failed"}, Go(w, x),
         UNCHANGED <<sess, chunk>>
  PROVE  /\ SessionInv' /\ pc'[w] = x /\ Place(w)' = Place(w) /\ Chunk(w)' = Chunk(w)
         /\ \A v \in Writers \ {w} : pc'[v] = pc[v]
<1>1. PICK c : c = sess[w]
  OBVIOUS
<1>2. c \in Sessions /\ sess' = [sess EXCEPT ![w] = c]
      /\ \A v \in Writers \ {w} : sess[v] # c
  BY <1>1 DEF UpsertInv, SessionInv
<1>3. chunk' \in [Writers -> Nat] /\ pc' = [pc EXCEPT ![w] = x]
  BY DEF UpsertInv, SessionInv, Go
<1>4. SessionInv'
  BY <1>2, <1>3, SessionKept DEF UpsertInv
<1>5. pc'[w] = x /\ \A v \in Writers \ {w} : pc'[v] = pc[v]
  BY <1>3 DEF UpsertInv, SessionInv
<1>6. Place(w)' = Place(w) /\ Chunk(w)' = Chunk(w)
  BY DEF Place, Kind, StagingName, Chunk, Chunks
<1> QED BY <1>4, <1>5, <1>6

(* It gives it back, at the end of a chunk or failing.                     *)
LEMMA Leaves ==
  ASSUME UpsertInv, NEW w \in Writers, scen' = scen,
         NEW x \in {"idle", "end", "failed"}, Go(w, x), Release(w), chunk' \in [Writers -> Nat]
  PROVE  /\ SessionInv' /\ pc'[w] = x
         /\ \A v \in Writers \ {w} : pc'[v] = pc[v] /\ sess'[v] = sess[v]
<1>1. /\ pc' = [pc EXCEPT ![w] = x] /\ sess' = [sess EXCEPT ![w] = None]
      /\ x \in Steps /\ None \notin Sessions
  BY StagingAssumption DEF Go, Release, Steps
<1>2. SessionInv'
  BY <1>1, SessionKept DEF UpsertInv
<1>3. pc'[w] = x /\ \A v \in Writers \ {w} : pc'[v] = pc[v] /\ sess'[v] = sess[v]
  BY <1>1 DEF UpsertInv, SessionInv
<1> QED BY <1>2, <1>3

(* upsert_chunk returns an error.                                          *)
LEMMA FailsInv ==
  ASSUME UpsertInv, NEW w \in Writers, Frame(w), pc[w] # "failed", Fails(w), chunk' = chunk,
         DataInv', IdentityInv', WholeChunksOnly', Contained(w)'
  PROVE  UpsertInv'
<1>0. scen' = scen /\ scen \in Scenarios
  BY DEF Frame, UpsertInv, SessionInv
<1>1. SessionInv' /\ pc'[w] = "failed"
  BY <1>0, Leaves DEF Fails, UpsertInv, SessionInv
<1>2. StepOk(w)' /\ StagingOk(w)' /\ Merged(w)'
  <2>1. Chunks(w)' = Chunks(w) /\ Table(w)' = Table(w) /\ Table(w) \in Tables
        /\ (Ambiguous(Table(w))' <=> Ambiguous(Table(w)))
    BY <1>0, JobsStay, JobFacts
  <2>2. StepOk(w)'
    BY <1>1, <2>1 DEF UpsertInv, StepOk, Working
  <2>3. StagingOk(w)'
    BY <1>1 DEF StagingOk
  <2>4. Merged(w)'
    BY <2>1 DEF UpsertInv, Merged, Frame
  <2> QED BY <2>2, <2>3, <2>4
<1> QED BY <1>1, <1>2, OneWriter

(* It returns Ok.                                                          *)
LEMMA DoneInv ==
  ASSUME UpsertInv, NEW w \in Writers, Frame(w), Working(w), UpsertDone(w),
         DataInv', IdentityInv', WholeChunksOnly',
         ~Ambiguous(Table(w)) => Chunk(w) \subseteq target'[Table(w)]
  PROVE  UpsertInv'
<1>0. scen' = scen /\ scen \in Scenarios
  BY DEF Frame, UpsertInv, SessionInv
<1>1. chunk' \in [Writers -> Nat] /\ chunk'[w] = chunk[w] + 1 /\ chunk[w] \in Nat
  BY DEF UpsertDone, UpsertInv, SessionInv
<1>2. SessionInv' /\ pc'[w] = "idle"
  BY <1>0, <1>1, Leaves DEF UpsertDone
<1>3. Chunks(w)' = Chunks(w) /\ Table(w)' = Table(w) /\ Table(w) \in Tables
      /\ (Ambiguous(Table(w))' <=> Ambiguous(Table(w))) /\ Len(Chunks(w)) \in Nat
  BY <1>0, JobsStay, JobFacts
<1>4. StepOk(w)'
  BY <1>1, <1>2, <1>3 DEF UpsertInv, StepOk, Working
<1>5. StagingOk(w)' /\ Contained(w)'
  BY <1>2 DEF StagingOk, Contained
<1>6. Merged(w)'
  <2> SUFFICES ASSUME ~Ambiguous(Table(w)), NEW i \in 1..(chunk[w] + 1)
               PROVE  Chunks(w)[i] \subseteq target'[Table(w)]
    BY <1>1, <1>3 DEF Merged
  <2>1. CASE i = chunk[w] + 1
    BY <2>1 DEF Chunk
  <2>2. CASE i # chunk[w] + 1
    <3>1. i \in 1..chunk[w]
      BY <1>1, <2>2
    <3> QED BY <1>3, <3>1 DEF UpsertInv, Merged, Frame
  <2> QED BY <2>1, <2>2
<1>7. pc[w] # "failed"
  BY DEF Working
<1> QED BY <1>2, <1>4, <1>5, <1>6, <1>7, OneWriter

(* The rest of a step that goes on.                                        *)
LEMMA GoesOn ==
  ASSUME UpsertInv, NEW w \in Writers, Frame(w), pc[w] \notin {"failed", "end"},
         pc'[w] \notin {"idle", "end", "failed"}, chunk' = chunk,
         chunk[w] < Len(Chunks(w)),
         pc'[w] = "check" => Kind = "mssql", pc'[w] = "drop" => Kind # "postgres",
         pc'[w] = "truncate" => Kind = "postgres", pc'[w] = "cleanup" => Kind # "mssql",
         SessionInv', DataInv', IdentityInv', WholeChunksOnly', StagingOk(w)'
  PROVE  UpsertInv'
<1>0. scen' = scen /\ scen \in Scenarios
  BY DEF Frame, UpsertInv, SessionInv
<1>1. Chunks(w)' = Chunks(w) /\ Table(w)' = Table(w) /\ Table(w) \in Tables /\ Kind' = Kind
      /\ (Ambiguous(Table(w))' <=> Ambiguous(Table(w)))
  BY <1>0, JobsStay, JobFacts
<1>2. StepOk(w)'
  BY <1>1 DEF UpsertInv, StepOk
<1>3. Contained(w)'
  BY DEF Contained
<1>4. Merged(w)'
  BY <1>1 DEF UpsertInv, Merged, Frame
<1> QED BY <1>2, <1>3, <1>4, OneWriter
-----------------------------------------------------------------------------
LEMMA CheckoutInv ==
  ASSUME UpsertInv, NEW w \in Writers, Checkout(w)
  PROVE  UpsertInv'
<1> DEFINE x == CASE Kind = "postgres" -> "create" [] Kind = "mssql" -> "check" [] Kind = "mysql" -> "drop"
<1>0. /\ scen \in Scenarios /\ Kind \in {"postgres", "mysql", "mssql"}
      /\ pc[w] = "idle" /\ chunk[w] < Len(Chunks(w)) /\ Go(w, x)
      /\ loaded' = [loaded EXCEPT ![w] = {}] /\ tries' = [tries EXCEPT ![w] = 0]
      /\ UNCHANGED <<scen, chunk, staged, identity, target, hit>>
  BY JobFacts DEF Checkout, UpsertInv, SessionInv
<1>1. PICK s \in Sessions : Free(s) /\ sess' = [sess EXCEPT ![w] = s]
  BY DEF Checkout
<1>2. x \in {"create", "check", "drop"} /\ (x = "check" => Kind = "mssql")
      /\ (x = "drop" => Kind = "mysql") /\ (x = "create" => Kind = "postgres")
  BY <1>0
<1> HIDE DEF x
<1>3. x \in Steps /\ pc' = [pc EXCEPT ![w] = x] /\ chunk' \in [Writers -> Nat]
      /\ \A v \in Writers \ {w} : sess[v] # s
  BY <1>0, <1>1, <1>2 DEF Steps, Go, Free, UpsertInv, SessionInv
<1>4. SessionInv'
  <2>1. PICK c \in Sessions \cup {None} : c = s
    OBVIOUS
  <2>2. /\ SessionInv /\ scen' = scen /\ sess' = [sess EXCEPT ![w] = c]
        /\ c \in Sessions <=> x \notin {"idle", "end", "failed"}
        /\ \A v \in Writers \ {w} : c \in Sessions => sess[v] # c
    BY <1>0, <1>1, <1>2, <1>3, <2>1 DEF UpsertInv
  <2>3. PICK y \in Steps : y = x
    BY <1>3
  <2> QED BY <1>3, <2>2, <2>3, SessionKept
<1>5. pc'[w] = x /\ \A v \in Writers \ {w} : pc'[v] = pc[v] /\ sess'[v] = sess[v]
  BY <1>1, <1>3 DEF UpsertInv, SessionInv
<1>6. Frame(w)
  BY <1>0, <1>5 DEF Frame, UpsertInv, DataInv
<1>7. DataInv'
  <2>1. loaded' \in [Writers -> SUBSET Rows] /\ tries' \in [Writers -> 0..MaxRetries]
    BY <1>0, StagingAssumption DEF UpsertInv, DataInv
  <2> QED BY <1>0, <2>1, JobsStay DEF UpsertInv, DataInv
<1>8. IdentityInv'
  BY <1>0, <1>6, IdentitySame DEF UpsertInv
<1>9. WholeChunksOnly'
  BY <1>0, TargetSame DEF UpsertInv
<1>10. Kind' = Kind
  BY <1>0, JobsStay
<1>11. StagingOk(w)'
  <2>1. loaded'[w] = {}
    BY <1>0 DEF UpsertInv, DataInv
  <2> QED BY <1>2, <1>5, <1>10, <2>1 DEF StagingOk
<1> QED BY <1>0, <1>2, <1>4, <1>5, <1>6, <1>7, <1>8, <1>9, <1>11, GoesOn

LEMMA EndWriterInv ==
  ASSUME UpsertInv, NEW w \in Writers, EndWriter(w)
  PROVE  UpsertInv'
<1>0. /\ pc[w] = "idle" /\ Go(w, "end") /\ sess[w] = None
      /\ UNCHANGED <<scen, sess, chunk, loaded, tries, staged, identity, target, hit>>
  BY DEF EndWriter, UpsertInv, SessionInv, Working
<1>1. Release(w) /\ chunk' \in [Writers -> Nat]
  BY <1>0 DEF Release, UpsertInv, SessionInv
<1>2. SessionInv' /\ pc'[w] = "end"
      /\ \A v \in Writers \ {w} : pc'[v] = pc[v] /\ sess'[v] = sess[v]
  BY <1>0, <1>1, Leaves
<1>3. Frame(w)
  BY <1>0, <1>2 DEF Frame
<1>4. DataInv' /\ WholeChunksOnly' /\ IdentityInv'
  BY <1>0, <1>3, JobsStay, TargetSame, IdentitySame DEF UpsertInv, DataInv
<1>5. Chunks(w)' = Chunks(w) /\ Table(w)' = Table(w)
      /\ (Ambiguous(Table(w))' <=> Ambiguous(Table(w)))
  BY <1>0, JobsStay
<1>6. StepOk(w)' /\ StagingOk(w)' /\ Contained(w)'
  BY <1>0, <1>2, <1>5 DEF UpsertInv, StepOk, StagingOk, Contained, Working
<1>7. Merged(w)'
  BY <1>0, <1>5 DEF UpsertInv, Merged
<1> QED BY <1>0, <1>2, <1>3, <1>4, <1>6, <1>7, OneWriter

(* A failure of its own is recorded.                                       *)
LEMMA OwnFailure ==
  ASSUME NEW w \in Writers, NEW k, hit' = hit \cup {<<w, k>>}
  PROVE  Contained(w)' /\ hit \subseteq hit'
<1>1. PICK h : h = <<w, k>>
  OBVIOUS
<1>2. h \in hit' /\ h[1] = w
  BY <1>1
<1> QED BY <1>2 DEF Contained

LEMMA WaitTimesOutInv ==
  ASSUME UpsertInv, NEW w \in Writers, WaitTimesOut(w)
  PROVE  UpsertInv'
<1>0. /\ pc[w] = "idle" /\ Fails(w) /\ hit' = hit \cup {<<w, "wait">>}
      /\ UNCHANGED <<scen, chunk, loaded, tries, staged, identity, target>>
  BY DEF WaitTimesOut
<1>1. \A v \in Writers \ {w} : pc'[v] = pc[v] /\ sess'[v] = sess[v]
  BY <1>0, Leaves DEF Fails, UpsertInv, SessionInv
<1>2. Frame(w)
  BY <1>0, <1>1 DEF Frame
<1>3. DataInv' /\ WholeChunksOnly' /\ IdentityInv'
  BY <1>0, <1>2, JobsStay, TargetSame, IdentitySame DEF UpsertInv, DataInv
<1>4. Contained(w)'
  BY <1>0, OwnFailure
<1> QED BY <1>0, <1>2, <1>3, <1>4, FailsInv

(* Its staging table is the only one a working writer touches.             *)
LEMMA OwnTable ==
  ASSUME UpsertInv, NEW w \in Writers, Working(w), NEW rows \in SUBSET Rows
  PROVE  /\ Place(w) \in (Sessions \cup {"schema"}) \X Names
         /\ staged' = WithTable(w, rows) =>
              /\ Place(w) \in DOMAIN staged' /\ staged'[Place(w)] = rows
              /\ \A p : p # Place(w) =>
                   /\ p \in DOMAIN staged' <=> p \in DOMAIN staged
                   /\ p \in DOMAIN staged => staged'[p] = staged[p]
         /\ staged' = WithoutTable(w) =>
              /\ Place(w) \notin DOMAIN staged'
              /\ \A p : p # Place(w) => (p \in DOMAIN staged' <=> p \in DOMAIN staged)
              /\ \A p \in DOMAIN staged' : staged'[p] = staged[p]
<1>1. Place(w) \in (Sessions \cup {"schema"}) \X Names
  BY JobFacts DEF Place, UpsertInv, SessionInv
<1>2. ASSUME staged' = WithTable(w, rows)
      PROVE  /\ Place(w) \in DOMAIN staged' /\ staged'[Place(w)] = rows
             /\ \A p : p # Place(w) =>
                  /\ p \in DOMAIN staged' <=> p \in DOMAIN staged
                  /\ p \in DOMAIN staged => staged'[p] = staged[p]
  <2>1. PICK q : q = Place(w)
    OBVIOUS
  <2>2. staged' = [p \in DOMAIN staged \cup {q} |-> IF p = q THEN rows ELSE staged[p]]
    BY <1>2, <2>1 DEF WithTable
  <2> QED BY <2>1, <2>2
<1> QED BY <1>1, <1>2 DEF WithoutTable, Restrict

(* Before the staging table is filled nothing is loaded.                   *)
LEMMA NothingLoaded ==
  ASSUME UpsertInv, NEW w \in Writers, pc[w] \in {"check", "drop", "create", "truncate"},
         scen' = scen, loaded' = loaded, ~Ambiguous(Table(w))'
  PROVE  ~Ambiguous(Table(w)) /\ loaded[w] = {} /\ loaded'[w] = {}
BY JobsStay DEF UpsertInv, StagingOk

LEMMA CheckStagingInv ==
  ASSUME UpsertInv, NEW w \in Writers, CheckStaging(w)
  PROVE  UpsertInv'
<1>1. PICK x : x = IF Exists(w) THEN "drop" ELSE "create"
  OBVIOUS
<1>2. /\ pc[w] = "check" /\ Go(w, x) /\ x \in Steps /\ x \in {"drop", "create"}
      /\ UNCHANGED <<scen, sess, chunk, loaded, tries, staged, identity, target, hit>>
  BY <1>1 DEF CheckStaging, Steps
<1>3. Working(w) /\ Kind = "mssql" /\ chunk[w] < Len(Chunks(w))
  BY <1>2 DEF Working, UpsertInv, StepOk
<1>4. /\ SessionInv' /\ pc'[w] = x /\ Place(w)' = Place(w)
      /\ \A v \in Writers \ {w} : pc'[v] = pc[v]
  BY <1>2, <1>3, Moves
<1>5. Frame(w)
  BY <1>2, <1>4 DEF Frame
<1>6. DataInv' /\ WholeChunksOnly' /\ IdentityInv'
  BY <1>2, <1>5, JobsStay, TargetSame, IdentitySame DEF UpsertInv, DataInv
<1>7. StagingOk(w)'
  <2>1. Exists(w)' <=> Exists(w)
    BY <1>2, <1>4 DEF Exists
  <2>2. ~Ambiguous(Table(w))' => loaded'[w] = {}
    BY <1>2, NothingLoaded
  <2> QED BY <1>1, <1>2, <1>4, <2>1, <2>2 DEF StagingOk
<1> QED BY <1>2, <1>3, <1>4, <1>5, <1>6, <1>7, GoesOn

(* A statement on its staging table by which w goes on.                    *)
LEMMA TableStep ==
  ASSUME UpsertInv, NEW w \in Writers, Working(w), pc[w] # "merge",
         NEW x \in Steps, x \notin {"idle", "end", "failed"}, Go(w, x),
         x = "check" => Kind = "mssql", x = "drop" => Kind # "postgres",
         x = "truncate" => Kind = "postgres", x = "cleanup" => Kind # "mssql",
         UNCHANGED <<scen, sess, chunk, tries, identity, target, hit>>,
         loaded' \in [Writers -> SUBSET Rows], \A v \in Writers \ {w} : loaded'[v] = loaded[v],
         \/ staged' = staged
         \/ staged' = WithoutTable(w)
         \/ \E rows \in SUBSET Rows : staged' = WithTable(w, rows),
         SessionInv' /\ pc'[w] = x /\ Place(w)' = Place(w) /\ Chunk(w)' = Chunk(w) => StagingOk(w)'
  PROVE  UpsertInv'
<1>1. /\ SessionInv' /\ pc'[w] = x /\ Place(w)' = Place(w) /\ Chunk(w)' = Chunk(w)
      /\ \A v \in Writers \ {w} : pc'[v] = pc[v]
  BY Moves
<1>2. /\ \A p : p # Place(w) =>
           /\ p \in DOMAIN staged' <=> p \in DOMAIN staged
           /\ p \in DOMAIN staged => staged'[p] = staged[p]
      /\ DOMAIN staged' \subseteq (Sessions \cup {"schema"}) \X Names
      /\ \A p \in DOMAIN staged' : staged'[p] \subseteq Rows
  <2>0. /\ DOMAIN staged \subseteq (Sessions \cup {"schema"}) \X Names
        /\ \A p \in DOMAIN staged : staged[p] \subseteq Rows
    BY DEF UpsertInv, DataInv
  <2>1. CASE staged' = staged
    BY <2>0, <2>1
  <2>2. CASE staged' = WithoutTable(w)
    BY <2>0, <2>2 DEF WithoutTable, Restrict
  <2>3. CASE \E rows \in SUBSET Rows : staged' = WithTable(w, rows)
    <3>1. PICK rows \in SUBSET Rows : staged' = WithTable(w, rows)
      BY <2>3
    <3>2. PICK q : q = Place(w)
      OBVIOUS
    <3>3. /\ q \in (Sessions \cup {"schema"}) \X Names /\ q \in DOMAIN staged' /\ staged'[q] = rows
          /\ \A p : p # q => /\ p \in DOMAIN staged' <=> p \in DOMAIN staged
                             /\ p \in DOMAIN staged => staged'[p] = staged[p]
      BY <3>1, <3>2, OwnTable
    <3>4. DOMAIN staged' \subseteq (Sessions \cup {"schema"}) \X Names
      <4> SUFFICES ASSUME NEW p, p \in DOMAIN staged'
                   PROVE  p \in (Sessions \cup {"schema"}) \X Names
        OBVIOUS
      <4>1. p = q \/ p \in DOMAIN staged
        BY <3>3, Zenon
      <4> QED BY <2>0, <3>3, <4>1
    <3>5. \A p \in DOMAIN staged' : staged'[p] \subseteq Rows
      <4> TAKE p \in DOMAIN staged'
      <4>1. CASE p = q
        BY <3>1, <3>3, <4>1
      <4>2. CASE p # q
        <5>1. p \in DOMAIN staged /\ staged'[p] = staged[p]
          BY <3>3, <4>2, Zenon
        <5> QED BY <2>0, <5>1
      <4> QED BY <4>1, <4>2
    <3>6. \A p : p # Place(w) => /\ p \in DOMAIN staged' <=> p \in DOMAIN staged
                                 /\ p \in DOMAIN staged => staged'[p] = staged[p]
      BY <3>2, <3>3, Zenon
    <3> QED BY <3>4, <3>5, <3>6
  <2> QED BY <2>1, <2>2, <2>3
<1>3. Frame(w)
  BY <1>1, <1>2 DEF Frame
<1>4. DataInv'
  BY <1>2, JobsStay DEF UpsertInv, DataInv
<1>5. WholeChunksOnly' /\ IdentityInv'
  BY <1>3, TargetSame, IdentitySame DEF UpsertInv, Working
<1>6. chunk[w] < Len(Chunks(w)) /\ pc[w] \notin {"failed", "end"}
  BY DEF UpsertInv, StepOk, Working
<1> QED BY <1>1, <1>3, <1>4, <1>5, <1>6, GoesOn

(* A statement that its staging table refuses: w fails, and its table is   *)
(* ambiguous, for else it would have found the staging table as it left it.*)
LEMMA TableRefuses ==
  ASSUME UpsertInv, NEW w \in Writers, Working(w), pc[w] # "merge", Fails(w),
         UNCHANGED <<scen, chunk, loaded, tries, staged, identity, target, hit>>,
         Ambiguous(Table(w))
  PROVE  UpsertInv'
<1>1. \A v \in Writers \ {w} : pc'[v] = pc[v] /\ sess'[v] = sess[v]
  BY Leaves DEF Fails, UpsertInv, SessionInv
<1>2. Frame(w) /\ pc[w] # "failed"
  BY <1>1 DEF Frame, Working
<1>3. DataInv' /\ WholeChunksOnly' /\ IdentityInv'
  BY <1>2, JobsStay, TargetSame, IdentitySame DEF UpsertInv, DataInv
<1>4. Contained(w)'
  BY JobsStay DEF Contained
<1> QED BY <1>2, <1>3, <1>4, FailsInv

LEMMA DropStagingInv ==
  ASSUME UpsertInv, NEW w \in Writers, DropStaging(w)
  PROVE  UpsertInv'
<1>1. /\ pc[w] = "drop" /\ Working(w) /\ scen \in Scenarios
      /\ UNCHANGED <<scen, chunk, loaded, tries, identity, target, hit>>
      /\ loaded \in [Writers -> SUBSET Rows]
  BY DEF DropStaging, Working, UpsertInv, SessionInv, DataInv
<1>2. CASE Kind = "mssql" /\ ~Exists(w)
  <2>1. Fails(w) /\ staged' = staged
    BY <1>2 DEF DropStaging
  <2>2. Ambiguous(Table(w))
    BY <1>1, <1>2 DEF UpsertInv, StagingOk
  <2> QED BY <1>1, <2>1, <2>2, TableRefuses
<1>3. CASE ~(Kind = "mssql" /\ ~Exists(w))
  <2>1. Go(w, "create") /\ staged' = WithoutTable(w) /\ sess' = sess
    BY <1>3 DEF DropStaging
  <2>2. PICK x \in Steps : x = "create"
    BY DEF Steps
  <2>3. ASSUME pc'[w] = x, Place(w)' = Place(w)
        PROVE  StagingOk(w)'
    <3>1. ~Exists(w)'
      BY <2>1, <2>3 DEF Exists, WithoutTable, Restrict
    <3>2. ~Ambiguous(Table(w))' => loaded'[w] = {}
      BY <1>1, NothingLoaded
    <3> QED BY <2>2, <2>3, <3>1, <3>2 DEF StagingOk
  <2> QED BY <1>1, <2>1, <2>2, <2>3, TableStep
<1> QED BY <1>2, <1>3

LEMMA CreateStagingInv ==
  ASSUME UpsertInv, NEW w \in Writers, CreateStaging(w)
  PROVE  UpsertInv'
<1>1. /\ pc[w] = "create" /\ Working(w) /\ scen \in Scenarios
      /\ UNCHANGED <<scen, chunk, loaded, tries, identity, target, hit>>
      /\ loaded \in [Writers -> SUBSET Rows]
  BY DEF CreateStaging, Working, UpsertInv, SessionInv, DataInv
<1>2. CASE Kind # "postgres" /\ Exists(w)
  <2>1. Fails(w) /\ staged' = staged
    BY <1>2 DEF CreateStaging
  <2>2. Ambiguous(Table(w))
    BY <1>1, <1>2 DEF UpsertInv, StagingOk
  <2> QED BY <1>1, <2>1, <2>2, TableRefuses
<1>3. CASE Kind = "postgres" /\ Exists(w)
  <2>1. Go(w, "truncate") /\ staged' = staged /\ sess' = sess
    BY <1>3 DEF CreateStaging
  <2>2. PICK x \in Steps : x = "truncate"
    BY DEF Steps
  <2>3. ASSUME pc'[w] = x, Place(w)' = Place(w)
        PROVE  StagingOk(w)'
    <3>1. Exists(w)'
      BY <1>3, <2>1, <2>3 DEF Exists
    <3>2. ~Ambiguous(Table(w))' => loaded'[w] = {}
      BY <1>1, NothingLoaded
    <3> QED BY <2>2, <2>3, <3>1, <3>2 DEF StagingOk
  <2> QED BY <1>1, <1>3, <2>1, <2>2, <2>3, TableStep
<1>4. CASE ~Exists(w)
  <2>1. PICK x : x = IF Kind = "postgres" THEN "truncate" ELSE "load"
    OBVIOUS
  <2>2. Go(w, x) /\ staged' = WithTable(w, {}) /\ sess' = sess
    BY <1>4, <2>1 DEF CreateStaging
  <2>3. x \in Steps /\ x \in {"truncate", "load"} /\ (x = "truncate" => Kind = "postgres")
    BY <2>1 DEF Steps
  <2>4. {} \in SUBSET Rows
    OBVIOUS
  <2>5. ASSUME pc'[w] = x, Place(w)' = Place(w)
        PROVE  StagingOk(w)'
    <3>1. Exists(w)' /\ staged'[Place(w)] = {}
      BY <1>1, <2>2, <2>4, <2>5, OwnTable DEF Exists
    <3>2. ~Ambiguous(Table(w))' => loaded'[w] = {}
      BY <1>1, NothingLoaded
    <3> QED BY <2>3, <2>5, <3>1, <3>2 DEF StagingOk
  <2> QED BY <1>1, <2>2, <2>3, <2>4, <2>5, TableStep
<1> QED BY <1>2, <1>3, <1>4

LEMMA TruncateInv ==
  ASSUME UpsertInv, NEW w \in Writers, Truncate(w)
  PROVE  UpsertInv'
<1>1. /\ pc[w] = "truncate" /\ Working(w) /\ Go(w, "load") /\ staged' = WithTable(w, {})
      /\ UNCHANGED <<scen, sess, chunk, loaded, tries, identity, target, hit>>
      /\ loaded \in [Writers -> SUBSET Rows] /\ {} \in SUBSET Rows
  BY DEF Truncate, Working, UpsertInv, DataInv
<1>2. PICK x \in Steps : x = "load"
  BY DEF Steps
<1>3. ASSUME pc'[w] = x, Place(w)' = Place(w)
      PROVE  StagingOk(w)'
  <2>1. Exists(w)' /\ staged'[Place(w)] = {}
    BY <1>1, <1>3, OwnTable DEF Exists
  <2>2. ~Ambiguous(Table(w))' => loaded'[w] = {}
    BY <1>1, NothingLoaded
  <2> QED BY <1>2, <1>3, <2>1, <2>2 DEF StagingOk
<1> QED BY <1>1, <1>2, <1>3, TableStep

LEMMA LoadStagingInv ==
  ASSUME UpsertInv, NEW w \in Writers, LoadStaging(w)
  PROVE  UpsertInv'
<1>1. /\ pc[w] = "load" /\ Working(w) /\ scen \in Scenarios
      /\ UNCHANGED <<scen, chunk, tries, identity, target, hit>>
      /\ loaded \in [Writers -> SUBSET Rows]
  BY DEF LoadStaging, Working, UpsertInv, SessionInv, DataInv
<1>2. CASE ~Exists(w)
  <2>1. Fails(w) /\ loaded' = loaded /\ staged' = staged
    BY <1>2 DEF LoadStaging
  <2>2. Ambiguous(Table(w))
    BY <1>1, <1>2 DEF UpsertInv, StagingOk
  <2> QED BY <1>1, <2>1, <2>2, TableRefuses
<1>3. CASE Exists(w)
  <2>1. PICK part \in Loads(w) :
          /\ loaded' = [loaded EXCEPT ![w] = @ \cup part]
          /\ staged' = WithTable(w, staged[Place(w)] \cup part)
          /\ Go(w, IF loaded'[w] = Chunk(w) THEN "merge" ELSE "load")
          /\ sess' = sess
    BY <1>3 DEF LoadStaging
  <2>2. Chunk(w) \subseteq Rows
    <3>1. chunk[w] + 1 \in DOMAIN Chunks(w)
      BY <1>1, JobFacts DEF UpsertInv, SessionInv, StepOk
    <3> QED BY <1>1, <3>1, JobFacts DEF Chunk
  <2>3. part \subseteq Chunk(w)
    BY <2>1 DEF Loads
  <2>4. /\ loaded'[w] = loaded[w] \cup part /\ loaded' \in [Writers -> SUBSET Rows]
        /\ \A v \in Writers \ {w} : loaded'[v] = loaded[v]
    BY <1>1, <2>1, <2>2, <2>3
  <2>5. PICK rows : rows = staged[Place(w)] \cup part
    OBVIOUS
  <2>6. rows \in SUBSET Rows
    BY <1>3, <2>2, <2>3, <2>5 DEF UpsertInv, DataInv, Exists
  <2>7. PICK x \in {"load", "merge"} : x = IF loaded'[w] = Chunk(w) THEN "merge" ELSE "load"
    OBVIOUS
  <2>8. x \in Steps /\ Go(w, x) /\ staged' = WithTable(w, rows)
    BY <2>1, <2>5, <2>7 DEF Steps
  <2>9. ASSUME pc'[w] = x, Place(w)' = Place(w), Chunk(w)' = Chunk(w)
        PROVE  StagingOk(w)'
    <3>1. Exists(w)' /\ staged'[Place(w)] = rows
      BY <1>1, <2>6, <2>8, <2>9, OwnTable DEF Exists
    <3>2. ~Ambiguous(Table(w))' => /\ rows = loaded'[w] /\ loaded'[w] \subseteq Chunk(w)
                                   /\ x = "merge" => loaded'[w] = Chunk(w)
      <4>1. ~Ambiguous(Table(w))' => ~Ambiguous(Table(w))
        BY <1>1, JobsStay
      <4>2. ~Ambiguous(Table(w)) => staged[Place(w)] = loaded[w] /\ loaded[w] \subseteq Chunk(w)
        BY <1>1 DEF UpsertInv, StagingOk
      <4> QED BY <2>3, <2>4, <2>5, <2>7, <4>1, <4>2
    <3> QED BY <2>9, <3>1, <3>2 DEF StagingOk
  <2> QED BY <1>1, <2>1, <2>4, <2>6, <2>7, <2>8, <2>9, TableStep
<1> QED BY <1>2, <1>3

LEMMA CleanupInv ==
  ASSUME UpsertInv, NEW w \in Writers, Cleanup(w)
  PROVE  UpsertInv'
<1>1. /\ pc[w] = "cleanup" /\ Working(w) /\ staged' = WithoutTable(w) /\ UpsertDone(w)
      /\ UNCHANGED <<scen, loaded, tries, identity, target, hit>>
  BY DEF Cleanup, Working
<1>2. chunk' \in [Writers -> Nat] /\ \A v \in Writers \ {w} : chunk'[v] = chunk[v]
  BY <1>1 DEF UpsertDone, UpsertInv, SessionInv
<1>3. \A v \in Writers \ {w} : pc'[v] = pc[v] /\ sess'[v] = sess[v]
  BY <1>1, <1>2, Leaves DEF UpsertDone
<1>4. Frame(w)
  BY <1>1, <1>2, <1>3 DEF Frame, WithoutTable, Restrict
<1>5. DataInv'
  <2>1. /\ DOMAIN staged' \subseteq DOMAIN staged
        /\ \A p \in DOMAIN staged' : staged'[p] = staged[p]
    BY <1>1 DEF WithoutTable, Restrict
  <2> QED BY <1>1, <2>1, JobsStay DEF UpsertInv, DataInv
<1>6. WholeChunksOnly' /\ IdentityInv'
  BY <1>1, <1>4, TargetSame, IdentitySame DEF UpsertInv
<1>7. ~Ambiguous(Table(w)) => Chunk(w) \subseteq target'[Table(w)]
  BY <1>1 DEF UpsertInv, StagingOk
<1> QED BY <1>1, <1>4, <1>5, <1>6, <1>7, DoneInv

(* IDENTITY_INSERT goes OFF on the connection of w, or ON for its table    *)
(* when w fails or tries again.                                            *)
LEMMA IdentityMoves ==
  ASSUME UpsertInv, NEW w \in Writers, Frame(w), Working(w),
         NEW i \in Tables \cup {None}, identity' = [identity EXCEPT ![sess[w]] = i],
         i # None => i = Table(w) /\ (GaveUp(w)' \/ (HasIdentity(w) /\ pc'[w] = "merge" /\ sess'[w] = sess[w]))
  PROVE  IdentityInv'
<1>0. identity \in [Sessions -> Tables \cup {None}] /\ sess[w] \in Sessions /\ scen' = scen
  BY DEF UpsertInv, SessionInv, DataInv, Frame
<1> SUFFICES ASSUME NEW s \in Sessions, identity'[s] # None
             PROVE  \E v \in Writers :
                      /\ Table(v)' = identity'[s]
                      /\ GaveUp(v)' \/ (HasIdentity(v)' /\ pc'[v] = "merge" /\ sess'[v] = s)
  BY DEF IdentityInv
<1>1. CASE s = sess[w]
  <2>1. identity'[s] = i
    BY <1>0, <1>1
  <2> QED BY <1>0, <1>1, <2>1, JobsStay
<1>2. CASE s # sess[w]
  <2>1. identity'[s] = identity[s]
    BY <1>0, <1>2
  <2>2. PICK v \in Writers :
          /\ Table(v) = identity[s]
          /\ GaveUp(v) \/ (HasIdentity(v) /\ pc[v] = "merge" /\ sess[v] = s)
    BY <2>1 DEF UpsertInv, IdentityInv
  <2>3. /\ Table(v)' = Table(v) /\ (Ambiguous(Table(v))' <=> Ambiguous(Table(v)))
        /\ (HasIdentity(v)' <=> HasIdentity(v))
    BY <1>0, JobsStay
  <2>4. GaveUp(v) => GaveUp(v)'
    BY <2>3 DEF GaveUp, Frame, Working
  <2>5. HasIdentity(v) /\ pc[v] = "merge" /\ sess[v] = s => pc'[v] = "merge" /\ sess'[v] = s
    BY <1>2 DEF Frame
  <2> QED BY <2>1, <2>2, <2>3, <2>4, <2>5
<1> QED BY <1>1, <1>2

(* SET IDENTITY_INSERT ... ON without the OFF, or nothing where it does    *)
(* not apply or is refused.                                                *)
LEMMA IdentityLeftOn ==
  ASSUME UpsertInv, NEW w \in Writers, Frame(w), pc[w] = "merge", identity' = LeftOn(w),
         HasIdentity(w) /\ ~IdentityRefused(w) =>
           GaveUp(w)' \/ (pc'[w] = "merge" /\ sess'[w] = sess[w])
  PROVE  IdentityInv' /\ identity' \in [Sessions -> Tables \cup {None}]
<1>0. /\ identity \in [Sessions -> Tables \cup {None}] /\ sess[w] \in Sessions
      /\ Table(w) \in Tables /\ Working(w)
  BY JobFacts DEF UpsertInv, SessionInv, DataInv, Working
<1>1. CASE HasIdentity(w) /\ ~IdentityRefused(w)
  <2>1. PICK i \in Tables \cup {None} : i = Table(w)
    BY <1>0
  <2>2. identity' = [identity EXCEPT ![sess[w]] = i]
    BY <1>1, <2>1 DEF LeftOn
  <2>3. IdentityInv'
    BY <1>0, <1>1, <2>1, <2>2, IdentityMoves
  <2> QED BY <1>0, <2>2, <2>3
<1>2. CASE ~(HasIdentity(w) /\ ~IdentityRefused(w))
  <2>1. identity' = identity
    BY <1>2 DEF LeftOn
  <2> QED BY <1>0, <1>2, <2>1, IdentitySame DEF UpsertInv
<1> QED BY <1>1, <1>2

(* SET IDENTITY_INSERT ... OFF, where it was ON.                           *)
LEMMA IdentityOff ==
  ASSUME UpsertInv, NEW w \in Writers, Frame(w), Working(w),
         \/ identity' = [identity EXCEPT ![sess[w]] = None]
         \/ /\ identity' = identity
            /\ pc[w] = "merge" /\ HasIdentity(w) => IdentityRefused(w)
  PROVE  IdentityInv' /\ identity' \in [Sessions -> Tables \cup {None}]
<1>0. identity \in [Sessions -> Tables \cup {None}] /\ sess[w] \in Sessions
  BY DEF UpsertInv, SessionInv, DataInv
<1>1. CASE identity' = [identity EXCEPT ![sess[w]] = None]
  <2>1. PICK i \in Tables \cup {None} : i = None
    OBVIOUS
  <2>2. identity' = [identity EXCEPT ![sess[w]] = i]
    BY <1>1, <2>1
  <2>3. IdentityInv'
    BY <2>1, <2>2, IdentityMoves
  <2> QED BY <1>0, <2>2, <2>3
<1>2. CASE /\ identity' = identity
           /\ pc[w] = "merge" /\ HasIdentity(w) => IdentityRefused(w)
  BY <1>0, <1>2, IdentitySame DEF UpsertInv, Working
<1> QED BY <1>1, <1>2

(* A merge that IDENTITY_INSERT refuses fails for another writer's sake.   *)
LEMMA RefusalContained ==
  ASSUME UpsertInv, NEW w \in Writers, Frame(w), Working(w), IdentityRefused(w)
  PROVE  Contained(w)'
<1>1. PICK v \in Writers : Table(v) # Table(w) /\ GaveUp(v)
  BY RefusedByAnother
<1>2. HasIdentity(w) /\ v # w
  BY <1>1, RefusedByAnother
<1>3. /\ Table(v)' = Table(v) /\ Table(w)' = Table(w) /\ (HasIdentity(w)' <=> HasIdentity(w))
      /\ (HasIdentity(v)' <=> HasIdentity(v)) /\ (Ambiguous(Table(v))' <=> Ambiguous(Table(v)))
  BY JobsStay DEF Frame
<1>4. GaveUp(v)'
  BY <1>1, <1>2, <1>3 DEF GaveUp, Frame
<1> QED BY <1>1, <1>2, <1>3, <1>4 DEF Contained

LEMMA MergeInv ==
  ASSUME UpsertInv, NEW w \in Writers, Merge(w)
  PROVE  UpsertInv'
<1>0. /\ pc[w] = "merge" /\ Working(w) /\ scen \in Scenarios
      /\ UNCHANGED <<scen, loaded, tries, staged, hit>>
      /\ target \in [Tables -> SUBSET Rows]
  BY DEF Merge, Working, UpsertInv, SessionInv, DataInv
<1>1. CASE Exists(w) /\ ~IdentityRefused(w)
  <2>1. /\ target' = MergedRows(w)
        /\ identity' = IF HasIdentity(w) THEN [identity EXCEPT ![sess[w]] = None] ELSE identity
        /\ IF Kind = "mssql" THEN UpsertDone(w)
           ELSE Go(w, "cleanup") /\ UNCHANGED <<sess, chunk>>
    BY <1>1 DEF Merge
  <2>2. /\ target' \in [Tables -> SUBSET Rows] /\ WholeChunksOnly'
        /\ \A t \in Tables : target[t] \subseteq target'[t]
        /\ ~Ambiguous(Table(w)) => Chunk(w) \subseteq target'[Table(w)]
    BY <1>0, <1>1, <2>1, MergeAdds
  <2>3. CASE Kind = "mssql"
    <3>1. UpsertDone(w) /\ chunk' \in [Writers -> Nat] /\ \A v \in Writers \ {w} : chunk'[v] = chunk[v]
      BY <2>1, <2>3 DEF UpsertDone, UpsertInv, SessionInv
    <3>2. \A v \in Writers \ {w} : pc'[v] = pc[v] /\ sess'[v] = sess[v]
      BY <1>0, <3>1, Leaves DEF UpsertDone
    <3>3. Frame(w)
      BY <1>0, <2>2, <3>1, <3>2 DEF Frame
    <3>4. IdentityInv' /\ identity' \in [Sessions -> Tables \cup {None}]
      BY <1>0, <2>1, <3>3, IdentityOff
    <3>5. DataInv'
      BY <1>0, <2>2, <3>4, JobsStay DEF UpsertInv, DataInv
    <3> QED BY <1>0, <2>2, <3>1, <3>3, <3>4, <3>5, DoneInv
  <2>4. CASE Kind # "mssql"
    <3>1. PICK x \in Steps : x = "cleanup"
      BY DEF Steps
    <3>2. Go(w, x) /\ UNCHANGED <<sess, chunk>>
      BY <2>1, <2>4, <3>1
    <3>3. /\ SessionInv' /\ pc'[w] = x /\ Chunk(w)' = Chunk(w)
          /\ \A v \in Writers \ {w} : pc'[v] = pc[v]
      BY <1>0, <3>1, <3>2, Moves
    <3>4. Frame(w)
      BY <1>0, <2>2, <3>2, <3>3 DEF Frame
    <3>5. IdentityInv' /\ identity' \in [Sessions -> Tables \cup {None}]
      BY <1>0, <2>1, <3>4, IdentityOff
    <3>6. DataInv'
      BY <1>0, <2>2, <3>5, JobsStay DEF UpsertInv, DataInv
    <3>7. StagingOk(w)'
      <4>1. Table(w)' = Table(w) /\ (Ambiguous(Table(w))' <=> Ambiguous(Table(w)))
        BY <1>0, JobsStay
      <4> QED BY <2>2, <3>1, <3>3, <4>1 DEF StagingOk
    <3>8. chunk[w] < Len(Chunks(w))
      BY <1>0 DEF UpsertInv, StepOk
    <3> QED BY <1>0, <2>2, <2>4, <3>1, <3>2, <3>3, <3>4, <3>5, <3>6, <3>7, <3>8, GoesOn
  <2> QED BY <2>3, <2>4
<1>2. CASE ~(Exists(w) /\ ~IdentityRefused(w))
  <2>1. Fails(w) /\ identity' = LeftOn(w) /\ UNCHANGED <<chunk, target>>
    BY <1>2 DEF Merge
  <2>2. pc'[w] = "failed" /\ \A v \in Writers \ {w} : pc'[v] = pc[v] /\ sess'[v] = sess[v]
    BY <1>0, <2>1, Leaves DEF Fails, UpsertInv, SessionInv
  <2>3. Frame(w)
    BY <1>0, <2>1, <2>2 DEF Frame
  <2>4. ~IdentityRefused(w) => Ambiguous(Table(w)) /\ Ambiguous(Table(w))'
    BY <1>0, <1>2, JobsStay DEF UpsertInv, StagingOk
  <2>5. HasIdentity(w) /\ ~IdentityRefused(w) => GaveUp(w)'
    BY <1>0, <2>2, <2>4, JobsStay DEF GaveUp
  <2>6. IdentityInv' /\ identity' \in [Sessions -> Tables \cup {None}]
    BY <1>0, <2>1, <2>3, <2>5, IdentityLeftOn
  <2>7. DataInv' /\ WholeChunksOnly'
    BY <1>0, <2>1, <2>6, JobsStay, TargetSame DEF UpsertInv, DataInv
  <2>8. Contained(w)'
    BY <1>0, <2>3, <2>4, RefusalContained DEF Contained
  <2> QED BY <1>0, <2>1, <2>3, <2>6, <2>7, <2>8, FailsInv
<1> QED BY <1>1, <1>2

LEMMA DeadlockInv ==
  ASSUME UpsertInv, NEW w \in Writers, Deadlock(w)
  PROVE  UpsertInv'
<1>0. /\ pc[w] = "merge" /\ Working(w) /\ ~IdentityRefused(w) /\ identity' = LeftOn(w)
      /\ UNCHANGED <<scen, loaded, staged, target>>
      /\ tries \in [Writers -> 0..MaxRetries] /\ (Retry(w) \/ GiveUp(w))
  BY DEF Deadlock, Working, UpsertInv, DataInv
<1>1. CASE Retry(w)
  <2>1. /\ UNCHANGED <<pc, sess, chunk, hit>> /\ tries[w] < MaxRetries
        /\ tries' = [tries EXCEPT ![w] = @ + 1]
    BY <1>1 DEF Retry
  <2>2. tries' \in [Writers -> 0..MaxRetries]
    <3>1. PICK n : n = tries[w] + 1
      OBVIOUS
    <3>2. n \in 0..MaxRetries
      <4>1. tries[w] \in 0..MaxRetries
        BY <1>0
      <4> QED BY <2>1, <3>1, <4>1, StagingAssumption
    <3>3. tries' = [tries EXCEPT ![w] = n]
      BY <2>1, <3>1
    <3> QED BY <1>0, <3>2, <3>3
  <2>3. PICK x \in Steps : x = "merge"
    BY DEF Steps
  <2>4. Go(w, x)
    BY <1>0, <2>1, <2>3 DEF Go, UpsertInv, SessionInv
  <2>5. SessionInv' /\ Place(w)' = Place(w) /\ Chunk(w)' = Chunk(w)
    BY <1>0, <2>1, <2>3, <2>4, Moves
  <2>6. Frame(w)
    BY <1>0, <2>1 DEF Frame
  <2>7. IdentityInv' /\ identity' \in [Sessions -> Tables \cup {None}]
    BY <1>0, <2>1, <2>6, IdentityLeftOn
  <2>8. DataInv' /\ WholeChunksOnly'
    BY <1>0, <2>2, <2>7, JobsStay, TargetSame DEF UpsertInv, DataInv
  <2>9. StagingOk(w)'
    <3>1. Ambiguous(Table(w))' <=> Ambiguous(Table(w))
      BY <1>0, JobsStay
    <3>2. Exists(w)' <=> Exists(w)
      BY <1>0, <2>5 DEF Exists
    <3> QED BY <1>0, <2>1, <2>5, <3>1, <3>2 DEF UpsertInv, StagingOk
  <2>10. chunk[w] < Len(Chunks(w))
    BY <1>0 DEF UpsertInv, StepOk
  <2> QED BY <1>0, <2>1, <2>5, <2>6, <2>7, <2>8, <2>9, <2>10, GoesOn
<1>2. CASE GiveUp(w)
  <2>1. Fails(w) /\ hit' = hit \cup {<<w, "deadlock">>} /\ UNCHANGED <<chunk, tries>>
    BY <1>2 DEF GiveUp
  <2>2. pc'[w] = "failed" /\ \A v \in Writers \ {w} : pc'[v] = pc[v] /\ sess'[v] = sess[v]
    BY <1>0, <2>1, Leaves DEF Fails, UpsertInv, SessionInv
  <2>3. Frame(w)
    BY <1>0, <2>1, <2>2 DEF Frame
  <2>4. HasIdentity(w) => GaveUp(w)'
    BY <1>0, <2>1, <2>2, JobsStay DEF GaveUp
  <2>5. IdentityInv' /\ identity' \in [Sessions -> Tables \cup {None}]
    BY <1>0, <2>3, <2>4, IdentityLeftOn
  <2>6. DataInv' /\ WholeChunksOnly'
    BY <1>0, <2>1, <2>5, JobsStay, TargetSame DEF UpsertInv, DataInv
  <2>7. Contained(w)'
    BY <2>1, OwnFailure
  <2> QED BY <1>0, <2>1, <2>3, <2>5, <2>6, <2>7, FailsInv
<1> QED BY <1>0, <1>1, <1>2

LEMMA StatementFailsInv ==
  ASSUME UpsertInv, NEW w \in Writers, StatementFails(w)
  PROVE  UpsertInv'
<1>0. /\ Working(w) /\ UNCHANGED <<scen, loaded, tries, staged, target>>
      /\ \/ identity' = [identity EXCEPT ![sess[w]] = None]
         \/ /\ identity' = identity
            /\ pc[w] = "merge" /\ HasIdentity(w) => IdentityRefused(w)
  BY DEF StatementFails
<1>1. ASSUME Frame(w)
      PROVE  IdentityInv' /\ DataInv' /\ WholeChunksOnly'
  <2>1. IdentityInv' /\ identity' \in [Sessions -> Tables \cup {None}]
    BY <1>0, <1>1, IdentityOff
  <2> QED BY <1>0, <2>1, JobsStay, TargetSame DEF UpsertInv, DataInv
<1>2. CASE Kind = "postgres" /\ pc[w] = "cleanup"
  <2>1. UpsertDone(w) /\ hit' = hit
    BY <1>2 DEF StatementFails
  <2>2. chunk' \in [Writers -> Nat] /\ \A v \in Writers \ {w} : chunk'[v] = chunk[v]
    BY <2>1 DEF UpsertDone, UpsertInv, SessionInv
  <2>3. \A v \in Writers \ {w} : pc'[v] = pc[v] /\ sess'[v] = sess[v]
    BY <1>0, <2>1, <2>2, Leaves DEF UpsertDone
  <2>4. Frame(w)
    BY <1>0, <2>1, <2>2, <2>3 DEF Frame
  <2>5. ~Ambiguous(Table(w)) => Chunk(w) \subseteq target'[Table(w)]
    BY <1>0, <1>2 DEF UpsertInv, StagingOk
  <2> QED BY <1>0, <1>1, <2>1, <2>4, <2>5, DoneInv
<1>3. CASE ~(Kind = "postgres" /\ pc[w] = "cleanup")
  <2>1. Fails(w) /\ hit' = hit \cup {<<w, "statement">>} /\ chunk' = chunk
    BY <1>3 DEF StatementFails
  <2>2. \A v \in Writers \ {w} : pc'[v] = pc[v] /\ sess'[v] = sess[v]
    BY <1>0, <2>1, Leaves DEF Fails, UpsertInv, SessionInv
  <2>3. Frame(w)
    BY <1>0, <2>1, <2>2 DEF Frame
  <2>4. Contained(w)' /\ pc[w] # "failed"
    BY <1>0, <2>1, OwnFailure DEF Working
  <2> QED BY <1>1, <2>1, <2>3, <2>4, FailsInv
<1> QED BY <1>2, <1>3

LEMMA SessionLostInv ==
  ASSUME UpsertInv, NEW w \in Writers, SessionLost(w)
  PROVE  UpsertInv'
<1>0. /\ Working(w) /\ Fails(w) /\ hit' = hit \cup {<<w, "session">>}
      /\ staged' = Restrict(staged, {p \in DOMAIN staged : p[1] # sess[w]})
      /\ identity' = [identity EXCEPT ![sess[w]] = None]
      /\ UNCHANGED <<scen, chunk, loaded, tries>>
      /\ sess[w] \in Sessions /\ target \in [Tables -> SUBSET Rows]
  BY DEF SessionLost, UpsertInv, SessionInv, DataInv
<1>1. /\ target' \in [Tables -> SUBSET Rows] /\ WholeChunksOnly'
      /\ \A t \in Tables : target[t] \subseteq target'[t]
  <2>1. CASE target' = target
    BY <1>0, <2>1, TargetSame DEF UpsertInv
  <2>2. CASE pc[w] = "merge" /\ Exists(w) /\ target' = MergedRows(w)
    <3>1. Rows' = Rows /\ Tables' = Tables
      BY <1>0, JobsStay
    <3> QED BY <1>0, <2>2, <3>1, MergeAdds
  <2> QED BY <2>1, <2>2 DEF SessionLost
<1>2. \A v \in Writers \ {w} : pc'[v] = pc[v] /\ sess'[v] = sess[v]
  BY <1>0, Leaves DEF Fails, UpsertInv, SessionInv
<1>3. /\ DOMAIN staged' = {p \in DOMAIN staged : p[1] # sess[w]}
      /\ \A p \in DOMAIN staged' : staged'[p] = staged[p]
  BY <1>0 DEF Restrict
<1>4. Frame(w)
  <2>1. \A p : p # Place(w) /\ p[1] \notin Sessions \cap {sess[w]} =>
          /\ p \in DOMAIN staged' <=> p \in DOMAIN staged
          /\ p \in DOMAIN staged => staged'[p] = staged[p]
    BY <1>0, <1>3
  <2> QED BY <1>0, <1>1, <1>2, <2>1 DEF Frame
<1>5. IdentityInv' /\ identity' \in [Sessions -> Tables \cup {None}]
  BY <1>0, <1>4, IdentityOff
<1>6. DataInv'
  <2>1. DOMAIN staged' \subseteq DOMAIN staged
    BY <1>3
  <2> QED BY <1>0, <1>1, <1>3, <1>5, <2>1, JobsStay DEF UpsertInv, DataInv
<1>7. Contained(w)' /\ pc[w] # "failed"
  BY <1>0, OwnFailure DEF Working
<1> QED BY <1>0, <1>1, <1>4, <1>5, <1>6, <1>7, FailsInv
-----------------------------------------------------------------------------
LEMMA UpsertStep ==
  ASSUME UpsertInv, [Next]_vars
  PROVE  UpsertInv'
<1>1. CASE UNCHANGED vars
  <2>1. /\ UNCHANGED <<scen, pc, sess, chunk, loaded, tries, staged, identity, target, hit>>
    BY <1>1 DEF vars
  <2>2. SessionInv' /\ DataInv'
    BY <2>1, JobsStay DEF UpsertInv, SessionInv, DataInv, Working
  <2>3. WholeChunksOnly'
    BY <2>1, TargetSame DEF UpsertInv
  <2>4. \A v \in Writers : GaveUp(v)' <=> GaveUp(v)
    BY <2>1, JobsStay DEF GaveUp
  <2>5. IdentityInv'
    BY <2>1, <2>4, JobsStay DEF UpsertInv, IdentityInv
  <2>6. ASSUME NEW w \in Writers
        PROVE  StepOk(w)' /\ StagingOk(w)' /\ Merged(w)' /\ Contained(w)'
    <3>1. /\ Kind' = Kind /\ Chunks(w)' = Chunks(w) /\ Table(w)' = Table(w)
          /\ (Ambiguous(Table(w))' <=> Ambiguous(Table(w))) /\ StagingName(w)' = StagingName(w)
          /\ (HasIdentity(w)' <=> HasIdentity(w)) /\ \A v \in Writers : Table(v)' = Table(v)
      BY <2>1, JobsStay
    <3>2. Place(w)' = Place(w) /\ (Exists(w)' <=> Exists(w)) /\ Chunk(w)' = Chunk(w)
      BY <2>1, <3>1 DEF Place, Exists, Chunk
    <3>3. StepOk(w)' /\ Merged(w)'
      BY <2>1, <3>1 DEF UpsertInv, StepOk, Merged, Working
    <3>4. StagingOk(w)'
      BY <2>1, <3>1, <3>2 DEF UpsertInv, StagingOk
    <3>5. Contained(w)'
      BY <2>1, <2>4, <3>1 DEF UpsertInv, Contained
    <3> QED BY <3>3, <3>4, <3>5
  <2> QED BY <2>2, <2>3, <2>5, <2>6 DEF UpsertInv
<1>2. ASSUME NEW w \in Writers, Upsert(w)
      PROVE  UpsertInv'
  <2>1. CASE Checkout(w)       BY <2>1, CheckoutInv
  <2>2. CASE CheckStaging(w)   BY <2>2, CheckStagingInv
  <2>3. CASE DropStaging(w)    BY <2>3, DropStagingInv
  <2>4. CASE CreateStaging(w)  BY <2>4, CreateStagingInv
  <2>5. CASE Truncate(w)       BY <2>5, TruncateInv
  <2>6. CASE LoadStaging(w)    BY <2>6, LoadStagingInv
  <2>7. CASE Merge(w)          BY <2>7, MergeInv
  <2>8. CASE Deadlock(w)       BY <2>8, DeadlockInv
  <2>9. CASE Cleanup(w)        BY <2>9, CleanupInv
  <2>10. CASE EndWriter(w)      BY <2>10, EndWriterInv
  <2>11. CASE StatementFails(w) BY <2>11, StatementFailsInv
  <2>12. CASE SessionLost(w)    BY <2>12, SessionLostInv
  <2>13. CASE WaitTimesOut(w)   BY <2>13, WaitTimesOutInv
  <2> QED BY <1>2, <2>1, <2>2, <2>3, <2>4, <2>5, <2>6, <2>7, <2>8, <2>9, <2>10, <2>11,
             <2>12, <2>13 DEF Upsert
<1> QED BY <1>1, <1>2 DEF Next

LEMMA UpsertInit ==
  ASSUME Init
  PROVE  UpsertInv
<1>1. SessionInv
  BY StagingAssumption DEF Init, SessionInv, Steps, Working
<1>2. DataInv
  <2>1. /\ loaded \in [Writers -> SUBSET Rows] /\ tries \in [Writers -> 0..MaxRetries]
        /\ identity \in [Sessions -> Tables \cup {None}] /\ target \in [Tables -> SUBSET Rows]
    BY StagingAssumption DEF Init
  <2>2. DOMAIN staged \subseteq {"schema"} \X Names /\ \A p \in DOMAIN staged : staged[p] = scen.leftover
    BY DEF Init
  <2>3. scen.leftover \subseteq Rows
    BY DEF Rows
  <2> QED BY <2>1, <2>2, <2>3 DEF DataInv
<1>3. IdentityInv
  BY DEF Init, IdentityInv
<1>4. WholeChunksOnly
  BY DEF Init, WholeChunksOnly
<1>5. ASSUME NEW w \in Writers
      PROVE  StepOk(w) /\ StagingOk(w) /\ Merged(w) /\ Contained(w)
  <2>1. scen \in Scenarios /\ pc[w] = "idle" /\ chunk[w] = 0
    BY DEF Init
  <2>2. Len(Chunks(w)) \in Nat
    BY <2>1, JobFacts
  <2> QED BY <2>1, <2>2 DEF StepOk, StagingOk, Merged, Contained, Working
<1> QED BY <1>1, <1>2, <1>3, <1>4, <1>5 DEF UpsertInv

(* What every step of every writer keeps.                                  *)
THEOREM UpsertInvariant == Spec => []UpsertInv
<1>1. Init => UpsertInv
  BY UpsertInit
<1>2. UpsertInv /\ [Next]_vars => UpsertInv'
  BY UpsertStep
<1> QED BY <1>1, <1>2, PTL DEF Spec

(* No connection is ever in the hands of two writers, and a writer that    *)
(* does not work holds none.                                               *)
THEOREM UpsertTypes == Spec => []TypeOK
<1>1. UpsertInv => TypeOK
  <2> SUFFICES ASSUME UpsertInv
               PROVE  TypeOK
    OBVIOUS
  <2>1. \A w \in Writers : chunk[w] \in 0..Len(Chunks(w))
    <3> TAKE w \in Writers
    <3>1. chunk[w] \in Nat /\ Len(Chunks(w)) \in Nat /\ chunk[w] <= Len(Chunks(w))
      BY JobFacts DEF UpsertInv, SessionInv, StepOk
    <3> QED BY <3>1
  <2>2. pc \in [Writers -> {"idle", "check", "drop", "create", "truncate", "load",
                            "merge", "cleanup", "end", "failed"}]
    BY DEF UpsertInv, SessionInv, Steps
  <2> QED BY <2>1, <2>2 DEF UpsertInv, SessionInv, DataInv, TypeOK
<1> QED BY <1>1, UpsertInvariant, PTL

(* However the statements of the writers interleave, fail and are retried, *)
(* a chunk is in its target table whole or not at all, and no row reaches  *)
(* another table.                                                          *)
THEOREM ChunksArriveWhole == Spec => []WholeChunksOnly
<1>1. UpsertInv => WholeChunksOnly
  BY DEF UpsertInv
<1> QED BY <1>1, UpsertInvariant, PTL

(* Every chunk for which upsert_chunk returned Ok is in the target.        *)
THEOREM OkIsMerged == Spec => []OkMeansMerged
<1>1. UpsertInv => OkMeansMerged
  BY DEF UpsertInv, OkMeansMerged, Merged
<1> QED BY <1>1, UpsertInvariant, PTL

(* A writer fails for its own failure, or, with an identity column, for    *)
(* the IDENTITY_INSERT that an aborted merge of another table left ON.     *)
THEOREM FailuresStayWithTheWriter == Spec => []FailuresContained
<1>1. UpsertInv => FailuresContained
  BY DEF UpsertInv, FailuresContained, Contained, GaveUp
<1> QED BY <1>1, UpsertInvariant, PTL
=============================================================================
