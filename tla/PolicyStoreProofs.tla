------------------------- MODULE PolicyStoreProofs -------------------------
(***************************************************************************)
(* Proofs about the policy table for every number of versions, assets,     *)
(* profiles and concurrent admin sessions.                                 *)
(***************************************************************************)
EXTENDS PolicyStore, TLAPS

RequestType == [kind : {"none", "create", "derive", "activate"},
                version : Version \cup {None}, base : Version \cup {None},
                asset : Asset \cup {None}, profile : Profile \cup {None},
                doc : Doc \cup {None}]

\* What a session has established at each step of its route.
SessionOK(s) ==
    /\ pc[s] \in ActivatePc \cup {"create_check", "create_insert", "derive_insert"}
       => req[s].version \in Version
    /\ pc[s] = "set_commit" => doc[req[s].version] # None
    /\ pc[s] \in {"create_check", "create_insert"} => req[s].doc \in Doc
    /\ pc[s] \in {"derive_read", "derive_candidate", "derive_insert"}
       => req[s].base \in Version /\ req[s].asset \in Asset /\ req[s].profile \in Profile
    /\ pc[s] \in {"derive_candidate", "derive_insert"} =>
          /\ req[s].doc \in Doc
          /\ doc[req[s].base] # None
          /\ \A a \in Asset \ {req[s].asset} : req[s].doc[a] = doc[req[s].base][a]

Inv == TypeOK /\ \A s \in Session : SessionOK(s)

\* The table as seeded.
LEMMA InvInit == Init => Inv
  BY ConstantAssumption
  DEF Init, Inv, TypeOK, SessionOK, NoRequest, Doc, Pc, ActivatePc

\* Stored versions do not change in any step.
RecordStable(v) == doc[v] # None => doc'[v] = doc[v] /\ meta'[v] = meta[v]

\* No step changes a stored version.
LEMMA RecordsStable ==
  ASSUME TypeOK, [Next]_vars
  PROVE  \A v \in Version : RecordStable(v)
  <1> USE DEF RecordStable, tableVars
  <1>1. ASSUME NEW s \in Session, CreateInsert(s) PROVE \A v \in Version : RecordStable(v)
    BY <1>1 DEF CreateInsert, Insert, TypeOK
  <1>2. ASSUME NEW s \in Session, DeriveInsert(s) PROVE \A v \in Version : RecordStable(v)
    BY <1>2 DEF DeriveInsert, Insert, TypeOK
  <1>3. ASSUME UNCHANGED doc, UNCHANGED meta PROVE \A v \in Version : RecordStable(v)
    BY <1>3
  <1> QED
    BY <1>1, <1>2, <1>3
    DEF Next, vars, CreateRequest, DeriveRequest, ActivateRequest, CreateCheck,
        DeriveRead, DeriveCandidate, UpdateStart, UpdateRows, ReadRecord, SetCommit,
        DbError, Free

\* One session's step leaves the others' requests alone, so what those have
\* established stays true.
LEMMA OthersKeep ==
  ASSUME Inv, [Next]_vars, NEW s \in Session,
         \A o \in Session \ {s} : pc'[o] = pc[o] /\ req'[o] = req[o],
         SessionOK(s)'
  PROVE  \A o \in Session : SessionOK(o)'
  <1>1. \A v \in Version : RecordStable(v)
    BY RecordsStable DEF Inv
  <1>2. ASSUME NEW o \in Session \ {s} PROVE SessionOK(o)'
    BY <1>1, <1>2 DEF SessionOK, Inv, RecordStable, ActivatePc
  <1> QED BY <1>2

\* The inductive step, action by action.
LEMMA InvStep ==
  ASSUME Inv, [Next]_vars
  PROVE  Inv'
  <1>0. TypeOK /\ \A s \in Session : SessionOK(s)
    BY DEF Inv
  <1> USE ConstantAssumption DEF tableVars
  <1>1. ASSUME NEW s \in Session, NEW v \in Version, NEW d \in Doc, CreateRequest(s, v, d) PROVE Inv'
    <2>1. \A o \in Session \ {s} : pc'[o] = pc[o] /\ req'[o] = req[o]
      BY <1>0, <1>1 DEF CreateRequest, NoRequest, Goto, TypeOK
    <2>2. SessionOK(s)'
      BY <1>0, <1>1 DEF CreateRequest, NoRequest, Goto, TypeOK, SessionOK, ActivatePc, Doc
    <2>3. TypeOK'
      BY <1>0, <1>1 DEF CreateRequest, NoRequest, Goto, TypeOK, SessionOK, Pc, ActivatePc, Doc
    <2> QED BY <2>1, <2>2, <2>3, OthersKeep DEF Inv
  <1>2. ASSUME NEW s \in Session, NEW v \in Version, NEW a \in Asset, NEW p \in Profile, DeriveRequest(s, v, a, p) PROVE Inv'
    <2>1. \A o \in Session \ {s} : pc'[o] = pc[o] /\ req'[o] = req[o]
      BY <1>0, <1>2 DEF DeriveRequest, NoRequest, Goto, TypeOK
    <2>2. SessionOK(s)'
      BY <1>0, <1>2 DEF DeriveRequest, NoRequest, Goto, TypeOK, SessionOK, ActivatePc, Doc
    <2>3. TypeOK'
      BY <1>0, <1>2 DEF DeriveRequest, NoRequest, Goto, TypeOK, SessionOK, Pc, ActivatePc, Doc
    <2> QED BY <2>1, <2>2, <2>3, OthersKeep DEF Inv
  <1>3. ASSUME NEW s \in Session, NEW v \in Version, ActivateRequest(s, v) PROVE Inv'
    <2>1. \A o \in Session \ {s} : pc'[o] = pc[o] /\ req'[o] = req[o]
      BY <1>0, <1>3 DEF ActivateRequest, NoRequest, Goto, TypeOK
    <2>2. SessionOK(s)'
      BY <1>0, <1>3 DEF ActivateRequest, NoRequest, Goto, TypeOK, SessionOK, ActivatePc, Doc
    <2>3. TypeOK'
      BY <1>0, <1>3 DEF ActivateRequest, NoRequest, Goto, TypeOK, SessionOK, Pc, ActivatePc, Doc
    <2> QED BY <2>1, <2>2, <2>3, OthersKeep DEF Inv
  <1>4. ASSUME NEW s \in Session, CreateCheck(s) PROVE Inv'
    <2>1. \A o \in Session \ {s} : pc'[o] = pc[o] /\ req'[o] = req[o]
      BY <1>0, <1>4 DEF CreateCheck, Goto, TypeOK
    <2>2. SessionOK(s)'
      BY <1>0, <1>4 DEF CreateCheck, Goto, TypeOK, SessionOK, ActivatePc, Doc
    <2>3. TypeOK'
      BY <1>0, <1>4 DEF CreateCheck, Goto, TypeOK, SessionOK, Pc, ActivatePc, Doc
    <2> QED BY <2>1, <2>2, <2>3, OthersKeep DEF Inv
  <1>5. ASSUME NEW s \in Session, CreateInsert(s) PROVE Inv'
    <2>1. \A o \in Session \ {s} : pc'[o] = pc[o] /\ req'[o] = req[o]
      BY <1>0, <1>5 DEF CreateInsert, Insert, Goto, TypeOK
    <2>2. SessionOK(s)'
      BY <1>0, <1>5 DEF CreateInsert, Insert, Goto, TypeOK, SessionOK, ActivatePc, Doc
    <2>3. TypeOK'
      BY ZenonT(60), <1>0, <1>5 DEF CreateInsert, Insert, Goto, TypeOK, SessionOK, Pc, ActivatePc, Doc
    <2> QED BY <2>1, <2>2, <2>3, OthersKeep DEF Inv
  <1>6. ASSUME NEW s \in Session, DeriveRead(s) PROVE Inv'
    <2>1. \A o \in Session \ {s} : pc'[o] = pc[o] /\ req'[o] = req[o]
      BY <1>0, <1>6 DEF DeriveRead, Goto, TypeOK
    <2> DEFINE base == req[s].base
               new == [doc[base] EXCEPT ![req[s].asset] = req[s].profile]
    <2>a. /\ pc[s] = "derive_read" /\ req[s].base \in Version
          /\ req[s].asset \in Asset /\ req[s].profile \in Profile
          /\ req \in [Session -> RequestType] /\ doc[base] \in Doc \cup {None}
      BY <1>0, <1>6 DEF DeriveRead, SessionOK, TypeOK, RequestType
    <2>b. doc[base] # None => new \in Doc /\ \A a \in Asset \ {req[s].asset} : new[a] = doc[base][a]
      BY <2>a DEF Doc
    <2>2. SessionOK(s)' /\ req' \in [Session -> RequestType]
      <3>1. CASE doc[base] = None
        BY <1>6, <2>a, <3>1 DEF DeriveRead, Goto, SessionOK, ActivatePc, TypeOK, Inv
      <3>2. CASE doc[base] # None
        <4>1. /\ req' = [req EXCEPT ![s] = [req[s] EXCEPT !.doc = new]]
              /\ pc' = [pc EXCEPT ![s] = "derive_candidate"] /\ doc' = doc
          BY <1>6, <3>2 DEF DeriveRead, Goto
        <4>2. [req[s] EXCEPT !.doc = new] \in RequestType
          BY <2>a, <2>b, <3>2 DEF RequestType
        <4>3. /\ req'[s].base = base /\ req'[s].asset = req[s].asset
              /\ req'[s].profile = req[s].profile /\ req'[s].doc = new
              /\ pc'[s] = "derive_candidate"
          BY <2>a, <4>1, <1>0 DEF RequestType, TypeOK
        <4>4. SessionOK(s)'
          BY <2>a, <2>b, <3>2, <4>1, <4>3 DEF SessionOK, ActivatePc
        <4> QED BY <2>a, <4>1, <4>2, <4>4
      <3> QED BY <3>1, <3>2
    <2>3. TypeOK'
      BY <1>0, <1>6, <2>2 DEF DeriveRead, Goto, TypeOK, RequestType, Pc
    <2> QED BY <2>1, <2>2, <2>3, OthersKeep DEF Inv
  <1>7. ASSUME NEW s \in Session, DeriveCandidate(s) PROVE Inv'
    <2>1. \A o \in Session \ {s} : pc'[o] = pc[o] /\ req'[o] = req[o]
      BY <1>0, <1>7 DEF DeriveCandidate, Goto, TypeOK
    <2>2. SessionOK(s)'
      BY <1>0, <1>7 DEF DeriveCandidate, Goto, TypeOK, SessionOK, ActivatePc, Doc
    <2>3. TypeOK'
      <3>1. PICK v \in Version : req' = [req EXCEPT ![s] = [req[s] EXCEPT !.version = v]]
        BY <1>7 DEF DeriveCandidate
      <3>2. req \in [Session -> RequestType]
        BY <1>0 DEF TypeOK, RequestType
      <3>3. req' \in [Session -> RequestType]
        BY <3>1, <3>2 DEF RequestType
      <3> QED BY <1>0, <1>7, <3>3 DEF DeriveCandidate, Goto, TypeOK, RequestType, Pc
    <2> QED BY <2>1, <2>2, <2>3, OthersKeep DEF Inv
  <1>8. ASSUME NEW s \in Session, DeriveInsert(s) PROVE Inv'
    <2>1. \A o \in Session \ {s} : pc'[o] = pc[o] /\ req'[o] = req[o]
      BY <1>0, <1>8 DEF DeriveInsert, Insert, Origin, Goto, TypeOK
    <2>2. SessionOK(s)'
      BY <1>0, <1>8 DEF DeriveInsert, Insert, Origin, Goto, TypeOK, SessionOK, ActivatePc, Doc
    <2>3. TypeOK'
      <3>1. [base |-> req[s].base, asset |-> req[s].asset] \in Origin
        BY <1>0, <1>8 DEF DeriveInsert, SessionOK, Origin
      <3>2. req[s].doc \in Doc /\ req[s].version \in Version
        BY <1>0, <1>8 DEF DeriveInsert, SessionOK
      <3>3. doc' \in [Version -> Doc \cup {None}] /\ meta' \in [Version -> Origin \cup {None}]
        BY SMTT(30), <1>0, <1>8, <3>1, <3>2 DEF DeriveInsert, Insert, TypeOK
      <3>4. active' \in SUBSET {v \in Version : doc'[v] # None}
        BY <1>0, <1>8, RecordsStable DEF DeriveInsert, TypeOK, RecordStable
      <3> QED
        BY <1>0, <1>8, <3>3, <3>4 DEF DeriveInsert, Insert, Goto, TypeOK, Pc
    <2> QED BY <2>1, <2>2, <2>3, OthersKeep DEF Inv
  <1>9. ASSUME NEW s \in Session, UpdateStart(s) PROVE Inv'
    <2>1. \A o \in Session \ {s} : pc'[o] = pc[o] /\ req'[o] = req[o]
      BY <1>0, <1>9 DEF UpdateStart, Goto, TypeOK
    <2>2. SessionOK(s)'
      BY <1>0, <1>9 DEF UpdateStart, Goto, TypeOK, SessionOK, ActivatePc, Doc
    <2>3. TypeOK'
      BY <1>0, <1>9 DEF UpdateStart, Goto, TypeOK, SessionOK, Pc, ActivatePc, Doc
    <2> QED BY <2>1, <2>2, <2>3, OthersKeep DEF Inv
  <1>10. ASSUME NEW s \in Session, UpdateRows(s) PROVE Inv'
    <2>1. \A o \in Session \ {s} : pc'[o] = pc[o] /\ req'[o] = req[o]
      BY <1>0, <1>10 DEF UpdateRows, Goto, TypeOK
    <2>2. SessionOK(s)'
      BY <1>0, <1>10 DEF UpdateRows, Goto, TypeOK, SessionOK, ActivatePc, Doc
    <2>3. TypeOK'
      BY <1>0, <1>10 DEF UpdateRows, Goto, TypeOK, SessionOK, Pc, ActivatePc, Doc
    <2> QED BY <2>1, <2>2, <2>3, OthersKeep DEF Inv
  <1>11. ASSUME NEW s \in Session, ReadRecord(s) PROVE Inv'
    <2>1. \A o \in Session \ {s} : pc'[o] = pc[o] /\ req'[o] = req[o]
      BY <1>0, <1>11 DEF ReadRecord, Answer, Goto, TypeOK
    <2>2. SessionOK(s)'
      BY <1>0, <1>11 DEF ReadRecord, Answer, Goto, TypeOK, SessionOK, ActivatePc, Doc
    <2>3. TypeOK'
      <3>1. pc' \in [Session -> Pc] /\ on' \in [Session -> BOOLEAN]
            /\ alone' \in [Session -> BOOLEAN]
            /\ off' \in [Session -> SUBSET Version] /\ snap' \in [Session -> SUBSET Version]
        <4>1. CASE Answer(s, "http_404")
          BY <1>0, <4>1 DEF Answer, Goto, TypeOK, Pc
        <4>2. CASE /\ on' = [on EXCEPT ![s] = req[s].version \in active \ off[s]]
                   /\ Goto(s, "set_commit") /\ UNCHANGED <<snap, off, alone>>
          BY <1>0, <4>2 DEF Goto, TypeOK, Pc
        <4> QED BY <1>11, <4>1, <4>2 DEF ReadRecord
      <3> QED BY <1>0, <1>11, <3>1 DEF ReadRecord, TypeOK
    <2> QED BY <2>1, <2>2, <2>3, OthersKeep DEF Inv
  <1>12. ASSUME NEW s \in Session, SetCommit(s) PROVE Inv'
    <2>1. \A o \in Session \ {s} : pc'[o] = pc[o] /\ req'[o] = req[o]
      BY <1>0, <1>12 DEF SetCommit, Answer, Goto, TypeOK
    <2>2. SessionOK(s)'
      BY <1>0, <1>12 DEF SetCommit, Answer, Goto, TypeOK, SessionOK, ActivatePc, Doc
    <2>3. TypeOK'
      BY <1>0, <1>12 DEF SetCommit, Answer, Goto, TypeOK, SessionOK, Pc, ActivatePc, Doc
    <2> QED BY <2>1, <2>2, <2>3, OthersKeep DEF Inv
  <1>13. ASSUME NEW s \in Session, DbError(s) PROVE Inv'
    <2>1. \A o \in Session \ {s} : pc'[o] = pc[o] /\ req'[o] = req[o]
      BY <1>0, <1>13 DEF DbError, Answer, Goto, TypeOK
    <2>2. SessionOK(s)'
      BY <1>0, <1>13 DEF DbError, Answer, Goto, TypeOK, SessionOK, ActivatePc, Doc
    <2>3. TypeOK'
      BY <1>0, <1>13 DEF DbError, Answer, Goto, TypeOK, SessionOK, Pc, ActivatePc, Doc
    <2> QED BY <2>1, <2>2, <2>3, OthersKeep DEF Inv
  <1>14. ASSUME NEW s \in Session, Free(s) PROVE Inv'
    <2>1. \A o \in Session \ {s} : pc'[o] = pc[o] /\ req'[o] = req[o]
      BY <1>0, <1>14 DEF Free, NoRequest, Goto, TypeOK
    <2>2. SessionOK(s)'
      BY <1>0, <1>14 DEF Free, NoRequest, Goto, TypeOK, SessionOK, ActivatePc, Doc
    <2>3. TypeOK'
      BY <1>0, <1>14 DEF Free, NoRequest, Goto, TypeOK, SessionOK, Pc, ActivatePc, Doc
    <2> QED BY <2>1, <2>2, <2>3, OthersKeep DEF Inv
  <1>15. CASE UNCHANGED vars
    BY <1>0, <1>15 DEF vars, sessionVars, Inv, TypeOK, SessionOK
  <1> QED
    BY <1>1, <1>2, <1>3, <1>4, <1>5, <1>6, <1>7, <1>8, <1>9, <1>10, <1>11, <1>12, <1>13, <1>14, <1>15 DEF Next

\* Every variable stays in its range and only stored versions are active.
THEOREM TypeCorrect == Spec => []TypeOK
  <1>1. Inv => TypeOK
    BY DEF Inv
  <1> QED
    BY <1>1, InvInit, InvStep, PTL DEF Spec

\* A stored policy version never changes (models.py 23).
THEOREM ImmutableHolds == Spec => Immutable
  <1>1. TypeOK /\ [Next]_vars =>
          [\A v \in Version : doc[v] # None => doc'[v] = doc[v] /\ meta'[v] = meta[v]]_vars
    BY RecordsStable DEF RecordStable
  <1> QED
    BY <1>1, TypeCorrect, PTL DEF Spec, Immutable

\* A derived version agrees with its base on every other asset
\* (repository.py 73-100).
THEOREM DerivedChangesOneAssetHolds == Spec => []DerivedChangesOneAsset
  <1>1. Init => DerivedChangesOneAsset
    BY DEF Init, DerivedChangesOneAsset
  <1>2. Inv /\ DerivedChangesOneAsset /\ [Next]_vars => DerivedChangesOneAsset'
    <2> SUFFICES ASSUME Inv, DerivedChangesOneAsset, [Next]_vars
                 PROVE  DerivedChangesOneAsset'
      OBVIOUS
    <2>0. TypeOK /\ \A s \in Session : SessionOK(s)
      BY DEF Inv
    <2>1. CASE UNCHANGED <<doc, meta>>
      BY <2>1 DEF DerivedChangesOneAsset
    <2>2. ASSUME NEW s \in Session, CreateInsert(s) PROVE DerivedChangesOneAsset'
      BY <2>0, <2>2 DEF CreateInsert, Insert, DerivedChangesOneAsset, TypeOK, Origin
    <2>3. ASSUME NEW s \in Session, DeriveInsert(s) PROVE DerivedChangesOneAsset'
      <3> DEFINE new == req[s].version
                 m == [base |-> req[s].base, asset |-> req[s].asset]
      <3>1. CASE doc[new] # None
        BY <2>1, <2>3, <3>1 DEF DeriveInsert, Insert
      <3>2. CASE doc[new] = None
        <4>1. /\ doc' = [doc EXCEPT ![new] = req[s].doc]
              /\ meta' = [meta EXCEPT ![new] = m]
          BY <2>3, <3>2 DEF DeriveInsert, Insert
        <4>2. /\ new \in Version /\ req[s].base \in Version /\ req[s].doc \in Doc
              /\ doc[req[s].base] # None
              /\ \A a \in Asset \ {req[s].asset} : req[s].doc[a] = doc[req[s].base][a]
          BY <2>0, <2>3 DEF DeriveInsert, SessionOK
        <4>3. /\ doc \in [Version -> Doc \cup {None}]
              /\ meta \in [Version -> Origin \cup {None}]
          BY <2>0 DEF TypeOK
        <4>4. ASSUME NEW v \in Version, v # new, meta[v] # None
              PROVE  meta[v].base \in Version /\ meta[v].base # new
          BY <3>2, <4>3, <4>4 DEF DerivedChangesOneAsset, Origin
        <4>5. ASSUME NEW v \in Version, v # new, meta'[v] # None
              PROVE  /\ doc'[v] # None /\ doc'[meta'[v].base] # None
                     /\ \A a \in Asset \ {meta'[v].asset} : doc'[v][a] = doc'[meta'[v].base][a]
          BY <4>1, <4>3, <4>4, <4>5 DEF DerivedChangesOneAsset
        <4>6. /\ doc'[new] # None /\ doc'[meta'[new].base] # None
              /\ \A a \in Asset \ {meta'[new].asset} : doc'[new][a] = doc'[meta'[new].base][a]
          BY <3>2, <4>1, <4>2, <4>3, ConstantAssumption DEF Doc
        <4> QED BY <4>5, <4>6 DEF DerivedChangesOneAsset
      <3> QED BY <3>1, <3>2
    <2> QED
      BY <2>1, <2>2, <2>3
      DEF Next, vars, tableVars, CreateRequest, DeriveRequest, ActivateRequest,
          CreateCheck, DeriveRead, DeriveCandidate, UpdateStart, UpdateRows, ReadRecord,
          SetCommit, DbError, Free
  <1>3. Spec => []Inv
    BY InvInit, InvStep, PTL DEF Spec
  <1> QED
    BY <1>1, <1>2, <1>3, PTL DEF Spec

-----------------------------------------------------------------------------
(***************************************************************************)
(* Activation without overlap.                                             *)
(***************************************************************************)
\* A session whose activation nobody overlapped has chosen, and then locked,
\* exactly the rows that are active.
SoloOK(s) ==
    alone[s] =>
        /\ pc[s] \in ActivatePc
        /\ \A o \in Session \ {s} : pc[o] \notin ActivatePc
        /\ pc[s] = "update_rows" => snap[s] = active
        /\ pc[s] \in {"read_record", "set_commit"} => off[s] = active
        /\ pc[s] = "set_commit" => ~on[s]

Solo == \A s \in Session : SoloOK(s)

\* The inductive step of the bookkeeping about lone activations.
LEMMA SoloStep ==
  ASSUME Inv, Solo, [Next]_vars
  PROVE  Solo'
  <1>0. TypeOK
    BY DEF Inv
  <1> USE DEF Solo, SoloOK, ActivatePc, TypeOK, tableVars
  <1>1. ASSUME NEW s \in Session, NEW v \in Version, NEW d \in Doc, CreateRequest(s, v, d) PROVE Solo'
    BY <1>0, <1>1 DEF CreateRequest, NoRequest, Goto
  <1>2. ASSUME NEW s \in Session, NEW v \in Version, NEW a \in Asset, NEW p \in Profile, DeriveRequest(s, v, a, p) PROVE Solo'
    BY <1>0, <1>2 DEF DeriveRequest, NoRequest, Goto
  <1>3. ASSUME NEW s \in Session, NEW v \in Version, ActivateRequest(s, v) PROVE Solo'
    BY <1>0, <1>3 DEF ActivateRequest, NoRequest, Goto, Activating
  <1>4. ASSUME NEW s \in Session, CreateCheck(s) PROVE Solo'
    BY <1>0, <1>4 DEF CreateCheck, Goto
  <1>5. ASSUME NEW s \in Session, CreateInsert(s) PROVE Solo'
    BY <1>0, <1>5 DEF CreateInsert, Insert, Goto
  <1>6. ASSUME NEW s \in Session, DeriveRead(s) PROVE Solo'
    BY <1>0, <1>6 DEF DeriveRead, Goto
  <1>7. ASSUME NEW s \in Session, DeriveCandidate(s) PROVE Solo'
    BY <1>0, <1>7 DEF DeriveCandidate, Goto
  <1>8. ASSUME NEW s \in Session, DeriveInsert(s) PROVE Solo'
    BY <1>0, <1>8 DEF DeriveInsert, Insert, Goto
  <1>9. ASSUME NEW s \in Session, UpdateStart(s) PROVE Solo'
    BY <1>0, <1>9 DEF UpdateStart, Goto
  <1>10. ASSUME NEW s \in Session, UpdateRows(s) PROVE Solo'
    BY <1>0, <1>10 DEF UpdateRows, Goto
  <1>11. ASSUME NEW s \in Session, ReadRecord(s) PROVE Solo'
    BY ZenonT(60), <1>0, <1>11 DEF ReadRecord, Answer, Goto
  <1>12. ASSUME NEW s \in Session, SetCommit(s) PROVE Solo'
    BY <1>0, <1>12 DEF SetCommit, Answer, Goto
  <1>13. ASSUME NEW s \in Session, DbError(s) PROVE Solo'
    BY <1>0, <1>13 DEF DbError, Answer, Goto
  <1>14. ASSUME NEW s \in Session, Free(s) PROVE Solo'
    BY <1>0, <1>14 DEF Free, NoRequest, Goto
  <1>15. CASE UNCHANGED vars
    BY <1>15 DEF vars, sessionVars
  <1> QED
    BY <1>1, <1>2, <1>3, <1>4, <1>5, <1>6, <1>7, <1>8, <1>9, <1>10, <1>11, <1>12, <1>13, <1>14, <1>15 DEF Next

\* An activation that no other one overlaps leaves exactly its version active,
\* whatever earlier races left behind (repository.py 43-53).
THEOREM SoloActivationRepairsHolds == Spec => SoloActivationRepairs
  <1>1. Init => Solo
    BY DEF Init, Solo, SoloOK
  <1>2. Spec => [](Inv /\ Solo)
    BY <1>1, InvInit, InvStep, SoloStep, PTL DEF Spec
  <1>3. Inv /\ Solo /\ [Next]_vars =>
          [\A s \in Session : pc[s] = "set_commit" /\ pc'[s] = "ok" /\ alone[s]
                               => active' = {req[s].version}]_vars
    <2> SUFFICES ASSUME Inv, Solo, Next, NEW s \in Session,
                        pc[s] = "set_commit", pc'[s] = "ok", alone[s]
                 PROVE  active' = {req[s].version}
      BY DEF vars
    <2>1. off[s] = active /\ ~on[s]
      BY DEF Solo, SoloOK
    <2>2. CASE SetCommit(s)
      BY <2>1, <2>2 DEF SetCommit
    <2>3. PICK o \in Session :
            \/ \E v \in Version, d \in Doc : CreateRequest(o, v, d)
            \/ \E v \in Version, a \in Asset, p \in Profile : DeriveRequest(o, v, a, p)
            \/ \E v \in Version : ActivateRequest(o, v)
            \/ CreateCheck(o) \/ CreateInsert(o)
            \/ DeriveRead(o) \/ DeriveCandidate(o) \/ DeriveInsert(o)
            \/ UpdateStart(o) \/ UpdateRows(o) \/ ReadRecord(o) \/ SetCommit(o)
            \/ DbError(o) \/ Free(o)
      BY DEF Next
    <2>4. \E p \in Pc : pc' = [pc EXCEPT ![o] = p]
      BY <2>3
      DEF Pc, Goto, CreateRequest, DeriveRequest, ActivateRequest, CreateCheck,
          CreateInsert, Insert, DeriveRead, DeriveCandidate, DeriveInsert, UpdateStart,
          UpdateRows, ReadRecord, Answer, SetCommit, DbError, Free
    <2>5. o = s
      BY <2>4 DEF Inv, TypeOK
    <2>6. SetCommit(s) \/ DbError(s)
      BY <2>3, <2>5
      DEF CreateRequest, DeriveRequest, ActivateRequest, CreateCheck, CreateInsert,
          DeriveRead, DeriveCandidate, DeriveInsert, UpdateStart, UpdateRows, ReadRecord, Free
    <2> QED
      BY <2>2, <2>6 DEF DbError, Answer, Goto, Inv, TypeOK
  <1> QED
    BY <1>2, <1>3, PTL DEF Spec, SoloActivationRepairs
=============================================================================
