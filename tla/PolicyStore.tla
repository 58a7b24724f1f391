---------------------------- MODULE PolicyStore ----------------------------
(***************************************************************************)
(* The policy table: PolicyRepository (pcag/apps/policy_store/repository.py)*)
(* as the Policy Admin routes (pcag/apps/policy_admin/routes.py) use it.   *)
(*                                                                         *)
(* Every admin request has its own PostgreSQL session at READ COMMITTED:   *)
(* a SELECT sees what is committed; an UPDATE chooses its rows from the    *)
(* snapshot taken when it starts, waits for rows that another session has  *)
(* changed and not committed, and then checks its WHERE clause on them     *)
(* again.  Row changes become visible at commit.                           *)
(***************************************************************************)
EXTENDS Naturals, FiniteSets

CONSTANTS
    Version,    \* policy version ids
    Asset,      \* asset ids in a policy document
    Profile,    \* asset profiles
    Session,    \* concurrent admin requests
    None,       \* no record, no version
    Seeded,     \* versions the table holds at start, all inactive
    SeedDoc,    \* the document of a seeded version
    Requests    \* bound: the kinds of request clients send

ASSUME ConstantAssumption ==
    /\ None \notin Version
    /\ None \notin [Asset -> Profile]
    /\ Seeded \subseteq Version
    /\ SeedDoc \in [Asset -> Profile]
    /\ Requests \subseteq {"create", "derive", "activate"}

VARIABLES
    doc,        \* document["assets"] of each version, None when no record
    meta,       \* document["metadata"]: the version derived from and its asset
    active,     \* versions with is_active = True, committed
    pc,         \* what each session does next
    req,        \* the request a session serves
    snap,       \* rows the deactivating UPDATE of a session chose
    off,        \* rows it set inactive and holds locked until commit
    on,         \* is_active of the target as the session read it
    alone       \* history: no other activation overlapped this one

tableVars == <<doc, meta, active>>
sessionVars == <<pc, req, snap, off, on, alone>>
vars == <<tableVars, sessionVars>>

-----------------------------------------------------------------------------

Doc == [Asset -> Profile]
Origin == [base : Version, asset : Asset]
Pc == {"idle", "create_check", "create_insert", "derive_read", "derive_candidate",
       "derive_insert", "update_start", "update_rows", "read_record", "set_commit",
       "ok", "http_404", "http_409", "http_500"}
ActivatePc == {"update_start", "update_rows", "read_record", "set_commit"}

\* kind: the route; version: the record it writes; base, asset, profile: what
\* update_asset_profile derives from and changes; doc: the document to store.
NoRequest == [kind |-> "none", version |-> None, base |-> None,
              asset |-> None, profile |-> None, doc |-> None]

Init ==
    /\ doc = [v \in Version |-> IF v \in Seeded THEN SeedDoc ELSE None]
    /\ meta = [v \in Version |-> None]
    /\ active = {}
    /\ pc = [s \in Session |-> "idle"]
    /\ req = [s \in Session |-> NoRequest]
    /\ snap = [s \in Session |-> {}]
    /\ off = [s \in Session |-> {}]
    /\ on = [s \in Session |-> FALSE]
    /\ alone = [s \in Session |-> FALSE]

Goto(s, p) == pc' = [pc EXCEPT ![s] = p]

\* The route answers; closing the session rolls back and frees its locks.
Answer(s, p) ==
    /\ Goto(s, p)
    /\ snap' = [snap EXCEPT ![s] = {}]
    /\ off' = [off EXCEPT ![s] = {}]
    /\ on' = [on EXCEPT ![s] = FALSE]
    /\ alone' = [alone EXCEPT ![s] = FALSE]

Free(s) ==
    /\ pc[s] \in {"ok", "http_404", "http_409", "http_500"}
    /\ Goto(s, "idle")
    /\ req' = [req EXCEPT ![s] = NoRequest]
    /\ UNCHANGED <<tableVars, snap, off, on, alone>>

-----------------------------------------------------------------------------
(***************************************************************************)
(* POST /policies                                                          *)
(***************************************************************************)
CreateRequest(s, v, d) ==
    /\ "create" \in Requests
    /\ pc[s] = "idle"
    /\ Goto(s, "create_check")
    /\ req' = [req EXCEPT ![s] = [NoRequest EXCEPT !.kind = "create", !.version = v, !.doc = d]]
    /\ UNCHANGED <<tableVars, snap, off, on, alone>>

CreateCheck(s) ==
    /\ pc[s] = "create_check"
    /\ \/ doc[req[s].version] # None /\ Goto(s, "http_409")
       \/ doc[req[s].version] = None /\ Goto(s, "create_insert")
    /\ UNCHANGED <<tableVars, req, snap, off, on, alone>>

\* Mutant: session.merge() instead of session.add(), an upsert.
Insert_Upsert(s, d, m) ==
    /\ doc' = [doc EXCEPT ![req[s].version] = d]
    /\ meta' = [meta EXCEPT ![req[s].version] = m]
    /\ Goto(s, "ok")

\* create_policy: INSERT and commit; a primary-key conflict is not caught.
Insert(s, d, m) ==
    LET v == req[s].version
    IN \/ /\ doc[v] = None
          /\ doc' = [doc EXCEPT ![v] = d]
          /\ meta' = [meta EXCEPT ![v] = m]
          /\ Goto(s, "ok")
       \/ /\ doc[v] # None
          /\ Goto(s, "http_500")
          /\ UNCHANGED <<doc, meta>>

CreateInsert(s) ==
    /\ pc[s] = "create_insert"
    /\ Insert(s, req[s].doc, None)
    /\ UNCHANGED <<active, req, snap, off, on, alone>>

-----------------------------------------------------------------------------
(***************************************************************************)
(* PUT /policies/{version}/assets/{asset_id}: a new version is derived.    *)
(***************************************************************************)
DeriveRequest(s, base, a, p) ==
    /\ "derive" \in Requests
    /\ pc[s] = "idle"
    /\ Goto(s, "derive_read")
    /\ req' = [req EXCEPT ![s] = [NoRequest EXCEPT !.kind = "derive", !.base = base,
                                                   !.asset = a, !.profile = p]]
    /\ UNCHANGED <<tableVars, snap, off, on, alone>>

\* Mutant: the other assets are not copied from the base document.
DeriveRead_NoCopy(s) ==
    LET base == req[s].base
    IN /\ pc[s] = "derive_read"
       /\ \/ /\ doc[base] = None
             /\ Goto(s, "http_404")
             /\ UNCHANGED req
          \/ /\ doc[base] # None
             /\ Goto(s, "derive_candidate")
             /\ req' = [req EXCEPT ![s].doc = [a \in Asset |-> req[s].profile]]
       /\ UNCHANGED <<tableVars, snap, off, on, alone>>

\* get_policy(version), deepcopy, one asset replaced.
DeriveRead(s) ==
    LET base == req[s].base
    IN /\ pc[s] = "derive_read"
       /\ \/ /\ doc[base] = None
             /\ Goto(s, "http_404")
             /\ UNCHANGED req
          \/ /\ doc[base] # None
             /\ Goto(s, "derive_candidate")
             /\ req' = [req EXCEPT ![s].doc =
                            [doc[base] EXCEPT ![req[s].asset] = req[s].profile]]
       /\ UNCHANGED <<tableVars, snap, off, on, alone>>

\* The candidate id is the requested one, or a generated one as long as the
\* candidate exists: some id without a record.
DeriveCandidate(s) ==
    /\ pc[s] = "derive_candidate"
    /\ \E v \in Version :
          /\ doc[v] = None
          /\ req' = [req EXCEPT ![s].version = v]
    /\ Goto(s, "derive_insert")
    /\ UNCHANGED <<tableVars, snap, off, on, alone>>

DeriveInsert(s) ==
    /\ pc[s] = "derive_insert"
    /\ Insert(s, req[s].doc, [base |-> req[s].base, asset |-> req[s].asset])
    /\ UNCHANGED <<active, req, snap, off, on, alone>>

-----------------------------------------------------------------------------
(***************************************************************************)
(* PUT /policies/{version}/activate.  get_active_version is read first, for*)
(* the response only.                                                      *)
(***************************************************************************)
Activating == {s \in Session : pc[s] \in ActivatePc}

ActivateRequest(s, v) ==
    /\ "activate" \in Requests
    /\ pc[s] = "idle"
    /\ Goto(s, "update_start")
    /\ req' = [req EXCEPT ![s] = [NoRequest EXCEPT !.kind = "activate", !.version = v]]
    /\ alone' = [o \in Session |-> IF o = s THEN Activating = {} ELSE FALSE]
    /\ UNCHANGED <<tableVars, snap, off, on>>

\* Mutant: only the version get_active_version returned is deactivated.
UpdateStart_FirstOnly(s) ==
    /\ pc[s] = "update_start"
    /\ \/ active = {} /\ snap' = [snap EXCEPT ![s] = {}]
       \/ \E v \in active : snap' = [snap EXCEPT ![s] = {v}]
    /\ Goto(s, "update_rows")
    /\ UNCHANGED <<tableVars, req, off, on, alone>>

\* UPDATE policies SET is_active = False WHERE is_active: the snapshot.
UpdateStart(s) ==
    /\ pc[s] = "update_start"
    /\ snap' = [snap EXCEPT ![s] = active]
    /\ Goto(s, "update_rows")
    /\ UNCHANGED <<tableVars, req, off, on, alone>>

LockedByOthers(s) == UNION {off[o] : o \in Session \ {s}}

\* The same UPDATE: its rows are locked, and those still active are changed.
UpdateRows(s) ==
    /\ pc[s] = "update_rows"
    /\ snap[s] \cap LockedByOthers(s) = {}
    /\ off' = [off EXCEPT ![s] = snap[s] \cap active]
    /\ Goto(s, "read_record")
    /\ UNCHANGED <<tableVars, req, snap, on, alone>>

\* Mutant: an unknown version is not refused.
ReadRecord_NoCheck(s) ==
    /\ pc[s] = "read_record"
    /\ on' = [on EXCEPT ![s] = req[s].version \in active \ off[s]]
    /\ Goto(s, "set_commit")
    /\ UNCHANGED <<tableVars, req, snap, off, alone>>

\* get_policy(version), which sees the session's own UPDATE.
ReadRecord(s) ==
    LET v == req[s].version
    IN /\ pc[s] = "read_record"
       /\ \/ doc[v] = None /\ Answer(s, "http_404")
          \/ /\ doc[v] # None
             /\ on' = [on EXCEPT ![s] = v \in active \ off[s]]
             /\ Goto(s, "set_commit")
             /\ UNCHANGED <<snap, off, alone>>
       /\ UNCHANGED <<tableVars, req>>

\* record.is_active = True and commit.  An attribute that is already True is
\* no change and emits no UPDATE.
SetCommit(s) ==
    LET v == req[s].version
    IN /\ pc[s] = "set_commit"
       /\ on[s] \/ v \notin LockedByOthers(s)
       /\ active' = (active \ off[s]) \cup (IF on[s] THEN {} ELSE {v})
       /\ Answer(s, "ok")
       /\ UNCHANGED <<doc, meta, req>>

\* A statement fails (connection lost, deadlock victim): nothing catches it.
DbError(s) ==
    /\ pc[s] \notin {"idle", "ok", "http_404", "http_409", "http_500"}
    /\ Answer(s, "http_500")
    /\ UNCHANGED <<tableVars, req>>

Next ==
    \E s \in Session :
        \/ \E v \in Version, d \in Doc : CreateRequest(s, v, d)
        \/ \E v \in Version, a \in Asset, p \in Profile : DeriveRequest(s, v, a, p)
        \/ \E v \in Version : ActivateRequest(s, v)
        \/ CreateCheck(s) \/ CreateInsert(s)
        \/ DeriveRead(s) \/ DeriveCandidate(s) \/ DeriveInsert(s)
        \/ UpdateStart(s) \/ UpdateRows(s) \/ ReadRecord(s) \/ SetCommit(s)
        \/ DbError(s) \/ Free(s)

Spec == Init /\ [][Next]_vars

-----------------------------------------------------------------------------
(***************************************************************************)
(* Properties.                                                             *)
(***************************************************************************)
\* Every variable stays in its range, and only stored versions are active.
TypeOK ==
    /\ doc \in [Version -> Doc \cup {None}]
    /\ meta \in [Version -> Origin \cup {None}]
    /\ active \in SUBSET {v \in Version : doc[v] # None}
    /\ pc \in [Session -> Pc]
    /\ req \in [Session -> [kind : {"none", "create", "derive", "activate"},
                            version : Version \cup {None}, base : Version \cup {None},
                            asset : Asset \cup {None}, profile : Profile \cup {None},
                            doc : Doc \cup {None}]]
    /\ snap \in [Session -> SUBSET Version]
    /\ off \in [Session -> SUBSET Version]
    /\ on \in [Session -> BOOLEAN]
    /\ alone \in [Session -> BOOLEAN]

\* A stored policy version is never changed, whatever create, derive and
\* activate requests race for its id (models.py 23, repository.py 68-72).
Immutable ==
    [][\A v \in Version : doc[v] # None => doc'[v] = doc[v] /\ meta'[v] = meta[v]]_vars

\* A derived version differs from the one its metadata names in one asset
\* only, although the base was read two statements before the insert.
DerivedChangesOneAsset ==
    \A v \in Version : meta[v] # None =>
        /\ doc[v] # None /\ doc[meta[v].base] # None
        /\ \A a \in Asset \ {meta[v].asset} : doc[v][a] = doc[meta[v].base][a]

\* An activation that no other one overlaps leaves its version as the only
\* active one, even when earlier races left several (repository.py 43-53).
SoloActivationRepairs ==
    [][\A s \in Session : pc[s] = "set_commit" /\ pc'[s] = "ok" /\ alone[s]
                          => active' = {req[s].version}]_vars

\* repository.py 44-45: there must be only one active pointer.
SingleActive == Cardinality(active) <= 1
=============================================================================
