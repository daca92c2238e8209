------------------------------ MODULE ProviderAudit ------------------------------
(***************************************************************************)
(* The audits that only read: run_audit of azure_harden.py, gcp_harden.py  *)
(* and k8s_harden.py.  An audit lists its scopes (subscriptions, projects, *)
(* the cluster) and, in each, runs blocks of checks.  A block is one try:  *)
(* it reads a listing, whose pages and lookups may fail half way, and      *)
(* judges what it has read item by item or as a whole.                     *)
(***************************************************************************)
EXTENDS Integers, Sequences, FiniteSets

CONSTANTS
    Provider,       \* the providers audited, of azure, gcp and k8s
    ScopesOf,       \* ScopesOf[p]: the scopes that the credentials for p may see
    ItemsOf,        \* ItemsOf[p]: bound, the items that a listing of p may yield
    ExcludedItem,   \* those that policy exclude_resources matches
    AuditMode,      \* args.mode: audit or plan
    ControlArg      \* args.control: the controls selected, {} for all

VARIABLES
    stage,      \* where the audit of p is
    visible,    \* the scopes it has listed
    left,       \* those it has not opened
    scope,      \* the one it is in
    block,      \* index of the block it is in, 0 between scopes
    judged,     \* what the block has read: items, and whether they comply
    found,      \* the findings so far
    seen,       \* history: the verdict on every item that was read
    missed      \* history: what could not be read, by scope and control

auditVars == <<stage, visible, left, scope, block, judged, found, seen, missed>>

-----------------------------------------------------------------------------
(* Controls, in the blocks and the order of the code. *)

Blocks ==
    [azure |-> << {"AZURE-STORAGE-001", "AZURE-STORAGE-002"}, {"AZURE-KV-001"},
                  {"AZURE-SQL-001"}, {"AZURE-NET-001"}, {"AZURE-SEC-001"},
                  {"AZURE-LOG-002"}, {"AZURE-LOG-001"} >>,
     gcp   |-> << {"GCP-STORAGE-001", "GCP-STORAGE-002"}, {"GCP-IAM-002"},
                  {"GCP-NET-001"}, {"GCP-KMS-001"}, {"GCP-LOG-001"}, {"GCP-LOG-002"},
                  {"GCP-SEC-001"} >>,
     k8s   |-> << {"K8S-NET-001"}, {"K8S-RBAC-001"}, {"K8S-POD-001"}, {"K8S-SEC-001"} >>]

\* Controls with a finding for every item; the others have one for the scope.
PerItem == {"AZURE-STORAGE-001", "AZURE-STORAGE-002", "GCP-STORAGE-001", "GCP-STORAGE-002"}

\* Controls that want one item that complies; the others want none that does not.
WantsOne == {"AZURE-LOG-001", "AZURE-LOG-002", "GCP-LOG-001", "GCP-LOG-002"}

\* Those of them for which anything will do.
WantsAny == WantsOne \ {"GCP-LOG-002"}

\* The control under which the listing of the scopes is reported.
ScopeControl == [azure |-> "AZURE-IAM-001", gcp |-> "GCP-IAM-001", k8s |-> "K8S-NET-001"]

ProviderControls(p) == (UNION {Blocks[p][i] : i \in DOMAIN Blocks[p]}) \cup {ScopeControl[p]}

AuditControl == UNION {ProviderControls(p) : p \in {"azure", "gcp", "k8s"}}

ASSUME AuditAssumption ==
    /\ Provider \subseteq {"azure", "gcp", "k8s"}
    /\ DOMAIN ScopesOf = Provider /\ DOMAIN ItemsOf = Provider
    /\ "k8s" \in Provider => \A s, u \in ScopesOf["k8s"] : s = u
    /\ AuditMode \in {"audit", "plan"}

_selected(c) == ControlArg = {} \/ c \in ControlArg

SelectedIn(controls) == {c \in controls : _selected(c)}

\* The blocks after the i-th that have a control to run.
Later(p, i) == {j \in DOMAIN Blocks[p] : i < j /\ SelectedIn(Blocks[p][j]) # {}}

\* The controls of the block that p is in.
Current(p) == SelectedIn(Blocks[p][block[p]])

\* All of those that p runs in every scope.
Chosen(p) == UNION {SelectedIn(Blocks[p][i]) : i \in DOMAIN Blocks[p]}

-----------------------------------------------------------------------------
(* Findings: of an item, of a scope, or of the listing of the scopes. *)

Nothing == "-"

_finding(c, s, i, status) ==
    [control |-> c, scope |-> s, item |-> i, status |-> status, planned |-> FALSE]

PassOrFail(good) == IF good THEN "pass" ELSE "fail"

Verdict(c, read) ==
    IF c \in WantsOne THEN PassOrFail(\E x \in read : x.good[c])
    ELSE PassOrFail(\A x \in read : x.good[c])

_annotate_plan(findings) == {[f EXCEPT !.planned = (f.status = "fail")] : f \in findings}

exit_code(findings) ==
    IF \E f \in findings : f.status = "error" THEN 2
    ELSE IF \E f \in findings : f.status = "fail" THEN 1 ELSE 0

-----------------------------------------------------------------------------
(* Actions. *)

AuditInit ==
    /\ stage = [p \in Provider |-> "start"]
    /\ visible = [p \in Provider |-> {}] /\ left = [p \in Provider |-> {}]
    /\ scope = [p \in Provider |-> Nothing]
    /\ block = [p \in Provider |-> 0]
    /\ judged = [p \in Provider |-> {}] /\ found = [p \in Provider |-> {}]
    /\ seen = [p \in Provider |-> {}] /\ missed = [p \in Provider |-> {}]

\* An SDK that is not installed, a part of it that is imported for the first scope
\* only, or a cluster that is not configured.
CannotStart(p) ==
    /\ stage[p] = "start" \/ (stage[p] = "scopes" /\ left[p] = visible[p] /\ p # "k8s")
    /\ stage' = [stage EXCEPT ![p] = "raised"]
    /\ UNCHANGED <<visible, left, scope, block, judged, found, seen, missed>>

\* The only finding, selected or not: the scopes cannot be listed (or the
\* Kubernetes library is missing), or there are none.
EndAtOnce(p, status) ==
    /\ stage[p] = "start"
    /\ found' = [found EXCEPT ![p] = {_finding(ScopeControl[p], Nothing, Nothing, status)}]
    /\ stage' = [stage EXCEPT ![p] = "over"]
    /\ UNCHANGED <<visible, left, scope, block, judged, seen>>

CannotList(p) ==
    /\ EndAtOnce(p, "error")
    /\ missed' = [missed EXCEPT ![p] = {<<Nothing, ScopeControl[p]>>}]

NothingVisible(p) == p # "k8s" /\ EndAtOnce(p, "fail") /\ UNCHANGED missed

ListScopes(p) ==
    /\ stage[p] = "start"
    /\ \E S \in (SUBSET ScopesOf[p]) \ {{}} :
          visible' = [visible EXCEPT ![p] = S] /\ left' = [left EXCEPT ![p] = S]
    /\ stage' = [stage EXCEPT ![p] = "scopes"]
    /\ UNCHANGED <<scope, block, judged, found, seen, missed>>

\* The next block, after the i-th, or the end of the scope.
GoOn(p, i) ==
    IF Later(p, i) = {}
    THEN stage' = [stage EXCEPT ![p] = "scopes"] /\ block' = [block EXCEPT ![p] = 0]
    ELSE \E j \in Later(p, i) :
            /\ \A k \in Later(p, i) : j <= k
            /\ stage' = [stage EXCEPT ![p] = "block"] /\ block' = [block EXCEPT ![p] = j]

OpenScope(p) ==
    /\ stage[p] = "scopes"
    /\ \E s \in left[p] :
          /\ left' = [left EXCEPT ![p] = @ \ {s}]
          /\ scope' = [scope EXCEPT ![p] = s]
          /\ found' = [found EXCEPT ![p] = @ \cup
                {_finding(c, s, Nothing, "pass") : c \in SelectedIn({ScopeControl[p]} \ {"K8S-NET-001"})}]
    /\ GoOn(p, 0)
    /\ UNCHANGED <<visible, judged, seen, missed>>

\* Mutation: the next block starts with the items of this one.
EndBlockKeepsItems(p, fs) ==
    /\ found' = [found EXCEPT ![p] = @ \cup fs]
    /\ GoOn(p, block[p])
    /\ UNCHANGED <<visible, left, scope, judged, seen>>

\* The block ends with the findings fs.
EndBlock(p, fs) ==
    /\ found' = [found EXCEPT ![p] = @ \cup fs]
    /\ judged' = [judged EXCEPT ![p] = {}]
    /\ GoOn(p, block[p])
    /\ UNCHANGED <<visible, left, scope, seen>>

\* The listing yields an item and the lookups for it succeed.
ReadItem(p) ==
    /\ stage[p] = "block" /\ Current(p) # {"GCP-SEC-001"}
    /\ \E i \in ItemsOf[p] \ {x.item : x \in judged[p]}, good \in [Current(p) -> BOOLEAN] :
          /\ \A c \in Current(p) \cap WantsAny : good[c]
          /\ judged' = [judged EXCEPT ![p] = @ \cup {[item |-> i, good |-> good]}]
          /\ seen' = [seen EXCEPT ![p] = @ \cup
                {[scope |-> scope[p], control |-> c, item |-> i, good |-> good[c]] : c \in Current(p)}]
          /\ found' = [found EXCEPT ![p] = @ \cup
                {_finding(c, scope[p], i, IF i \in ExcludedItem THEN "skip" ELSE PassOrFail(good[c])) :
                    c \in Current(p) \cap PerItem}]
    /\ UNCHANGED <<stage, visible, left, scope, block, missed>>

EndList(p) ==
    /\ stage[p] = "block" /\ Current(p) # {"GCP-SEC-001"}
    /\ EndBlock(p, {_finding(c, scope[p], Nothing, Verdict(c, judged[p])) : c \in Current(p) \ PerItem})
    /\ UNCHANGED missed

\* Mutation: a listing that fails ends the block as if it were complete.
CallFailsQuietly(p) ==
    /\ stage[p] = "block" /\ Current(p) # {"GCP-SEC-001"}
    /\ EndBlock(p, {_finding(c, scope[p], Nothing, Verdict(c, judged[p])) : c \in Current(p) \ PerItem})
    /\ missed' = [missed EXCEPT ![p] = @ \cup {<<scope[p], c>> : c \in Current(p)}]

\* A page or a lookup raises: what was reported of items before it stays.
CallFails(p) ==
    /\ stage[p] = "block" /\ Current(p) # {"GCP-SEC-001"}
    /\ EndBlock(p, {_finding(c, scope[p], Nothing, "error") : c \in Current(p)})
    /\ missed' = [missed EXCEPT ![p] = @ \cup {<<scope[p], c>> : c \in Current(p)}]

\* The diagnostic settings are taken from the body of any answer, a refusal
\* included: it has none.
RefusalMisread(p) ==
    /\ stage[p] = "block" /\ Current(p) = {"AZURE-LOG-002"} /\ judged[p] = {}
    /\ EndBlock(p, {_finding("AZURE-LOG-002", scope[p], Nothing, Verdict("AZURE-LOG-002", {}))})
    /\ missed' = [missed EXCEPT ![p] = @ \cup {<<scope[p], "AZURE-LOG-002">>}]

\* Security Command Center, and Cloud KMS in an SDK that cannot list locations.
LeaveToOperator(p) ==
    /\ stage[p] = "block" /\ judged[p] = {}
    /\ \E c \in {"GCP-SEC-001", "GCP-KMS-001"} :
          /\ Current(p) = {c}
          /\ EndBlock(p, {_finding(c, scope[p], Nothing, "manual")})
    /\ UNCHANGED missed

FinishAudit(p) ==
    /\ stage[p] = "scopes" /\ left[p] = {}
    /\ stage' = [stage EXCEPT ![p] = "over"]
    /\ found' = [found EXCEPT ![p] = IF AuditMode = "plan" THEN _annotate_plan(@) ELSE @]
    /\ UNCHANGED <<visible, left, scope, block, judged, seen, missed>>

AuditStep(p) ==
    \/ CannotStart(p) \/ CannotList(p) \/ NothingVisible(p) \/ ListScopes(p)
    \/ OpenScope(p) \/ ReadItem(p) \/ EndList(p) \/ CallFails(p) \/ RefusalMisread(p)
    \/ LeaveToOperator(p) \/ FinishAudit(p)

-----------------------------------------------------------------------------
(* Properties. *)

FoundOf(p, s, c) == {f \in found[p] : f.scope = s /\ f.control = c}
SeenOf(p, s, c) == {x \in seen[p] : x.scope = s /\ x.control = c}

\* What an audit that returns says of control c in scope s is what became of it:
\* ERROR if and only if something could not be read (save the one answer that is
\* misread), and otherwise a verdict that every item that was read bears out.
Answered(p, s, c) ==
    LET errors == {f \in FoundOf(p, s, c) : f.status = "error"}
        whole  == FoundOf(p, s, c) \ errors
    IN  /\ c # "AZURE-LOG-002" => (errors # {} <=> <<s, c>> \in missed[p])
        /\ IF c \in PerItem
           THEN \A x \in SeenOf(p, s, c) : \E f \in whole :
                   /\ f.item = x.item
                   /\ f.status = IF x.item \in ExcludedItem THEN "skip" ELSE PassOrFail(x.good)
           ELSE errors = {} =>
                   \E f \in whole :
                      /\ whole = {f}
                      /\ \/ /\ f.status = "manual" /\ c \in {"GCP-SEC-001", "GCP-KMS-001"}
                            /\ SeenOf(p, s, c) = {}
                         \/ f.status = PassOrFail(IF c \in WantsOne
                                                  THEN \E x \in SeenOf(p, s, c) : x.good
                                                  ELSE \A x \in SeenOf(p, s, c) : x.good)

EveryScopeAnswered(p) ==
    \A s \in visible[p], c \in Chosen(p) : Answered(p, s, c)

FindingType ==
    [control : AuditControl,
     scope   : (UNION {ScopesOf[p] : p \in Provider}) \cup {Nothing},
     item    : (UNION {ItemsOf[p] : p \in Provider}) \cup {Nothing},
     status  : {"pass", "fail", "error", "skip", "manual"},
     planned : BOOLEAN]

AuditTypeOK ==
    /\ stage \in [Provider -> {"start", "scopes", "block", "over", "raised"}]
    /\ \A p \in Provider :
          /\ visible[p] \subseteq ScopesOf[p] /\ left[p] \subseteq visible[p]
          /\ scope[p] \in visible[p] \cup {Nothing}
          /\ block[p] \in DOMAIN Blocks[p] \cup {0}
          /\ stage[p] = "block" <=> block[p] # 0
          /\ found[p] \subseteq FindingType
          /\ \A x \in judged[p] : x.item \in ItemsOf[p] /\ x.good \in [Current(p) -> BOOLEAN]
=============================================================================
