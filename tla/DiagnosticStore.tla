--------------------------- MODULE DiagnosticStore ---------------------------
(***************************************************************************)
(* The rows of the diagnostics tables and what PostgreSQL lets a session   *)
(* of a tenant insert into them: an action is one INSERT, and its guard is *)
(* what the CHECKs, the foreign keys and the row level policies of the     *)
(* table say together.  Two rules of SQL matter here: a CHECK refuses a    *)
(* row only when its condition is FALSE, so one that is NULL passes, and a *)
(* foreign key with a NULL column is not checked at all.                   *)
(*                                                                         *)
(* Columns that no property tells apart (texts, hashes, counters, dates,   *)
(* lifecycle timestamps) are left out with the CHECKs about them alone.    *)
(***************************************************************************)
EXTENDS Naturals, FiniteSets

CONSTANTS
    Tenants,
    Companies,      \* records [tenant, id]
    Branches,       \* records [tenant, company, id]
    Ids,            \* the identifiers of the rows of each table, 1 ..
    NULL,
    MaxRows,        \* bound: rows of the tables other rows refer to, with the rule
    MaxLeaves       \* bound: rows of the tables no row refers to

VARIABLES rules, versions, configurations, runs, findings, evidences, hypotheses,
          links, recommendations, suppressions, incidents, members

history == <<findings, evidences, hypotheses, links, recommendations, incidents, members>>
catalog == <<rules, versions>>
store == <<catalog, configurations, runs, history, suppressions>>

----------------------------------------------------------------------------
(* SQL.                                                                    *)

Maybe(set) == set \cup {NULL}
Eq(x, y) == IF NULL \in {x, y} THEN NULL ELSE x = y
And(p, q) == IF FALSE \in {p, q} THEN FALSE ELSE IF NULL \in {p, q} THEN NULL ELSE TRUE
Or(p, q) == IF TRUE \in {p, q} THEN TRUE ELSE IF NULL \in {p, q} THEN NULL ELSE FALSE
IsNull(x) == x = NULL
Check(condition) == condition # FALSE

\* A foreign key from the columns `cols' to rows whose key is in `target'.
References(cols, target) == NULL \in {cols[i] : i \in DOMAIN cols} \/ cols \in target

----------------------------------------------------------------------------
(* Scopes and rules, as the tables that carry them constrain them.         *)

Scopes == [type : {"tenant", "company", "branch"},
           company : Maybe({c.id : c \in Companies}), branch : Maybe({b.id : b \in Branches})]

CompanyKey == {<<c.tenant, c.id>> : c \in Companies}
BranchKey == {<<b.tenant, b.company, b.id>> : b \in Branches}

ScopeCoherent(s) ==
    \/ s.type = "tenant" /\ IsNull(s.company) /\ IsNull(s.branch)
    \/ s.type = "company" /\ ~IsNull(s.company) /\ IsNull(s.branch)
    \/ s.type = "branch" /\ ~IsNull(s.company) /\ ~IsNull(s.branch)

ScopesOf(t) == {s \in Scopes : /\ ScopeCoherent(s)
                               /\ References(<<t, s.company>>, CompanyKey)
                               /\ References(<<t, s.company, s.branch>>, BranchKey)}

\* A reference to a rule: its owner is repeated next to it so that a rule of a
\* tenant is only used by that tenant.
RuleRefs == [rule : Ids, ownership : {"system", "tenant"}, tenant : Maybe(Tenants)]

RuleOwnershipCheck(ref, t) ==
    Check(Or(And(ref.ownership = "system", IsNull(ref.tenant)),
             And(ref.ownership = "tenant", Eq(ref.tenant, t))))

RuleKeys(ref) ==
    /\ \E r \in rules : r.id = ref.rule /\ r.ownership = ref.ownership
    /\ References(<<ref.tenant, ref.rule, ref.ownership>>,
                  {<<r.tenant, r.id, r.ownership>> : r \in rules})

RuleRefsOf(t) == {ref \in RuleRefs : RuleOwnershipCheck(ref, t) /\ RuleKeys(ref)}

----------------------------------------------------------------------------
(* Inserts.  The row level policies let a session write rows of its tenant *)
(* only; the identifiers of a table are unique, and given out in order     *)
(* (they are random: which one a row has makes no difference).             *)

Room == Cardinality(rules) + Cardinality(versions) + Cardinality(runs)
        + Cardinality(findings) + Cardinality(evidences) + Cardinality(hypotheses)
        + Cardinality(incidents) < MaxRows
LeafRoom == Cardinality(configurations) + Cardinality(recommendations) + Cardinality(links)
            + Cardinality(suppressions) + Cardinality(members) < MaxLeaves
New(i, table) == i = Cardinality(table) + 1

\* A session of the platform publishes a rule for every tenant: definition,
\* version and the pointer between them in one transaction.  It comes first,
\* and one such rule is enough.
SystemRule ==
    /\ rules = {}
    /\ rules' = {[id |-> 1, ownership |-> "system", tenant |-> NULL, published |-> 1]}
    /\ versions' = {<<1, 1>>}
    /\ UNCHANGED <<configurations, runs, history, suppressions>>

\* A rule of the tenant; its published version is not known yet.
DiagnosticRuleDefinition(t, i) ==
    /\ Room /\ New(i, rules)
    /\ rules' = rules \cup {[id |-> i, ownership |-> "tenant", tenant |-> t, published |-> NULL]}
    /\ UNCHANGED <<versions, configurations, runs, history, suppressions>>

\* A version of a rule of the tenant (the policy looks the rule up), and the
\* pointer of the rule set to it: the key asks only that the version exists.
DiagnosticRuleVersion(t, i) ==
    /\ Room
    /\ \E r \in rules : r.id = i /\ r.tenant = t
    /\ <<i, 1>> \notin versions
    /\ versions' = versions \cup {<<i, 1>>}
    /\ \E pointer \in {NULL, 1} :
         rules' = {IF r.id = i THEN [r EXCEPT !.published = pointer] ELSE r : r \in rules}
    /\ UNCHANGED <<configurations, runs, history, suppressions>>

\* One configuration of a rule for a scope (the unique index takes NULLs as
\* equal); a pinned configuration names an existing version.
DiagnosticRuleConfiguration(t, i) ==
    /\ LeafRoom /\ New(i, configurations)
    /\ \E s \in ScopesOf(t), ref \in RuleRefsOf(t), selected \in {NULL, 1} :
         /\ References(<<ref.rule, selected>>, versions)
         /\ \A c \in configurations :
              <<c.tenant, c.ref.rule, c.scope.company, c.scope.branch>>
                # <<t, ref.rule, s.company, s.branch>>
         /\ configurations' = configurations \cup
              {[id |-> i, tenant |-> t, scope |-> s, ref |-> ref, selected |-> selected]}
    /\ UNCHANGED <<catalog, runs, history, suppressions>>

DiagnosticEvaluationRun(t, i) ==
    /\ Room /\ New(i, runs)
    /\ \E s \in ScopesOf(t) : runs' = runs \cup {[id |-> i, tenant |-> t, scope |-> s]}
    /\ UNCHANGED <<catalog, configurations, history, suppressions>>

\* Without the key that carries the company.
RunKeysByBranch(t, run, s) ==
    LET own == {r \in runs : r.tenant = t /\ r.id = run}
    IN /\ \E r \in own : r.scope.type = s.type
       /\ References(<<s.branch>>, {<<r.scope.branch>> : r \in own})

\* The three keys of a finding to its run: by scope type, by company and by
\* branch, the last two unchecked when the column is NULL.
RunKeys(t, run, s) ==
    LET own == {r \in runs : r.tenant = t /\ r.id = run}
    IN /\ \E r \in own : r.scope.type = s.type
       /\ References(<<s.company>>, {<<r.scope.company>> : r \in own})
       /\ References(<<s.branch>>, {<<r.scope.branch>> : r \in own})

DiagnosticFinding(t, i) ==
    /\ Room /\ New(i, findings)
    /\ \E s \in ScopesOf(t), ref \in RuleRefsOf(t), run \in Ids :
         /\ <<ref.rule, 1>> \in versions
         /\ RunKeys(t, run, s)
         /\ findings' = findings \cup
              {[id |-> i, tenant |-> t, scope |-> s, run |-> run, ref |-> ref]}
    /\ UNCHANGED <<catalog, configurations, runs, evidences, hypotheses, links,
                   recommendations, suppressions, incidents, members>>

FindingKey == {<<f.tenant, f.id>> : f \in findings}

DiagnosticEvidence(t, i) ==
    /\ Room /\ New(i, evidences)
    /\ \E f \in Ids : /\ <<t, f>> \in FindingKey
                      /\ evidences' = evidences \cup {[id |-> i, tenant |-> t, finding |-> f]}
    /\ UNCHANGED <<catalog, configurations, runs, findings, hypotheses, links,
                   recommendations, suppressions, incidents, members>>

DiagnosticHypothesis(t, i) ==
    /\ Room /\ New(i, hypotheses)
    /\ \E f \in Ids : /\ <<t, f>> \in FindingKey
                      /\ hypotheses' = hypotheses \cup {[id |-> i, tenant |-> t, finding |-> f]}
    /\ UNCHANGED <<catalog, configurations, runs, findings, evidences, links,
                   recommendations, suppressions, incidents, members>>

\* A key by tenant and identifier only would let an evidence of one finding
\* support a hypothesis of another.
LinkKeysById(t, f, e, h) ==
    /\ \E x \in evidences : x.id = e /\ x.tenant = t
    /\ \E x \in hypotheses : x.id = h /\ x.tenant = t /\ x.finding = f

LinkKeys(t, f, e, h) ==
    /\ [id |-> e, tenant |-> t, finding |-> f] \in evidences
    /\ [id |-> h, tenant |-> t, finding |-> f] \in hypotheses

DiagnosticHypothesisEvidence(t) ==
    /\ LeafRoom
    /\ \E f, e, h \in Ids :
         /\ LinkKeys(t, f, e, h)
         /\ links' = links \cup
              {[tenant |-> t, finding |-> f, evidence |-> e, hypothesis |-> h]}
    /\ UNCHANGED <<catalog, configurations, runs, findings, evidences, hypotheses,
                   recommendations, suppressions, incidents, members>>

DiagnosticActionRecommendation(t, i) ==
    /\ LeafRoom /\ New(i, recommendations)
    /\ \E f \in Ids :
         /\ <<t, f>> \in FindingKey
         /\ recommendations' = recommendations \cup {[id |-> i, tenant |-> t, finding |-> f]}
    /\ UNCHANGED <<catalog, configurations, runs, findings, evidences, hypotheses, links,
                   suppressions, incidents, members>>

\* A suppression aims at a rule, under the same ownership check, or at the
\* fingerprint of a finding, and then it has no rule.
DiagnosticSuppression(t, i) ==
    /\ LeafRoom /\ New(i, suppressions)
    /\ \E s \in ScopesOf(t), ref \in RuleRefsOf(t) \cup {NULL} :
         suppressions' = suppressions \cup {[id |-> i, tenant |-> t, scope |-> s, ref |-> ref]}
    /\ UNCHANGED <<catalog, configurations, runs, history>>

\* An incident names its main finding; the findings it groups are rows of
\* another table, which need not contain that one.
DiagnosticIncident(t, i) ==
    /\ Room /\ New(i, incidents)
    /\ \E s \in ScopesOf(t), f \in Ids :
         /\ <<t, f>> \in FindingKey
         /\ incidents' = incidents \cup {[id |-> i, tenant |-> t, scope |-> s, finding |-> f]}
    /\ UNCHANGED <<catalog, configurations, runs, findings, evidences, hypotheses, links,
                   recommendations, suppressions, members>>

DiagnosticIncidentMembership(t) ==
    /\ LeafRoom
    /\ \E i, f \in Ids :
         /\ \E x \in incidents : x.id = i /\ x.tenant = t
         /\ <<t, f>> \in FindingKey
         /\ members' = members \cup {[tenant |-> t, incident |-> i, finding |-> f]}
    /\ UNCHANGED <<catalog, configurations, runs, findings, evidences, hypotheses, links,
                   recommendations, suppressions, incidents>>

StoreInit ==
    /\ rules = {} /\ versions = {}
    /\ configurations = {} /\ runs = {} /\ suppressions = {}
    /\ findings = {} /\ evidences = {} /\ hypotheses = {} /\ links = {}
    /\ recommendations = {} /\ incidents = {} /\ members = {}

Insert(t, i) ==
    \/ DiagnosticRuleDefinition(t, i) \/ DiagnosticRuleVersion(t, i)
    \/ DiagnosticRuleConfiguration(t, i) \/ DiagnosticEvaluationRun(t, i)
    \/ DiagnosticFinding(t, i) \/ DiagnosticEvidence(t, i) \/ DiagnosticHypothesis(t, i)
    \/ DiagnosticHypothesisEvidence(t) \/ DiagnosticActionRecommendation(t, i)
    \/ DiagnosticSuppression(t, i) \/ DiagnosticIncident(t, i)
    \/ DiagnosticIncidentMembership(t)

StoreNext == SystemRule \/ (rules # {} /\ \E t \in Tenants, i \in Ids : Insert(t, i))

----------------------------------------------------------------------------
(* Properties.                                                             *)

\* A finding is about the company and the branch its run evaluated, although
\* two of the three keys that tie it to the run are silent for NULLs.
FindingInRunScope ==
    \A f \in findings : \E r \in runs :
        r.id = f.run /\ r.tenant = f.tenant /\ r.scope = f.scope

\* What explains a finding is about that finding: an evidence supports a
\* hypothesis only inside one finding of one tenant, and an incident groups
\* findings of its tenant.
ExplanationStaysInFinding ==
    /\ \A l \in links :
         /\ \E e \in evidences : e.id = l.evidence /\ e.finding = l.finding /\ e.tenant = l.tenant
         /\ \E h \in hypotheses : h.id = l.hypothesis /\ h.finding = l.finding
         /\ <<l.tenant, l.finding>> \in FindingKey
    /\ \A m \in members : /\ \E x \in incidents : x.id = m.incident /\ x.tenant = m.tenant
                          /\ <<m.tenant, m.finding>> \in FindingKey

\* A tenant uses the rules of the platform and its own, never those of another.
RuleStaysInTenant ==
    \A row \in findings \cup configurations :
        \A r \in rules : r.id = row.ref.rule => r.tenant \in {NULL, row.tenant}
============================================================================
