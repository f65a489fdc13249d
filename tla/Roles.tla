------------------------------- MODULE Roles -------------------------------
(***************************************************************************)
(* Who a request comes from and what it may do: keys and tokens, identity    *)
(* facts, bindings, roles, scopes.  Pure functions of the configuration.     *)
(***************************************************************************)
EXTENDS Integers, SequencesExt, FiniteSets

CONSTANTS CallerConfigs,  \* caller id |-> [key, scopes]; the entries of config.callers
          CallerOrder,    \* the ids in the order of the configuration
          Providers,      \* trusted OAuth providers, in order
          FactsOf,        \* <<token, provider>> |-> [subject, groups, roles, domain], for
                          \* the providers that verify the token
          Lower,          \* name |-> the name in lower case
          RoleScopes,     \* role |-> its scopes; a scope is [path, permissions]
          LocalGroups,    \* local group |-> its members
          Bindings,       \* the bindings, each [by, name, roles]
          DefaultRole,    \* default_role, or NoRole
          Matching,       \* picomatch: the <<path, pattern>> that match
          NoRole, NoKey, NoName

ASSUME RolesAssumption ==
    /\ Range(CallerOrder) = DOMAIN CallerConfigs
    /\ NoRole \notin DOMAIN RoleScopes
    /\ Bindings \in Seq(Range(Bindings))
    /\ \A b \in Range(Bindings) : b.roles # <<>> /\ b.roles \in Seq(Range(b.roles))
    /\ \A r \in DOMAIN RoleScopes : RoleScopes[r] \in Seq(Range(RoleScopes[r]))

-----------------------------------------------------------------------------
(* resolveScopes.                                                           *)

Lc(name) == IF name \in DOMAIN Lower THEN Lower[name] ELSE name

Members(group) == IF group \in DOMAIN LocalGroups THEN LocalGroups[group] ELSE {}

(* A binding has exactly one selector, `by`.                                *)
BindingMatches(b, facts) ==
    CASE b.by = "user"        -> Lc(b.name) = Lc(facts.subject)
      [] b.by = "domain"      -> facts.domain # NoName /\ Lc(b.name) = Lc(facts.domain)
      [] b.by = "idp_group"   -> b.name \in facts.groups
      [] b.by = "idp_role"    -> b.name \in facts.roles
      [] b.by = "local_group" -> \E m \in Members(b.name) : Lc(m) = Lc(facts.subject)

AddNew(seq, e) == IF e \in Range(seq) THEN seq ELSE Append(seq, e)

(* What is in some sequences, each once, in the order it is first seen.      *)
FirstSeen(seqs) == FoldLeft(LAMBDA acc, seq : FoldLeft(AddNew, acc, seq), <<>>, seqs)

BoundRoles(facts) ==
    [i \in DOMAIN Bindings |-> IF BindingMatches(Bindings[i], facts) THEN Bindings[i].roles
                               ELSE <<>>]

(* Fault to detect: the default role is a base that every identity has.      *)
MatchedRoles_AndDefault(facts) ==
    LET roles == FirstSeen(BoundRoles(facts))
    IN  IF DefaultRole # NoRole THEN AddNew(roles, DefaultRole) ELSE roles

(* The roles of the matching bindings, or the default one.                   *)
MatchedRoles(facts) ==
    LET roles == FirstSeen(BoundRoles(facts))
    IN  IF roles = <<>> /\ DefaultRole # NoRole THEN <<DefaultRole>> ELSE roles

(* Their scopes, each once; a role that is not defined has none.             *)
ResolveScopes(facts) ==
    LET roles == MatchedRoles(facts) IN
    FirstSeen([i \in DOMAIN roles |-> IF roles[i] \in DOMAIN RoleScopes THEN RoleScopes[roles[i]]
                                      ELSE <<>>])

-----------------------------------------------------------------------------
(* checkPermission.                                                         *)

CheckPermission(scopes, permission, path) ==
    \E s \in Range(scopes) : <<path, s.path>> \in Matching /\ permission \in s.permissions

(* What doc_cite asks for, as pairs.                                        *)
Granted(scopes, permissions, paths) ==
    {x \in permissions \X paths : CheckPermission(scopes, x[1], x[2])}

-----------------------------------------------------------------------------
(* The backends.  An outcome is [ok, status, id, scopes].                   *)

Denied(status) == [ok |-> FALSE, status |-> status, id |-> NoName, scopes |-> <<>>]
Known(id, scopes) == [ok |-> TRUE, status |-> 200, id |-> id, scopes |-> scopes]

(* authenticateBearer: the first caller with this key.                      *)
AuthenticateBearer(token) ==
    LET matching == SelectSeq(CallerOrder, LAMBDA id :
                       CallerConfigs[id].key # NoKey /\ CallerConfigs[id].key = token)
    IN  IF matching = <<>> THEN Denied(401)
        ELSE Known(Head(matching), CallerConfigs[Head(matching)].scopes)

(* The verdict of a provider that has verified a token and read these facts.  *)
Settled(facts) ==
    LET scopes == ResolveScopes(facts) IN
    IF facts.subject = NoName THEN Denied(401)
    ELSE IF scopes = <<>> THEN Denied(403)
    ELSE Known(facts.subject, scopes)

(* Its verdict on every token that it verifies.                              *)
Verifies(token, provider) == <<token, provider>> \in DOMAIN FactsOf
Verdict == [x \in DOMAIN FactsOf |-> Settled(FactsOf[x])]

(* resolveCaller on stdio: the only caller, or one that may only read.       *)
ResolveCaller(minimal) ==
    IF Len(CallerOrder) = 1
    THEN Known(Head(CallerOrder), CallerConfigs[Head(CallerOrder)].scopes)
    ELSE Known("_default", minimal)

-----------------------------------------------------------------------------
(* The policy by its meaning: the scopes of every role that a binding of the *)
(* identity names, and of default_role if no binding is the identity's.      *)
BoundScopes(facts) ==
    LET mine  == {b \in Range(Bindings) : BindingMatches(b, facts)}
        roles == IF mine # {} THEN UNION {Range(b.roles) : b \in mine}
                 ELSE {DefaultRole} \ {NoRole}
    IN  UNION {Range(RoleScopes[r]) : r \in roles \intersect DOMAIN RoleScopes}
Due == [x \in DOMAIN FactsOf |-> BoundScopes(FactsOf[x])]
=============================================================================
