--------------------------- MODULE RuleSelection ---------------------------
(***************************************************************************)
(* Which rules a configuration selects: RuleSet.rule_reference_map,        *)
(* _expand_rule_refs and get_rulepack of core/rules/base.py, as operators  *)
(* on a register. A register is the sequence of the manifests in the order *)
(* in which the rules were registered: [code, name, groups, aliases].      *)
(* A glob stands for the references fnmatch finds for it.                  *)
(***************************************************************************)
EXTENDS Naturals, Sequences

CONSTANTS
    Codes,      \* rule codes
    Refs,       \* every code, name, group and alias
    NoName,     \* the name of a rule without one
    Globs,      \* glob expressions
    GlobOf      \* the references each glob matches

ASSUME SelectionAssumption ==
    /\ Codes \subseteq Refs
    /\ NoName \notin Refs
    /\ Globs \cap Refs = {}
    /\ GlobOf \in [Globs -> SUBSET Refs]

Manifest == [code : Codes, name : Refs \cup {NoName},
             groups : SUBSET Refs, aliases : SUBSET Refs]

\* register(): a code is registered once.
IsRegister(register) ==
    /\ register \in Seq(Manifest)
    /\ \A i, j \in DOMAIN register : register[i].code = register[j].code => i = j

Registered(register) == {register[i].code : i \in DOMAIN register}

\* The rules of a name: in a dict comprehension the last one registered stays.
LastNamed(register, name) ==
    {i \in DOMAIN register :
        register[i].name = name
            /\ \A j \in DOMAIN register : register[j].name = name => j <= i}

NameMap(register) ==
    [r \in {register[i].name : i \in DOMAIN register} \ {NoName} |->
        {register[i].code : i \in LastNamed(register, r)}]

GroupMap(register) ==
    [r \in UNION {register[i].groups : i \in DOMAIN register} |->
        {register[i].code : i \in {j \in DOMAIN register : r \in register[j].groups}}]

AliasMap(register) ==
    [r \in UNION {register[i].aliases : i \in DOMAIN register} |->
        {register[i].code : i \in {j \in DOMAIN register : r \in register[j].aliases}}]

\* {**f, **g}
Merged(f, g) ==
    [x \in DOMAIN f \cup DOMAIN g |-> IF x \in DOMAIN g THEN g[x] ELSE f[x]]

\* Mutant for RulesFollowConfig: aliases are merged in before groups.
RuleReferenceMapAliasesFirst(register) ==
    LET codes == [c \in Registered(register) |-> {c}]
        named == Merged(NameMap(register), codes)
    IN  Merged(GroupMap(register), Merged(AliasMap(register), named))

\* rule_reference_map: codes > names > groups > aliases.
RuleReferenceMap(register) ==
    LET codes == [c \in Registered(register) |-> {c}]
        named == Merged(NameMap(register), codes)
        grouped == Merged(GroupMap(register), named)
    IN  Merged(AliasMap(register), grouped)

\* _expand_rule_refs: a reference of the map, or else a glob over its keys.
ExpandRuleRefs(list, map) ==
    LET globbed == UNION {GlobOf[g] : g \in list \cap Globs}
    IN  UNION {map[r] : r \in (list \cup globbed) \cap DOMAIN map}

\* get_rulepack: an empty allowlist stands for every code.
GetRulepack(register, rules, excludeRules) ==
    LET map == RuleReferenceMap(register)
        allowlist == IF rules = {} THEN Registered(register) ELSE rules
    IN  (ExpandRuleRefs(allowlist, map) \ ExpandRuleRefs(excludeRules, map))
            \cap Registered(register)

-----------------------------------------------------------------------------
(* The reference: what a reference means, in the order of precedence that  *)
(* the docstring of rule_reference_map gives, and what a list selects.     *)

Means(register, r) ==
    LET at == DOMAIN register
        members == {i \in at : r \in register[i].groups}
        others == {i \in at : r \in register[i].aliases}
    IN  IF r \in Registered(register) THEN {r}
        ELSE {register[i].code : i \in
                IF \E i \in at : register[i].name = r THEN LastNamed(register, r)
                ELSE IF members # {} THEN members ELSE others}

Selects(register, list) ==
    UNION {Means(register, r) :
               r \in (list \cap Refs) \cup UNION {GlobOf[g] : g \in list \cap Globs}}

\* What a list of chosen and a list of excluded references ask for.
Asked(register, rules, excludeRules) ==
    (IF rules = {} THEN Registered(register) ELSE Selects(register, rules))
        \ Selects(register, excludeRules)
=============================================================================
