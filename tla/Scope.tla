-------------------------------- MODULE Scope --------------------------------
(***************************************************************************)
(* internal/scope and the path half of internal/guard: what a job may      *)
(* write.  Globs and paths are opaque; which glob matches which path (the  *)
(* regular expressions of scope.Match) is a relation, the same one for the *)
(* hook that asks before a write and the reviews that look afterwards.     *)
(***************************************************************************)
CONSTANTS
  Paths,      \* repository paths, normalized
  Patterns,   \* globs of reserved.json and of job scopes
  Matches,    \* which path a glob matches, as pairs <<path, glob>>
  Reserved    \* the globs and paths of reserved.json

ASSUME MatchesPairs == Matches \subseteq Paths \X Patterns
ASSUME ReservedPatterns == Reserved \subseteq Patterns

(* What a job declares: model.Scope. *)
JobScopes == [allowed : SUBSET Patterns, denied : SUBSET Patterns]

MatchAny(path, patterns) == \E g \in patterns : <<path, g>> \in Matches

(* MUTANT: an allowed glob wins over a denied or reserved one. *)
Classify_AllowedFirst(path, sc, reserved) ==
  IF MatchAny(path, sc.allowed) THEN "allow"
  ELSE IF MatchAny(path, reserved) THEN "deny-reserved"
  ELSE IF MatchAny(path, sc.denied) THEN "deny-scope"
  ELSE "gate"

(* Reserved, then denied, then allowed; what nothing names needs a human. *)
Classify(path, sc, reserved) ==
  IF MatchAny(path, reserved) THEN "deny-reserved"
  ELSE IF MatchAny(path, sc.denied) THEN "deny-scope"
  ELSE IF MatchAny(path, sc.allowed) THEN "allow"
  ELSE "gate"

(* The verdicts a diff review returns: adapter.scopeReview, diffClassify,  *)
(* PostToolReview.                                                         *)
Violations(changed, sc, reserved) ==
  {path \in changed : Classify(path, sc, reserved) # "allow"}

(* evalPaths: the worst verdict on the paths of one write call; a path     *)
(* that Normalize rejects (it leaves the checkout) is denied.              *)
EvalPaths(paths, rejected, sc, reserved) ==
  LET verdicts == {Classify(path, sc, reserved) : path \in paths \ rejected}
  IN  IF paths \cap rejected # {} \/ verdicts \cap {"deny-reserved", "deny-scope"} # {}
        THEN "deny"
      ELSE IF "gate" \in verdicts THEN "gate"
      ELSE "allow"
=============================================================================
