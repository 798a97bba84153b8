--------------------------- MODULE EffectAssessment ---------------------------
(***************************************************************************)
(* AssessCapabilityEffects (src/assessment.go): the prerequisite that a    *)
(* policy preset adds for a capability, from the maximum effects its       *)
(* signed release declares; and SimplePolicy (src/policy_binding.go).      *)
(*                                                                         *)
(* A capability's semantics are the set of its declared effects, or        *)
(* Missing for the releases older than the field.  Around the function the *)
(* model puts the two things that change its arguments while a task lives: *)
(* the publisher releases a capability with other semantics, and the       *)
(* tenant selects another preset.                                          *)
(***************************************************************************)
EXTENDS Integers

CONSTANT Missing  \* capability.Semantics == nil

Consequential == {"delete", "access_change", "data_export", "code_execution",
                  "availability_change"}

Effects == {"read", "write", "unknown"} \cup Consequential

Presets == {"read_only", "review_changes", "delegated_changes"}

\* What a publisher may write into a release: any set of effects, a word that
\* is not an effect, nothing at all, or no field.
Semantics == (SUBSET Effects) \cup {{"read", "other"}} \cup {Missing}

\* ActionSemantics.Validate, and its nil case in ActionCapability.Validate.
\* The encoding is a list; its duplicates are refused, so a set is what is left.
ValidSemantics(s) == s = Missing \/ (s # {} /\ s \subseteq Effects)

Unknown(s) == s = Missing \/ "unknown" \in s

\* Mutant: consequential effects without "write" do not count as changes.
ChangedByWriteOnly(s) == s # Missing /\ "write" \in s

Changed(s) == s # Missing /\ s \cap ({"write"} \cup Consequential) # {}

Consequent(s) == s # Missing /\ s \cap Consequential # {}

\* Mutant: unknown effects are looked at after the declared changes.
AssessUnknownLast(p, s) ==
    IF p \notin Presets \/ ~ ValidSemantics(s) THEN "blocked"
    ELSE IF p = "read_only" /\ (Unknown(s) \/ Changed(s)) THEN "blocked"
    ELSE IF Changed(s)
         THEN IF p = "review_changes" \/ Consequent(s) THEN "review"
              ELSE "delegation"
    ELSE IF Unknown(s) THEN "resolution" ELSE "existing_checks"

\* Mutant: read_only is not told from delegated_changes.
AssessNoReadOnly(p, s) ==
    IF p \notin Presets \/ ~ ValidSemantics(s) THEN "blocked"
    ELSE IF Unknown(s) THEN "resolution"
    ELSE IF ~ Changed(s) THEN "existing_checks"
    ELSE IF p = "review_changes" \/ Consequent(s) THEN "review"
    ELSE "delegation"

\* AssessCapabilityEffects.  An unsupported preset or an invalid capability is
\* an error that carries the requirement "blocked".
Assess(p, s) ==
    IF p \notin Presets \/ ~ ValidSemantics(s) THEN "blocked"
    ELSE IF p = "read_only" /\ (Unknown(s) \/ Changed(s)) THEN "blocked"
    ELSE IF Unknown(s) THEN "resolution"
    ELSE IF ~ Changed(s) THEN "existing_checks"
    ELSE IF p = "review_changes" \/ Consequent(s) THEN "review"
    ELSE "delegation"

\* SimplePolicy.Assess: the presets released to sessions.
SimplePresets == {"read_only", "review_changes"}

SimpleAssess(p, s) == IF p \in SimplePresets THEN Assess(p, s) ELSE "blocked"

\* How much each requirement asks for, and how strict each preset is.
Requirements == {"existing_checks", "delegation", "review", "resolution", "blocked"}

Rank(r) == CASE r = "existing_checks" -> 0
             [] r = "delegation" -> 1
             [] r = "review" -> 2
             [] r = "resolution" -> 3
             [] r = "blocked" -> 4

Strictness(p) == CASE p = "delegated_changes" -> 0
                   [] p = "review_changes" -> 1
                   [] p = "read_only" -> 2

\* Semantics t cover semantics s: everything s may do, t may do as well.  A
\* missing declaration covers nothing but itself and is covered by nothing else.
Covers(t, s) == s = t \/ (s # Missing /\ t # Missing /\ s \subseteq t)

-----------------------------------------------------------------------------
VARIABLES preset, semantics

effectVars == <<preset, semantics>>

EffectTypeOK == preset \in Presets /\ semantics \in Semantics

EffectInit == preset \in Presets /\ semantics \in Semantics

\* The publisher signs a new release of the capability.
Release(s) == semantics' = s /\ UNCHANGED preset

\* The tenant selects another preset.
Select(p) == preset' = p /\ UNCHANGED semantics

EffectNext == \/ \E s \in Semantics : Release(s)
        \/ \E p \in Presets : Select(p)

EffectSpec == EffectInit /\ [][EffectNext]_effectVars

Requirement == Assess(preset, semantics)

-----------------------------------------------------------------------------
(* Properties. *)

\* A release that admits to more effects never needs less: no declaration can
\* be added to escape a review, a resolution or a block.
NoRelaxingEffect ==
    [][ (/\ preset' = preset
         /\ ValidSemantics(semantics) /\ ValidSemantics(semantics')
         /\ Covers(semantics', semantics))
        => Rank(Requirement) <= Rank(Requirement') ]_effectVars

\* A stricter preset never needs less for the same capability.
NoRelaxingPreset ==
    [][ (semantics' = semantics /\ Strictness(preset) <= Strictness(preset'))
        => Rank(Requirement) <= Rank(Requirement') ]_effectVars

\* A missing or an unknown declaration is resolved or blocked, whatever else is
\* declared with it; the presets released to sessions review at least whatever is
\* not a declared pure read.
UnknownNeverApproved ==
    Unknown(semantics) => Requirement \in {"resolution", "blocked"}
SimplePolicyReviews ==
    (semantics # Missing /\ semantics \ {"read"} # {}) =>
        SimpleAssess(preset, semantics) \in {"review", "resolution", "blocked"}

\* README: "Missing semantics remain unknown" and "Unknown effects need
\* resolution ..., not merely an approval click": nothing beyond a declared pure
\* read slips past the one or the other assessment, in whatever mixture of effects.
NothingSlipsThrough == UnknownNeverApproved /\ SimplePolicyReviews
=============================================================================
