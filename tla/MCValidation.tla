----------------------------- MODULE MCValidation -----------------------------
(* Validation with the checks of checks.go; what Validation assumes of a      *)
(* table is evaluated on RunAllChecks.                                        *)
EXTENDS Validation, ValidationChecks

(* --quick runs some of the same checks.                                      *)
ASSUME QuickIsSubset ==
    \A c \in DOMAIN RunQuickChecks : RunAllChecks[c] = RunQuickChecks[c]
===============================================================================
