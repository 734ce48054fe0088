SPECIFICATION Spec
CONSTANTS
    Creators = {a, b}
    Hosts = {"dc01", "DC01", "srv02", "ws01", "elk"}
    Groups = {"dc", "domain"}
    Vars = {"domain_name", "admin_user"}
    Values = {"adm", "variant", "lab"}
    KnownHosts = {"dc01", "srv02", "ws01"}
    LabHosts = {"dc01", "srv02"}
    TemplateHosts = {"dc01", "srv02", "ws01"}
    MachineIds = {"i-9"}
    Lower <- MCLower
    Canonical <- MCCanonical
    Requests <- MCRequests
SYMMETRY CreatorSymmetry
INVARIANTS RollbackExact OneWinner WinnerIsWhole
