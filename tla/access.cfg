SPECIFICATION Spec
CONSTANTS
    c1 = c1
    Creds <- MCCreds
    Secrets <- MCSecrets
    Deployments <- MCDeployments
    Root = "root"
    Groups = {"g1", "g2"}
    Admins = {a1}
    Requests = {r1}
    MaxCalls = 4
    MaxId = 2
    MaxFailures = 1
    MaxRestarts = 1
CHECK_DEADLOCK FALSE
INVARIANTS
    ByKeyExact
    ServedWithinGroup
PROPERTY RenameKeepsAccess
