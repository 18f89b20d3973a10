\* A statement of the sources that the code does not keep, and TLC's counterexample.
SPECIFICATION Spec
CONSTANTS
    c1 = c1
    Creds <- MCCreds
    Secrets <- MoreSecrets
    Deployments <- MCDeployments
    Root = "root"
    Groups = {"g1", "g2"}
    Admins = {a1, a2}
    Requests = {r1}
    MaxCalls = 4
    MaxId = 2
    MaxFailures = 1
    MaxRestarts = 1
CHECK_DEADLOCK FALSE
INVARIANT RootKeyWorks
\* Others that the same instance violates:
\* PROPERTY RotatedStaysDead
\* INVARIANT RollbackComplete
\* PROPERTY SettingsKept
\* INVARIANT NoGroupMeansUnbound
\* PROPERTY KeyGroupsRegistered
