SPECIFICATION WebhookSpec
CONSTANTS
    None = None
    NoKey = NoKey
    Checked <- Settings
    Roots = {"/"}
    Slash <- MCSlash
    Setups <- MCSetups
    JobSetups <- MCJobSetups
    Chosen = {"reviews", "serial", "mixed", "together", "helm"}
INVARIANTS AcceptedIsSound JobsAgree
PROPERTIES Installed
CHECK_DEADLOCK FALSE
