SPECIFICATION Spec
CONSTANTS
    Settings <- ReconcileSettings
    None = None
INVARIANT ProbedLandingIsEvidence
