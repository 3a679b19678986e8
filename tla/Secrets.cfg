SPECIFICATION Spec
CONSTANTS
    Clients = {c1, c2, c3}
    DataIds = {d1, d2}
    Threads = 2
    MaxBatch = 2
    MaxMessages = 2
SYMMETRY ClientOrIdSymmetry
INVARIANTS
    SecretTypeOK
    SecretsFlowUp
