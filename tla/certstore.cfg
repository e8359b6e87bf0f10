SPECIFICATION Spec
CONSTANTS
    c1 = c1  c2 = c2  t1 = t1  t2 = t2  stranger = stranger
    Requests = {r1, r2, r3}
    Certs = {c1, c2}
    Targets = {t1, t2}
    Strangers = {stranger}
    None = None
    Bodies <- AllBodies
    Faults = {"vault", "restart"}
INVARIANT TypeOK
INVARIANT DatesMatchCert
INVARIANT PairFromVault
