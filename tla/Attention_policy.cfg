\* Three receptors in two packs: every class, space, pack state and backend.
SPECIFICATION Spec
CONSTANTS
  Receptors = {r1, r2, r3}
  Packs = {p1, p2}
SYMMETRY Symmetry
INVARIANTS DeliverPassesGate VetoFailClosed HealthIsHonest
PROPERTIES DeliveryIsPolicy
