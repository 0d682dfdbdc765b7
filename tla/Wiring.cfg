SPECIFICATION Spec
CONSTANTS
    Providers = {p1, p2, p3}
    Installs = {h1, h2}
    Extensions = {e1}
    Startup = Startup
    Public = {p3}
    Configurable = {p3}
    None = None
    MaxRequired = 1
SYMMETRY Symmetry
INVARIANTS TypeOK ProducersAreThere ToldOnce
\* Once every install and extension is there nothing is left to wire.
CHECK_DEADLOCK FALSE
