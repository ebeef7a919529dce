CONSTANTS
    c1 = c1
    c2 = c2
    c3 = c3
    a = a
    b = b
    NSlots = 2
    Conns <- ThreeConns
    Names <- TwoNames
    Blank = Blank
    NoConn = NoConn

SPECIFICATION Spec

SYMMETRY Symmetry

INVARIANT
    UniqueLogin

CHECK_DEADLOCK FALSE
