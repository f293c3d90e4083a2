SPECIFICATION Spec
CONSTANTS
    Threads = {t1, t2}
    Lines = {l1, l2, l3}
    Device = {"FILE", "DISP"}
    Fds = {d1, d2, d3}
    Orders = {"serial", "free"}
    NoLine = NoLine
    NoFd = NoFd
SYMMETRY Symmetry
INVARIANTS LoggingComesBack LinesComplete GameFileSafe
