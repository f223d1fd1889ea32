SPECIFICATION Spec
CONSTANTS
    Threads = {t1, t2}
    warn = warn
    halt = halt
    warn_release = warn_release
    Settable <- SmallSettable
    Releases <- SmallReleases
    Factory <- SmallFactory
    Requests <- SmallRequests
PROPERTY UntouchedArePreserved
