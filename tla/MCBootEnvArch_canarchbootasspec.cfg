CONSTANTS
    SupArches = {"arm64"}
    MaxRepos = 2
    NotYet = NotYet
SPECIFICATION Spec
INVARIANTS CanArchBootAsSpec
