SPECIFICATION Spec
CONSTANTS
    leaf = leaf
    middle = middle
    root = root
    when = when
    unless = unless
    Names = {leaf, middle, root}
    Macros = {}
    Versions <- MCLeafVersions
    Deps <- MCDeps
    Uses <- MCNoUses
INVARIANT WarmBuildEqualsColdBuild
