SPECIFICATION Spec
CONSTANTS
    leaf = leaf
    middle = middle
    root = root
    when = when
    unless = unless
    Names = {leaf, middle, root}
    Macros = {when, unless}
    Versions <- MCVersions
    Deps <- MCDeps
    Uses <- MCUses
INVARIANTS
    TypeOK
    NoStaleExpansion
    BuildConverges
