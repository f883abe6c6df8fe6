SPECIFICATION Spec
CONSTANTS
    root = root
    d = d
    e = e
    f = f
    g = g
    other = other
    toDir = toDir
    toFile = toFile
    toOther = toOther
    u = u
    Foreign = {u, toOther}
    None = None
    RootDir = root
    Dirs <- MCDirs
    Files <- MCFiles
    Links <- MCLinks
    Slots <- MCSlots
    Fits <- MCFits
    Target <- MCTarget
    Trees <- MCTrees
    Paths <- MCPaths
    StickyPath <- MCStickyPath
    MaxLinks = 2
    MaxUnsafe = 1
    MaxEdits = 1
INVARIANTS
    RootsText
    NotLedAstray
