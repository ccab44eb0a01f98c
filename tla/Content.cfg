SPECIFICATION Spec
CONSTANTS
    theBundle = theBundle
    extension = extension
    peer = peer
    thePath = thePath
    Content = {theBundle, extension}
    Nodes = {extension, peer}
    Paths = {thePath}
    Found = {thePath}
    Requests = {r1, r2}
    BundleOf <- OnlyBundle
    ExtensionsOf <- OneExtension
    PathOf <- AllForPath
    Bounds <- ArrivalBounds
INVARIANT OnlyVerified
INVARIANT NoUploadStuck
INVARIANT SoughtIsMissing
INVARIANT NoneSleepsOn

