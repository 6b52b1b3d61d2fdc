\* Two calls at a time over four images of two models.
SPECIFICATION Spec
CONSTANTS
    nemo = nemo
    other = other
    hub = hub
    mirror = mirror
    sayoModelNemo = sayoModelNemo
    custom = custom
    nemoSlug = nemoSlug
    otherSlug = otherSlug
    v1 = v1
    d1 = d1
    c1 = c1
    c2 = c2
    NoModel = NoModel
    NoRef = NoRef
    Torn = Torn
    NoSlug = NoSlug
    NoTag = NoTag
    NoDigest = NoDigest
    Latest = Latest
    Model = {nemo, other}
    Call = {c1, c2}
    Ref <- MCRef
    ModelIn <- MCModelIn
    SlugOf <- MCSlugOf
    ModelSlug <- MCModelSlug
    RemoveAlone = TRUE
SYMMETRY MCSymmetry
INVARIANTS
    TypeOK
    CacheIsDisk
    ImageBehindManifest
    RegistryInv
