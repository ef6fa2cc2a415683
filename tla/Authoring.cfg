SPECIFICATION Spec
CONSTANTS
    ann = ann  bob = bob  root = root
    r1 = r1  r2 = r2  r3 = r3
    None = None  Anyone = Anyone
    Users <- MCUsers
    Admins <- MCAdmins
    MaxInt = 5
    MaxPageSize = 2
    Posts = {1, 2, 3}
    Titles <- MCTitles
    Slugs <- MCSlugs
    Slugify <- MCSlugify
    WithSuffix <- MCWithSuffix
    Seed <- MCSeed
    Requests = {r1, r2, r3}
    Kind <- Work
    Actor <- Actors
INVARIANTS PublicationsAnnounced SlugFollowsTitle ListingAgreesWithView PagesCoverListing
