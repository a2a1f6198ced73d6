\* Administrators change what they like, when they like.
SPECIFICATION FairRouteSpec
CONSTANTS
    m1 = m1
    m2 = m2
    RouteMods <- MCMods
    MaxRouteChanges = 2
 
INVARIANT ServedHostsAreNewest
 
