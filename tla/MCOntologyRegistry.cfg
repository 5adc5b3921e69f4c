CONSTANTS
    Upper <- UpperCase
    DefaultEntities <- B2BEntities
    DefaultRelationships <- B2BRelationships
    Entities <- MoreEntities
    Relationships <- MoreRelationships
    Ids <- SomeIds
    Extractions <- SomeExtractions
SPECIFICATION Spec
INVARIANTS
    OntologyTypeOK
    ResolvedIsFixed
    KeptAreAllowed
PROPERTY NewNamesTakeNothing
