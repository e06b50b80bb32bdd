SPECIFICATION Spec
INVARIANTS CatalogueIsFaithful ChargesAreFair ViewsAreTrue
