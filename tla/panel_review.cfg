SPECIFICATION Spec
CONSTANTS
    MaxProposals = 2
INVARIANTS
    ApplyNeedsReview
