\* One result, two hits per result asked of an index, one match per file: all
\* the limits bite with three lines.
CONSTANTS
    Domains <- MCDomains
    Layout <- MCLayout
    Files = {1, 2, 3}
    DomainOf <- MCDomainOf
    DateOf <- MCDateOf
    Undated = 9
    Lines <- MCLines
    Queries <- MCQueries
    Lower <- MCLower
    MaxResults = 1
    MaxPerFile = 1
    Spread = 2
    MaxLines = 3
    MaxWrites = 1
SPECIFICATION Spec
INVARIANTS
    MatchesAreInRange
