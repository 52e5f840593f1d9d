\* Two parts with up to one header line each, with and without data, whole,
\* cut short or with a unit missing, in one chain or two.
CONSTANTS
    MaxParts = 2
    MaxHeaders = 1
    DataOf <- MCDataOf
SPECIFICATION ParserSpec
INVARIANTS
    UploadFaithful
PROPERTIES
    Terminates
CHECK_DEADLOCK FALSE
