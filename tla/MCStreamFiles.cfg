SPECIFICATION Spec
CONSTANTS
    FieldLine = {"From"}
    OkLine = {"+OK"}
    Attachment <- MCAttachment
    XorKeys = {1, 2}
    Signature <- MCSignature
    PeHeader <- MCPeHeader
    ElfTables <- MCElfTables
    EndRecord <- MCEndRecord
    Blank = {"lf"}
    MinLength <- MCMinLength
    PowerShell = {"iex"}
    Shebang = {"#!"}
    EchoOff = {}
    SetLocal = {"setlocal"}
    Items <- MCItems
    Greeting <- MCGreeting
    MaxItems = 3
INVARIANTS
    TransfersExtracted
    AttachmentsOnce
    FilesCarved
\* A stream has a bounded number of items.
CHECK_DEADLOCK FALSE
