SPECIFICATION FairSpec
CONSTANTS
    newline = newline  crlf = crlf  nul = nul
    Bytes = {newline, crlf, nul}
    NUL = nul
    Text <- WindowsText
    Chunk = 2
    IntMax = 3
    MaxLen = 4
INVARIANTS TypeOK DownloadComplete UploadComplete
PROPERTIES LoopsEnd LoopsAdvance
