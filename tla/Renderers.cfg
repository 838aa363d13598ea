CONSTANTS
  Replies <- MCReplies
  Buffer = 3
  Archives <- MCArchives
  Requests <- MCRequests
  Matched = 2
  ArchiveBuffer = 2
  Renderers <- MCRendererTable
  Values <- MCValues
SPECIFICATION RenderersSpec
INVARIANT StreamKept
PROPERTY WholeAnswered
PROPERTY Extracted
PROPERTY AnsweredAsAsked
