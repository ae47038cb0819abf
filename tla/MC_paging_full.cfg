SPECIFICATION Spec
CONSTANTS
  PAGE_SIZE = 2
  BLOCK_SIZE = 2
  PYS_PAGE_NUM = 3
  STACK_PAGES = 1
  StackVpn = 3
  VPage = {0, 1, 2, 3, 4}
  Byte = {0, 1}
  Programs <- Files
  MAXBYTES = 2
INVARIANTS
  AllocatedPagesExist
